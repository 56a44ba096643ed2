----------------------------- MODULE UpdateLog -----------------------------
(***************************************************************************)
(* The engine of the secure update log (src/update_log/engine.c): an       *)
(* append-only, hash-chained log kept in a keyed blob store, a monotonic   *)
(* counter and an optional external rollback anchor.                       *)
(*                                                                         *)
(* An append commits in four separate durable writes (entry, meta,         *)
(* counter, anchor).  A step is one durable write together with the reads  *)
(* that precede it under g_engine_lock; a crash, a failed access and an    *)
(* access that takes effect but reports an error can happen at every step. *)
(* SHA-256 is free of collisions: a hash stands for what was hashed.       *)
(***************************************************************************)
EXTENDS Integers

CONSTANTS
  Callers,    \* threads of the image that owns the store
  NoCaller,
  Payloads,   \* contents of an entry (firmware version, image hash, outcome)
  MaxSeq,     \* ULOG_SEQ_MAX: the last sequence number there is a key for
  HasAnchor   \* an external rollback anchor is wired

ASSUME CallersAssumption == NoCaller \notin Callers
ASSUME MaxSeqAssumption == MaxSeq \in Nat
ASSUME TierAssumption == HasAnchor \in BOOLEAN

VARIABLES
  entry,   \* "ulog.<seq>": the stored wire image, or Absent
  meta,    \* "ulog.meta": [count, head] or Absent
  counter, \* the monotonic counter
  floor,   \* the anchor's value
  writeOnce, \* the store refuses to overwrite an entry (PSA protected storage; NVS does not)
  lock,    \* g_engine_lock: the caller inside the engine
  pc,      \* per caller: the next durable access
  op,      \* per caller: the engine entry point it is in
  arg,     \* per caller: the payload to append
  wire,    \* per caller: the wire image being committed or adopted
  last,    \* what the call that has just returned reported
  acked,   \* history: what append() has acknowledged, by sequence number
  tampered \* history: the store was changed behind the engine's back

durable == <<entry, meta, counter, floor>>
locals == <<pc, op, arg, wire>>
vars == <<durable, writeOnce, lock, locals, last, acked, tampered>>

Absent == [present |-> FALSE]
ASSUME PayloadsAssumption == Absent \notin Payloads
Zero == <<>>
Sha(w) == <<w>>

\* A wire image; one that was changed offline may fail to decode (ok = FALSE).
Image(ok, seq, data, prev) ==
  [present |-> TRUE, ok |-> ok, seq |-> seq, data |-> data, prev |-> prev]
Wire(seq, data, prev) == Image(TRUE, seq, data, prev)
Meta(count, head) == [present |-> TRUE, count |-> count, head |-> head]

Keys == 0..(MaxSeq + 1)
Ops == {"append", "verify", "count", "get"}
Silent == [op |-> "none", rc |-> "OK", val |-> 0]
Pc == {"idle", "recover", "adopt_meta", "adopt_inc", "sync", "put", "put_meta", "inc",
       "advance", "walk", "read", "fetch"}

Init ==
  /\ entry = [i \in Keys |-> Absent]
  /\ meta = Absent
  /\ counter = 0
  /\ floor = 0
  /\ writeOnce \in BOOLEAN
  /\ lock = NoCaller
  /\ pc = [c \in Callers |-> "idle"]
  /\ op = [c \in Callers |-> "count"]
  /\ arg \in [Callers -> Payloads]
  /\ wire = [c \in Callers |-> Absent]
  /\ last = Silent
  /\ acked = [i \in Keys |-> Absent]
  /\ tampered = FALSE

-----------------------------------------------------------------------------
\* The prev_hash entry i must carry: ulog_prev_hash_of_predecessor().
PrevHash(i) == IF i = 0 THEN Zero ELSE Sha(entry[i - 1])

\* Entry i decodes, is entry i, and chains from the entry stored before it.
Chains(i) ==
  /\ entry[i].present /\ entry[i].ok
  /\ entry[i].seq = i
  /\ i > 0 => entry[i - 1].present
  /\ entry[i].prev = PrevHash(i)

Goto(c, l) == pc' = [pc EXCEPT ![c] = l] /\ last' = Silent /\ UNCHANGED lock

\* ulog_engine_unlock(); return rc.
Return(c, rc, val) ==
  /\ pc' = [pc EXCEPT ![c] = "idle"]
  /\ lock' = NoCaller
  /\ last' = [op |-> op[c], rc |-> rc, val |-> val]

\* A write reports success and the call goes on, or reports an error
\* although it took effect.
Continue(c, l) == Goto(c, l) \/ Return(c, "FAULT", 0)

\* The step after recovery.  count() has no anchor seam.
AfterRecover(c) ==
  IF op[c] = "count" THEN "read" ELSE "sync"

-----------------------------------------------------------------------------
\* Mutant: count() reads the counter without recovering first.
EnterCountsRaw(c, o, d) ==
  /\ pc[c] = "idle" /\ lock = NoCaller
  /\ lock' = c
  /\ pc' = [pc EXCEPT ![c] = CASE o = "get" -> "fetch" [] o = "count" -> "read"
                                [] OTHER -> "recover"]
  /\ op' = [op EXCEPT ![c] = o]
  /\ arg' = [arg EXCEPT ![c] = d]
  /\ last' = Silent
  /\ UNCHANGED <<durable, wire, acked, tampered, writeOnce>>

\* An engine entry point is called and takes the lock.
Enter(c, o, d) ==
  /\ pc[c] = "idle" /\ lock = NoCaller
  /\ lock' = c
  /\ pc' = [pc EXCEPT ![c] = IF o = "get" THEN "fetch" ELSE "recover"]
  /\ op' = [op EXCEPT ![c] = o]
  /\ arg' = [arg EXCEPT ![c] = d]
  /\ last' = Silent
  /\ UNCHANGED <<durable, wire, acked, tampered, writeOnce>>

\* Mutant: a torn append is left as it is.
RecoverNothing(c) ==
  /\ pc[c] = "recover"
  /\ Goto(c, AfterRecover(c))
  /\ UNCHANGED <<durable, wire, op, arg, acked, tampered, writeOnce>>

\* ulog_recover(): is there an entry at the counter's value that chains?
Recover(c) ==
  /\ pc[c] = "recover"
  /\ IF Chains(counter)
       THEN wire' = [wire EXCEPT ![c] = entry[counter]] /\ Goto(c, "adopt_meta")
       ELSE Goto(c, AfterRecover(c)) /\ UNCHANGED wire
  /\ UNCHANGED <<durable, op, arg, acked, tampered, writeOnce>>

AdoptMeta(c) ==
  /\ pc[c] = "adopt_meta"
  /\ meta' = Meta(wire[c].seq + 1, Sha(wire[c]))
  /\ Continue(c, "adopt_inc")
  /\ UNCHANGED <<entry, counter, floor, op, arg, wire, acked, tampered, writeOnce>>

AdoptIncrement(c) ==
  /\ pc[c] = "adopt_inc"
  /\ counter' = counter + 1
  /\ Continue(c, AfterRecover(c))
  /\ UNCHANGED <<entry, meta, floor, op, arg, wire, acked, tampered, writeOnce>>

\* Mutant: a lagging floor is not brought level.
SyncOnlyChecks(c) ==
  /\ pc[c] = "sync"
  /\ IF HasAnchor /\ floor > counter
       THEN IF op[c] = "append" THEN Return(c, "IO", 0) ELSE Return(c, "OK", "ROLLED_BACK")
       ELSE Goto(c, IF op[c] = "append" THEN "put" ELSE "walk")
  /\ UNCHANGED <<durable, op, arg, wire, acked, tampered, writeOnce>>

\* Mutant: a floor above the counter is not refused.
SyncOnlyAdvances(c) ==
  /\ pc[c] = "sync"
  /\ Goto(c, IF op[c] = "append" THEN "put" ELSE "walk")
  /\ floor' = IF HasAnchor /\ floor < counter THEN counter ELSE floor
  /\ UNCHANGED <<entry, meta, counter, op, arg, wire, acked, tampered, writeOnce>>

\* ulog_sync_anchor(): refuse a rewound store, else bring the floor level.
SyncAnchor(c) ==
  /\ pc[c] = "sync"
  /\ LET go == IF op[c] = "append" THEN "put" ELSE "walk" IN
     IF HasAnchor /\ floor > counter
       THEN /\ IF op[c] = "append" THEN Return(c, "IO", 0) ELSE Return(c, "OK", "ROLLED_BACK")
            /\ UNCHANGED floor
       ELSE IF HasAnchor /\ floor < counter
         THEN floor' = counter /\ Continue(c, go)
         ELSE Goto(c, go) /\ UNCHANGED floor
  /\ UNCHANGED <<entry, meta, counter, op, arg, wire, acked, tampered, writeOnce>>

-----------------------------------------------------------------------------
(* ulog_engine_append_anchored(), after recovery and anchor sync.          *)

\* The cached meta agrees with the counter and with the entry before it.
MetaAgrees ==
  counter > 0 =>
    /\ entry[counter - 1].present /\ meta.present
    /\ meta.count = counter /\ meta.head = PrevHash(counter)

\* The sequence space is exhausted, or meta and store disagree.
AppendRefuses(c) ==
  /\ pc[c] = "put"
  /\ \/ counter > MaxSeq /\ Return(c, "NOMEM", 0)
     \/ counter <= MaxSeq /\ ~MetaAgrees /\ Return(c, "IO", 0)
  /\ UNCHANGED <<durable, op, arg, wire, acked, tampered, writeOnce>>

\* Mutant: the sequence space ends one entry late.
PutEntryPastEnd(c) ==
  LET w == Wire(counter, arg[c], PrevHash(counter)) IN
  /\ pc[c] = "put" /\ MetaAgrees
  /\ entry' = [entry EXCEPT ![counter] = w]
  /\ wire' = [wire EXCEPT ![c] = w]
  /\ Continue(c, "put_meta")
  /\ UNCHANGED <<meta, counter, floor, op, arg, acked, tampered, writeOnce>>

\* The durable commit point.
PutEntry(c) ==
  LET w == Wire(counter, arg[c], PrevHash(counter)) IN
  /\ pc[c] = "put"
  /\ counter <= MaxSeq /\ MetaAgrees
  /\ IF writeOnce /\ entry[counter].present
       THEN Return(c, "IO", 0) /\ UNCHANGED <<entry, wire>>
       ELSE /\ entry' = [entry EXCEPT ![counter] = w]
            /\ wire' = [wire EXCEPT ![c] = w]
            /\ Continue(c, "put_meta")
  /\ UNCHANGED <<meta, counter, floor, op, arg, acked, tampered, writeOnce>>

PutMeta(c) ==
  /\ pc[c] = "put_meta"
  /\ meta' = Meta(wire[c].seq + 1, Sha(wire[c]))
  /\ Continue(c, "inc")
  /\ UNCHANGED <<entry, counter, floor, op, arg, wire, acked, tampered, writeOnce>>

\* append() returns ALP_OK: the entry is acknowledged.
Acknowledge(c) ==
  /\ Return(c, "OK", 0)
  /\ acked' = [acked EXCEPT ![wire[c].seq] = wire[c]]

\* Mutant: the result of counter->increment() is not looked at.
IncrementUnchecked(c) ==
  /\ pc[c] = "inc"
  /\ counter' \in {counter, counter + 1}
  /\ \/ HasAnchor /\ Goto(c, "advance") /\ UNCHANGED acked
     \/ ~HasAnchor /\ Acknowledge(c)
  /\ UNCHANGED <<entry, meta, floor, op, arg, wire, tampered, writeOnce>>

Increment(c) ==
  /\ pc[c] = "inc"
  /\ counter' = counter + 1
  /\ \/ Return(c, "FAULT", 0) /\ UNCHANGED acked
     \/ HasAnchor /\ Goto(c, "advance") /\ UNCHANGED acked
     \/ ~HasAnchor /\ Acknowledge(c)
  /\ UNCHANGED <<entry, meta, floor, op, arg, wire, tampered, writeOnce>>

\* anchor->advance(hw + 1) raises the floor and never lowers it.
AdvanceAnchor(c) ==
  /\ pc[c] = "advance"
  /\ floor' = IF wire[c].seq + 1 > floor THEN wire[c].seq + 1 ELSE floor
  /\ Acknowledge(c) \/ (Return(c, "FAULT", 0) /\ UNCHANGED acked)
  /\ UNCHANGED <<entry, meta, counter, op, arg, wire, tampered, writeOnce>>

-----------------------------------------------------------------------------
(* ulog_engine_verify_anchored(), after recovery and anchor sync.          *)

\* The first committed entry the chain walk stops at.
FirstBad == CHOOSE i \in 0..(counter - 1) : ~Chains(i) /\ \A j \in 0..(i - 1) : Chains(j)

\* Mutant: the cached head hash is not compared with the last entry.
VerdictIgnoresHead ==
  IF counter > 0 /\ ~(meta.present /\ meta.count = counter) THEN "ROLLED_BACK"
  ELSE IF \E i \in 0..(counter - 1) : ~Chains(i)
    THEN IF entry[FirstBad].present THEN "CHAIN_BROKEN" ELSE "TRUNCATED"
  ELSE IF entry[counter].present
    THEN IF Chains(counter) THEN "ROLLED_BACK" ELSE "CHAIN_BROKEN"
  ELSE "OK"

Verdict ==
  IF counter > 0 /\ ~(meta.present /\ meta.count = counter) THEN "ROLLED_BACK"
  ELSE IF \E i \in 0..(counter - 1) : ~Chains(i)
    THEN IF entry[FirstBad].present THEN "CHAIN_BROKEN" ELSE "TRUNCATED"
  ELSE IF counter > 0 /\ meta.head # PrevHash(counter) THEN "CHAIN_BROKEN"
  ELSE IF entry[counter].present
    THEN IF Chains(counter) THEN "ROLLED_BACK" ELSE "CHAIN_BROKEN"
  ELSE "OK"

Walk(c) ==
  /\ pc[c] = "walk"
  /\ Return(c, "OK", Verdict)
  /\ UNCHANGED <<durable, op, arg, wire, acked, tampered, writeOnce>>

\* ulog_engine_count() reads the counter after recovery.
ReadCount(c) ==
  /\ pc[c] = "read"
  /\ Return(c, "OK", counter)
  /\ UNCHANGED <<durable, op, arg, wire, acked, tampered, writeOnce>>

\* ulog_engine_get() has no counter seam and cannot recover: it reads the key.
Fetch(c, i) ==
  /\ pc[c] = "fetch"
  /\ IF entry[i].present
       THEN IF entry[i].ok THEN Return(c, "OK", i) ELSE Return(c, "INVAL", i)
       ELSE Return(c, "NOT_FOUND", i)
  /\ UNCHANGED <<durable, op, arg, wire, acked, tampered, writeOnce>>

-----------------------------------------------------------------------------
\* A read or write of the store, the counter or the anchor fails without effect.
AccessFails(c) ==
  /\ pc[c] # "idle"
  /\ Return(c, "FAULT", 0)
  /\ UNCHANGED <<durable, op, arg, wire, acked, tampered, writeOnce>>

\* Power is lost: only the durable state survives.
Crash ==
  /\ pc' = [c \in Callers |-> "idle"]
  /\ lock' = NoCaller
  /\ last' = Silent
  /\ UNCHANGED <<durable, op, arg, wire, acked, tampered, writeOnce>>

Call(c) == \E o \in Ops, d \in Payloads : Enter(c, o, d)

Step(c) ==
  \/ Recover(c) \/ AdoptMeta(c) \/ AdoptIncrement(c) \/ SyncAnchor(c)
  \/ AppendRefuses(c) \/ PutEntry(c) \/ PutMeta(c) \/ Increment(c) \/ AdvanceAnchor(c)
  \/ Walk(c) \/ ReadCount(c) \/ \E i \in Keys : Fetch(c, i)

Next == Crash \/ \E c \in Callers : Call(c) \/ Step(c) \/ AccessFails(c)

Spec == Init /\ [][Next]_vars

-----------------------------------------------------------------------------
(* Changes of the persisted image between two calls.                       *)

Offline(e, m, n) ==
  /\ lock = NoCaller /\ ~tampered
  /\ entry' = e /\ meta' = m /\ counter' = n
  /\ tampered' = TRUE
  /\ last' = Silent
  /\ UNCHANGED <<floor, lock, locals, acked, writeOnce>>

\* A committed entry is altered, made undecodable or deleted.
EditEntry(i) ==
  /\ i < counter /\ entry[i].present
  /\ \/ Offline([entry EXCEPT ![i] = Absent], meta, counter)
     \/ Offline([entry EXCEPT ![i].ok = FALSE], meta, counter)
     \/ \E d \in Payloads \ {entry[i].data} :
          Offline([entry EXCEPT ![i].data = d], meta, counter)

\* The cached head hash is altered, with no interrupted append to repair it.
EditMeta ==
  /\ counter > 0 /\ ~entry[counter].present /\ meta.present
  /\ Offline(entry, Meta(counter, Zero), counter)

\* Store and counter go back together to an earlier state of k entries that
\* the anchor has already seen exceeded.
Reflash(k) ==
  /\ HasAnchor /\ k < floor
  /\ Offline([i \in Keys |-> IF i < k THEN entry[i] ELSE Absent],
             IF k = 0 THEN Absent ELSE Meta(k, PrevHash(k)), k)

TamperNext ==
  \/ Next
  \/ EditMeta
  \/ \E i \in Keys : EditEntry(i) \/ Reflash(i)

TamperSpec == Init /\ [][TamperNext]_vars

\* The counter alone regresses by at least two entries.
Regress(k) == k + 2 <= counter /\ Offline(entry, meta, k)

RegressSpec == Init /\ [][Next \/ \E k \in Keys : Regress(k)]_vars

-----------------------------------------------------------------------------
IsWire(w) == w = Image(w.ok, w.seq, w.data, w.prev) /\ w.seq \in Keys /\ w.data \in Payloads
IsMeta(m) == m = Meta(m.count, m.head) /\ m.count \in Keys

TypeOK ==
  /\ DOMAIN entry = Keys /\ \A i \in Keys : entry[i] = Absent \/ IsWire(entry[i])
  /\ meta = Absent \/ IsMeta(meta)
  /\ counter \in Keys
  /\ floor \in Keys
  /\ lock \in Callers \cup {NoCaller}
  /\ pc \in [Callers -> Pc]
  /\ op \in [Callers -> Ops]
  /\ arg \in [Callers -> Payloads]
  /\ DOMAIN wire = Callers /\ \A c \in Callers : wire[c] = Absent \/ IsWire(wire[c])
  /\ DOMAIN acked = Keys /\ \A i \in Keys : acked[i] = Absent \/ IsWire(acked[i])
  /\ tampered \in BOOLEAN /\ writeOnce \in BOOLEAN

\* An entry append() acknowledged stays in the log under its own sequence
\* number, unchanged and counted, across every crash and failed access.
AckedIsDurable ==
  ~tampered => \A i \in Keys : acked[i].present => (entry[i] = acked[i] /\ i < counter)

\* Crashes and failed accesses alone never make verify() report tampering:
\* recovery repairs a torn append before the chain is judged.
NoFalseAlarm ==
  (~tampered /\ last.op = "verify" /\ last.rc = "OK") => last.val = "OK"

\* Crashes and failed accesses alone never wedge the log: append() refuses
\* with ALP_ERR_IO only a log that was tampered with, also on a write-once tier.
NoWedge == ~tampered => last.rc # "IO"

\* The anchor never leads the committed count and lags by at most one entry
\* ("Anchor ordering" in engine.c), whatever crashes between the writes.
AnchorLag == (~tampered /\ HasAnchor) => (floor <= counter /\ counter <= floor + 1)

\* A stored entry is never rewritten, also on a store that would allow it: the
\* orphan of an interrupted append is adopted before its key is written again.
AppendOnly ==
  [][tampered' \/ \A i \in Keys : entry[i].present => entry'[i] = entry[i]]_vars

\* The log as its callers know it: the payloads in the order of their keys,
\* and what the call that has just returned was told, verify() its verdict.
Contents == [i \in 0..MaxSeq |-> IF entry[i].present THEN entry[i].data ELSE Absent]
Told ==
  IF last.op = "verify" /\ last.rc = "OK"
    THEN [op |-> last.op, rc |-> last.val, val |-> 0]
    ELSE [op |-> last.op, rc |-> last.rc, val |-> last.val]

Log == INSTANCE AuditLog WITH
         None <- Absent, log <- Contents, settled <- counter, answer <- Told

\* Until the store is changed behind its back, the engine with its four writes,
\* crashes and recovery is an AuditLog: entries are added at the end one at a
\* time, at most one is in doubt, count() and verify() answer for a log in which
\* none is, and get() reads a place as it is stored.
ImplementsAuditLog == Log!Init /\ [][tampered' \/ Log!Next]_(Log!vars)

\* verify() == OK implies append() can make progress: the chain head, the meta
\* cache and the frontier slot are what append() requires.
VerifiedMeansAppendable ==
  (last.op = "verify" /\ last.rc = "OK" /\ last.val = "OK" /\ counter <= MaxSeq)
    => MetaAgrees /\ ~entry[counter].present

\* Evidence of tampering is never erased: no later recovery, append or
\* verification brings a tampered log back to a clean verdict.
EvidenceKept ==
  tampered => ~(last.op = "verify" /\ last.rc = "OK" /\ last.val = "OK")
=============================================================================
