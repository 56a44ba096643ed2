--------------------------- MODULE UpdateLogProofs ---------------------------
(***************************************************************************)
(* What crashes and failed accesses cannot do to the update log, and what  *)
(* no call can undo once its store was changed from outside, for every set *)
(* of callers and payloads, every ULOG_SEQ_MAX and both kinds of tier.     *)
(*                                                                         *)
(* The safety properties say what a caller sees.  They follow from how the *)
(* four durable writes of an append can be torn: at every moment the store *)
(* is a chain of counter entries, at most one more entry (the orphan of an *)
(* interrupted append) chains behind it, meta describes the chain with or  *)
(* without the orphan, and an orphan exists only while the anchor is level *)
(* with the counter.                                                       *)
(*                                                                         *)
(* An outside change leaves damage of one of three kinds, each of which    *)
(* keeps the engine from every write that could remove it: a broken chain  *)
(* is only ever extended, a chain without the head that meta names cannot  *)
(* be extended, and a store behind the anchor is never let past it.        *)
(***************************************************************************)
EXTENDS UpdateLog, TLAPS

\* Only the holder of g_engine_lock is inside the engine.
LockInv == \A c \in Callers : pc[c] # "idle" => lock = c

\* The committed entries form a chain, followed by at most one orphan.
ChainInv ==
  /\ \A i \in 0..(counter - 1) : Chains(i)
  /\ entry[counter] = Absent \/ Chains(counter)
  /\ \A i \in Keys : i > counter => entry[i] = Absent
  /\ entry[MaxSeq + 1] = Absent

\* meta describes the committed chain, or the chain with the orphan.
MetaInv ==
  \/ counter = 0 /\ meta = Absent
  \/ counter > 0 /\ meta = Meta(counter, Sha(entry[counter - 1]))
  \/ entry[counter].present /\ meta = Meta(counter + 1, Sha(entry[counter]))

\* The floor lags by at most one entry, and not at all behind an orphan.
AnchorInv ==
  HasAnchor => /\ floor <= counter /\ counter <= floor + 1
               /\ entry[counter].present => floor = counter

\* What a caller inside the engine may rely on between two accesses.
CallInv ==
  \A c \in Callers :
    /\ pc[c] \in {"put", "put_meta", "inc", "advance"} => op[c] = "append"
    /\ pc[c] = "read" => op[c] = "count"
    /\ pc[c] = "fetch" => op[c] = "get"
    /\ pc[c] = "walk" => op[c] = "verify"
    /\ pc[c] = "sync" => op[c] \in {"append", "verify"}
    /\ pc[c] \in {"recover", "adopt_meta", "adopt_inc"} => op[c] # "get"
    /\ pc[c] \in {"sync", "put", "walk", "read"} => entry[counter] = Absent
    /\ pc[c] \in {"adopt_meta", "adopt_inc", "put_meta", "inc"} =>
         entry[counter].present /\ wire[c] = entry[counter]
    /\ pc[c] \in {"adopt_inc", "inc"} => meta = Meta(counter + 1, Sha(entry[counter]))
    /\ pc[c] = "put" /\ HasAnchor => floor = counter
    /\ pc[c] = "advance" =>
         /\ HasAnchor /\ counter > 0 /\ wire[c] = entry[counter - 1]
         /\ entry[counter] = Absent

\* What the callers have been told so far.
AckedInv == \A i \in Keys : acked[i].present => (entry[i] = acked[i] /\ i < counter)
QuietInv == (last.op = "verify" /\ last.rc = "OK") => last.val = "OK"
ReadyInv == last.rc # "IO"

IInv == TypeOK /\ LockInv /\ ChainInv /\ MetaInv /\ AnchorInv /\ CallInv
        /\ AckedInv /\ QuietInv /\ ReadyInv

USE MaxSeqAssumption, CallersAssumption, TierAssumption

-----------------------------------------------------------------------------
\* The records a store access returns: a wire image is never mistaken for an
\* empty key, whatever its fields.
LEMMA WireShape ==
  ASSUME NEW s \in Keys, NEW d \in Payloads, NEW p
  PROVE  /\ Wire(s, d, p).present /\ Wire(s, d, p).ok
         /\ Wire(s, d, p).seq = s /\ Wire(s, d, p).prev = p
         /\ IsWire(Wire(s, d, p))
         /\ ~Absent.present
BY DEF Wire, Image, IsWire, Absent

\* The meta record's fields.
LEMMA MetaShape ==
  ASSUME NEW n \in Keys, NEW hash
  PROVE  /\ Meta(n, hash).present /\ Meta(n, hash).count = n /\ Meta(n, hash).head = hash
         /\ IsMeta(Meta(n, hash))
BY DEF Meta, IsMeta

\* The invariant holds of the erased log (Init).
LEMMA InitIInv == Init => IInv
<1> SUFFICES ASSUME Init PROVE IInv
  OBVIOUS
<1>1. TypeOK
  <2>1. /\ DOMAIN entry = Keys /\ \A i \in Keys : entry[i] = Absent
        /\ DOMAIN acked = Keys /\ \A i \in Keys : acked[i] = Absent
        /\ DOMAIN wire = Callers /\ \A c \in Callers : wire[c] = Absent
    BY DEF Init
  <2>2. /\ pc \in [Callers -> Pc] /\ op \in [Callers -> Ops] /\ arg \in [Callers -> Payloads]
        /\ lock \in Callers \cup {NoCaller} /\ tampered \in BOOLEAN /\ writeOnce \in BOOLEAN
    BY DEF Init, Pc, Ops
  <2>3. meta = Absent /\ counter \in Keys /\ floor \in Keys
    BY DEF Init, Keys
  <2> QED
    BY <2>1, <2>2, <2>3 DEF TypeOK
<1>2. LockInv /\ CallInv
  BY DEF Init, LockInv, CallInv
<1>3. ChainInv /\ MetaInv /\ AnchorInv
  BY DEF Init, ChainInv, MetaInv, AnchorInv, Keys, Absent
<1>4. AckedInv /\ QuietInv /\ ReadyInv
  BY DEF Init, AckedInv, QuietInv, ReadyInv, Absent, Silent
<1> QED
  BY <1>1, <1>2, <1>3, <1>4 DEF IInv

\* Taking the lock touches nothing durable.
LEMMA EnterStep ==
  ASSUME IInv, NEW c \in Callers, NEW o \in Ops, NEW d \in Payloads, Enter(c, o, d)
  PROVE  IInv'
<1>1. TypeOK'
  BY DEF IInv, TypeOK, Enter, durable, Pc, IsWire, IsMeta
<1>2. LockInv' /\ CallInv'
  BY DEF IInv, TypeOK, LockInv, CallInv, Enter, durable
<1>3. ChainInv' /\ MetaInv' /\ AnchorInv' /\ AckedInv'
  BY DEF IInv, Enter, durable, ChainInv, MetaInv, AnchorInv, Chains, PrevHash, AckedInv
<1>4. QuietInv' /\ ReadyInv'
  BY DEF Enter, QuietInv, ReadyInv, Silent
<1> QED
  BY <1>1, <1>2, <1>3, <1>4 DEF IInv

\* ulog_recover() finds the orphan exactly when there is one.
LEMMA RecoverStep ==
  ASSUME IInv, NEW c \in Callers, Recover(c)
  PROVE  IInv'
<1>1. TypeOK'
  BY DEF IInv, TypeOK, Recover, Goto, AfterRecover, durable, Pc, IsWire, IsMeta, Keys
<1>2. LockInv'
  BY DEF IInv, TypeOK, LockInv, Recover, Goto
<1>3. CallInv'
  BY DEF IInv, TypeOK, LockInv, CallInv, ChainInv, Chains, Recover, Goto, durable, AfterRecover, Ops
<1>4. ChainInv' /\ MetaInv' /\ AnchorInv' /\ AckedInv'
  BY DEF IInv, Recover, durable, ChainInv, MetaInv, AnchorInv, Chains, PrevHash, AckedInv
<1>5. QuietInv' /\ ReadyInv'
  BY DEF Recover, Goto, QuietInv, ReadyInv, Silent
<1> QED
  BY <1>1, <1>2, <1>3, <1>4, <1>5 DEF IInv

\* An orphan lies inside the sequence space and carries the counter as its
\* sequence number, so the counter can take the increment.
LEMMA OrphanInRange ==
  ASSUME IInv, entry[counter].present
  PROVE  /\ counter \in 0..MaxSeq /\ Chains(counter) /\ entry[counter].seq = counter
         /\ HasAnchor => floor = counter
BY WireShape DEF IInv, TypeOK, ChainInv, AnchorInv, Chains, Keys, Absent

\* Writing the meta that describes the orphan, in recovery or in append.
LEMMA MetaWriteStep ==
  ASSUME IInv, NEW c \in Callers, AdoptMeta(c) \/ PutMeta(c)
  PROVE  IInv'
<1>1. pc[c] \in {"adopt_meta", "put_meta"} /\ entry[counter].present /\ wire[c] = entry[counter]
  BY DEF IInv, CallInv, AdoptMeta, PutMeta
<1>2. meta' = Meta(counter + 1, Sha(entry[counter])) /\ counter + 1 \in Keys
  BY <1>1, OrphanInRange DEF AdoptMeta, PutMeta, Keys
<1>3. UNCHANGED <<entry, counter, floor, op, arg, wire, acked, tampered, writeOnce>>
  BY DEF AdoptMeta, PutMeta
<1>4. \/ pc[c] = "adopt_meta" /\ pc' = [pc EXCEPT ![c] = "adopt_inc"] /\ lock' = lock /\ last' = Silent
      \/ pc[c] = "put_meta" /\ pc' = [pc EXCEPT ![c] = "inc"] /\ lock' = lock /\ last' = Silent
      \/ pc' = [pc EXCEPT ![c] = "idle"] /\ lock' = NoCaller /\ last'.rc = "FAULT"
  BY DEF AdoptMeta, PutMeta, Continue, Goto, Return
<1>5. TypeOK'
  BY <1>2, <1>3, <1>4, MetaShape DEF IInv, TypeOK, Pc, IsWire
<1>6. LockInv'
  BY <1>1, <1>4 DEF IInv, TypeOK, LockInv
<1>7. CallInv'
  BY <1>1, <1>2, <1>3, <1>4 DEF IInv, TypeOK, LockInv, CallInv
<1>8. ChainInv' /\ AnchorInv' /\ AckedInv'
  BY <1>3 DEF IInv, ChainInv, AnchorInv, Chains, PrevHash, AckedInv
<1>9. MetaInv'
  BY <1>1, <1>2, <1>3 DEF MetaInv
<1>10. QuietInv' /\ ReadyInv'
  BY <1>4 DEF QuietInv, ReadyInv, Silent
<1> QED
  BY <1>5, <1>6, <1>7, <1>8, <1>9, <1>10 DEF IInv

\* Incrementing the counter over the orphan makes it the last committed entry.
LEMMA CommitOrphan ==
  ASSUME IInv, NEW c \in Callers, pc[c] \in {"adopt_inc", "inc"},
         counter' = counter + 1, UNCHANGED <<entry, meta, floor, tampered, writeOnce, op, arg, wire>>
  PROVE  /\ ChainInv' /\ MetaInv' /\ AnchorInv'
         /\ counter' \in Keys /\ entry'[counter'] = Absent
         /\ wire[c] = entry[counter] /\ wire[c].seq = counter
<1>1. entry[counter].present /\ wire[c] = entry[counter]
      /\ meta = Meta(counter + 1, Sha(entry[counter]))
  BY DEF IInv, CallInv
<1>2. counter \in 0..MaxSeq /\ Chains(counter) /\ entry[counter].seq = counter
      /\ (HasAnchor => floor = counter)
  BY <1>1, OrphanInRange
<1>3. counter + 1 \in Keys /\ entry[counter + 1] = Absent
  BY <1>2 DEF IInv, ChainInv, Keys
<1>4. \A i \in 0..counter : Chains(i)
  BY <1>2 DEF IInv, ChainInv
<1>5. \A i \in Keys : Chains(i)' <=> Chains(i)
  BY DEF Chains, PrevHash
<1>6. ChainInv'
  <2>1. \A i \in 0..(counter' - 1) : Chains(i)'
    BY <1>2, <1>4, <1>5 DEF Keys
  <2>2. \A i \in Keys : i > counter' => entry'[i] = Absent
    BY <1>2 DEF IInv, ChainInv, Keys
  <2> QED
    BY <1>3, <2>1, <2>2 DEF IInv, ChainInv
<1>7. MetaInv'
  BY <1>1, <1>2 DEF MetaInv
<1>8. AnchorInv'
  BY <1>2, <1>3 DEF AnchorInv, Absent
<1> QED
  BY <1>1, <1>2, <1>3, <1>6, <1>7, <1>8

\* counter->increment() commits the entry at the frontier, whether it is called
\* by append() or by recovery: the invariant holds for the longer log.
LEMMA IncrementStep ==
  ASSUME IInv, NEW c \in Callers, AdoptIncrement(c) \/ Increment(c)
  PROVE  IInv'
<1>1. pc[c] \in {"adopt_inc", "inc"} /\ counter' = counter + 1
      /\ UNCHANGED <<entry, meta, floor, tampered, writeOnce, op, arg, wire>>
  BY DEF AdoptIncrement, Increment
<1>2. /\ ChainInv' /\ MetaInv' /\ AnchorInv'
      /\ counter' \in Keys /\ entry'[counter'] = Absent
      /\ wire[c] = entry[counter] /\ wire[c].seq = counter /\ counter \in Keys
  BY <1>1, CommitOrphan DEF IInv, TypeOK
<1>3. \/ /\ pc[c] = "adopt_inc" /\ pc' = [pc EXCEPT ![c] = AfterRecover(c)]
         /\ lock' = lock /\ last' = Silent
      \/ HasAnchor /\ pc[c] = "inc" /\ pc' = [pc EXCEPT ![c] = "advance"] /\ lock' = lock /\ last' = Silent
      \/ pc' = [pc EXCEPT ![c] = "idle"] /\ lock' = NoCaller /\ last'.rc = "FAULT"
      \/ /\ pc' = [pc EXCEPT ![c] = "idle"] /\ lock' = NoCaller
         /\ last' = [op |-> op[c], rc |-> "OK", val |-> 0] /\ pc[c] = "inc"
  BY DEF AdoptIncrement, Increment, Continue, Goto, Return, Acknowledge
<1>4. acked' = acked \/ acked' = [acked EXCEPT ![counter] = entry[counter]]
  BY <1>2 DEF AdoptIncrement, Increment, Acknowledge
<1>5. TypeOK'
  BY <1>1, <1>2, <1>3, <1>4 DEF IInv, TypeOK, Pc, IsWire, IsMeta, AfterRecover
<1>6. LockInv'
  BY <1>1, <1>3 DEF IInv, TypeOK, LockInv
<1>7. CallInv'
  BY <1>1, <1>2, <1>3 DEF IInv, TypeOK, LockInv, CallInv, AfterRecover, Keys, Ops
<1>8. AckedInv'
  <2>1. counter \in Nat /\ DOMAIN acked = Keys /\ entry' = entry
    BY <1>1 DEF IInv, TypeOK, Keys
  <2> SUFFICES ASSUME NEW i \in Keys, acked'[i].present
               PROVE  entry'[i] = acked'[i] /\ i < counter'
    BY DEF AckedInv
  <2>2. i \in Nat
    BY DEF Keys
  <2>3. CASE acked'[i] = acked[i]
    <3>1. entry[i] = acked[i] /\ i < counter
      BY <2>3 DEF IInv, AckedInv
    <3> QED
      BY <1>1, <2>1, <2>2, <2>3, <3>1
  <2>4. CASE acked'[i] # acked[i]
    <3>1. i = counter /\ acked'[i] = entry[counter]
      BY <1>4, <2>1, <2>4
    <3> QED
      BY <1>1, <2>1, <3>1
  <2> QED
    BY <2>3, <2>4
<1>9. QuietInv' /\ ReadyInv'
  BY <1>3 DEF IInv, CallInv, QuietInv, ReadyInv, Silent
<1> QED
  BY <1>2, <1>5, <1>6, <1>7, <1>8, <1>9 DEF IInv

\* A call that returns without a durable write only gives up the lock.
LEMMA ReturnStep ==
  ASSUME IInv, NEW c \in Callers, pc[c] # "idle",
         pc' = [pc EXCEPT ![c] = "idle"], lock' = NoCaller,
         UNCHANGED <<durable, op, arg, wire, acked, tampered, writeOnce>>,
         QuietInv', ReadyInv'
  PROVE  IInv'
<1>1. TypeOK'
  BY DEF IInv, TypeOK, durable, Pc, IsWire, IsMeta
<1>2. LockInv' /\ CallInv'
  BY DEF IInv, TypeOK, LockInv, CallInv, durable
<1>3. ChainInv' /\ MetaInv' /\ AnchorInv' /\ AckedInv'
  BY DEF IInv, durable, ChainInv, MetaInv, AnchorInv, Chains, PrevHash, AckedInv
<1> QED
  BY <1>1, <1>2, <1>3 DEF IInv

\* With no orphan at the counter, meta agrees with the committed chain.
LEMMA LevelMeta ==
  ASSUME IInv, entry[counter] = Absent
  PROVE  MetaAgrees
<1>1. ~entry[counter].present
  BY DEF Absent
<1>2. CASE counter = 0
  BY <1>2 DEF MetaAgrees
<1>3. CASE counter # 0
  <2>1. counter \in Nat /\ counter > 0 /\ counter \in Keys
    BY <1>3 DEF IInv, TypeOK, Keys
  <2>2. meta = Meta(counter, Sha(entry[counter - 1]))
    BY <1>1, <2>1 DEF IInv, MetaInv
  <2>3. meta.present /\ meta.count = counter /\ meta.head = Sha(entry[counter - 1])
    BY <2>1, <2>2, MetaShape
  <2>4. entry[counter - 1].present
    BY <2>1 DEF IInv, ChainInv, Chains
  <2> QED
    BY <2>1, <2>3, <2>4 DEF MetaAgrees, PrevHash
<1> QED
  BY <1>2, <1>3

\* ulog_sync_anchor() never meets a floor above the counter.
LEMMA SyncStep ==
  ASSUME IInv, NEW c \in Callers, SyncAnchor(c)
  PROVE  IInv'
<1>1. pc[c] = "sync" /\ entry[counter] = Absent /\ ~entry[counter].present
  BY DEF IInv, CallInv, SyncAnchor, Absent
<1>2. counter \in Nat /\ floor \in Nat /\ (HasAnchor => floor <= counter)
  BY DEF IInv, TypeOK, AnchorInv, Keys
<1>3. UNCHANGED <<entry, meta, counter, op, arg, wire, acked, tampered, writeOnce>>
  BY DEF SyncAnchor
<1>4. IF HasAnchor THEN floor' = counter ELSE floor' = floor
  BY <1>2 DEF SyncAnchor
<1>5. \/ /\ pc' = [pc EXCEPT ![c] = IF op[c] = "append" THEN "put" ELSE "walk"]
         /\ lock' = lock /\ last' = Silent
      \/ pc' = [pc EXCEPT ![c] = "idle"] /\ lock' = NoCaller /\ last'.rc = "FAULT"
  BY <1>2 DEF SyncAnchor, Continue, Goto, Return
<1>6. TypeOK'
  BY <1>3, <1>4, <1>5 DEF IInv, TypeOK, Pc, IsWire, IsMeta
<1>7. LockInv'
  BY <1>1, <1>5 DEF IInv, TypeOK, LockInv
<1>8. CallInv'
  BY <1>1, <1>3, <1>4, <1>5 DEF IInv, TypeOK, LockInv, CallInv
<1>9. ChainInv' /\ MetaInv' /\ AckedInv'
  BY <1>3 DEF IInv, ChainInv, MetaInv, Chains, PrevHash, AckedInv
<1>10. AnchorInv'
  BY <1>1, <1>2, <1>3, <1>4 DEF AnchorInv
<1>11. QuietInv' /\ ReadyInv'
  BY <1>5 DEF QuietInv, ReadyInv, Silent
<1> QED
  BY <1>6, <1>7, <1>8, <1>9, <1>10, <1>11 DEF IInv

\* Only a full log is refused: a recovered one agrees with its meta.
LEMMA RefuseStep ==
  ASSUME IInv, NEW c \in Callers, AppendRefuses(c)
  PROVE  IInv'
<1>1. MetaAgrees /\ op[c] = "append" /\ pc[c] = "put"
  BY LevelMeta DEF IInv, CallInv, AppendRefuses
<1>2. /\ pc' = [pc EXCEPT ![c] = "idle"] /\ lock' = NoCaller
      /\ last' = [op |-> "append", rc |-> "NOMEM", val |-> 0]
  BY <1>1 DEF AppendRefuses, Return
<1>3. QuietInv' /\ ReadyInv'
  BY <1>2 DEF QuietInv, ReadyInv
<1> QED
  BY <1>1, <1>2, <1>3, ReturnStep DEF AppendRefuses

\* The commit point: the new entry is the orphan until the counter moves.
LEMMA PutEntryStep ==
  ASSUME IInv, NEW c \in Callers, PutEntry(c)
  PROVE  IInv'
<1> DEFINE w == Wire(counter, arg[c], PrevHash(counter))
<1>1. pc[c] = "put" /\ entry[counter] = Absent /\ ~entry[counter].present
      /\ (HasAnchor => floor = counter) /\ op[c] = "append"
  BY DEF IInv, CallInv, PutEntry, Absent
<1>2. counter \in 0..MaxSeq /\ counter \in Keys /\ arg[c] \in Payloads
  BY DEF IInv, TypeOK, PutEntry, Keys
<1>3. w.present /\ w.ok /\ w.seq = counter /\ w.prev = PrevHash(counter) /\ IsWire(w)
  BY <1>2, WireShape
<1>4. entry' = [entry EXCEPT ![counter] = w] /\ wire' = [wire EXCEPT ![c] = w]
  BY <1>1 DEF PutEntry
<1>5. UNCHANGED <<meta, counter, floor, op, arg, acked, tampered, writeOnce>>
  BY DEF PutEntry
<1>6. \/ pc' = [pc EXCEPT ![c] = "put_meta"] /\ lock' = lock /\ last' = Silent
      \/ pc' = [pc EXCEPT ![c] = "idle"] /\ lock' = NoCaller /\ last'.rc = "FAULT"
  BY <1>1 DEF PutEntry, Continue, Goto, Return
<1> HIDE DEF w
<1>7. entry'[counter] = w /\ \A i \in Keys \ {counter} : entry'[i] = entry[i]
  BY <1>2, <1>4 DEF IInv, TypeOK
<1>8. TypeOK'
  <2>1. DOMAIN entry' = Keys /\ \A i \in Keys : entry'[i] = Absent \/ IsWire(entry'[i])
    BY <1>3, <1>4, <1>7 DEF IInv, TypeOK
  <2>2. DOMAIN wire' = Callers /\ \A d \in Callers : wire'[d] = Absent \/ IsWire(wire'[d])
    BY <1>3, <1>4 DEF IInv, TypeOK
  <2>3. DOMAIN acked' = Keys /\ \A i \in Keys : acked'[i] = Absent \/ IsWire(acked'[i])
    BY <1>5 DEF IInv, TypeOK
  <2> QED
    BY <2>1, <2>2, <2>3, <1>5, <1>6 DEF IInv, TypeOK, Pc, IsWire, IsMeta
<1>9. LockInv'
  BY <1>1, <1>6 DEF IInv, TypeOK, LockInv
<1>10. CallInv'
  <2>1. wire'[c] = w
    BY <1>4 DEF IInv, TypeOK
  <2> QED
    BY <1>1, <1>3, <1>5, <1>6, <1>7, <2>1 DEF IInv, TypeOK, LockInv, CallInv
<1>11. ChainInv'
  <2>1. \A i \in 0..(counter - 1) : Chains(i)'
    BY <1>2, <1>5, <1>7 DEF IInv, ChainInv, Chains, PrevHash, Keys
  <2>2. Chains(counter)'
    <3>1. counter > 0 => entry[counter - 1].present /\ entry'[counter - 1] = entry[counter - 1]
      BY <1>2, <1>7 DEF IInv, ChainInv, Chains, Keys
    <3> QED
      BY <1>2, <1>3, <1>5, <1>7, <3>1 DEF Chains, PrevHash
  <2>3. \A i \in Keys : i > counter => entry'[i] = Absent
    BY <1>2, <1>7 DEF IInv, ChainInv, Keys
  <2>4. entry'[MaxSeq + 1] = Absent
    BY <1>2, <1>7 DEF IInv, ChainInv, Keys
  <2> QED
    BY <1>5, <2>1, <2>2, <2>3, <2>4 DEF ChainInv
<1>12. MetaInv'
  BY <1>1, <1>2, <1>5, <1>7 DEF IInv, MetaInv, Keys
<1>13. AnchorInv'
  BY <1>1, <1>2, <1>5 DEF IInv, AnchorInv
<1>14. AckedInv'
  BY <1>2, <1>5, <1>7 DEF IInv, AckedInv, Keys
<1>15. QuietInv' /\ ReadyInv'
  BY <1>6 DEF QuietInv, ReadyInv, Silent
<1> QED
  BY <1>8, <1>9, <1>10, <1>11, <1>12, <1>13, <1>14, <1>15 DEF IInv

\* Advancing the anchor makes it level with the counter again.
LEMMA AdvanceStep ==
  ASSUME IInv, NEW c \in Callers, AdvanceAnchor(c)
  PROVE  IInv'
<1>1. /\ pc[c] = "advance" /\ HasAnchor /\ counter > 0 /\ wire[c] = entry[counter - 1]
      /\ ~entry[counter].present /\ op[c] = "append"
  BY DEF IInv, CallInv, AdvanceAnchor, Absent
<1>2. counter \in Nat /\ floor \in Nat /\ floor <= counter /\ counter \in Keys /\ counter - 1 \in Keys
  BY <1>1 DEF IInv, TypeOK, AnchorInv, Keys
<1>3. wire[c].seq = counter - 1
  BY <1>1, <1>2 DEF IInv, ChainInv, Chains
<1>4. floor' = counter
  BY <1>2, <1>3 DEF AdvanceAnchor
<1>5. UNCHANGED <<entry, meta, counter, op, arg, wire, tampered, writeOnce>>
  BY DEF AdvanceAnchor
<1>6. /\ pc' = [pc EXCEPT ![c] = "idle"] /\ lock' = NoCaller
      /\ last'.op = "append" /\ last'.rc \in {"OK", "FAULT"}
  BY <1>1 DEF AdvanceAnchor, Acknowledge, Return
<1>7. acked' = acked \/ acked' = [acked EXCEPT ![counter - 1] = entry[counter - 1]]
  BY <1>1, <1>3 DEF AdvanceAnchor, Acknowledge
<1>8. TypeOK'
  BY <1>2, <1>4, <1>5, <1>6, <1>7 DEF IInv, TypeOK, Pc, IsWire, IsMeta
<1>9. LockInv' /\ CallInv'
  BY <1>1, <1>5, <1>6 DEF IInv, TypeOK, LockInv, CallInv
<1>10. ChainInv' /\ MetaInv'
  BY <1>5 DEF IInv, ChainInv, MetaInv, Chains, PrevHash
<1>11. AnchorInv'
  BY <1>1, <1>2, <1>4, <1>5 DEF AnchorInv
<1>12. AckedInv'
  BY <1>2, <1>5, <1>7 DEF IInv, TypeOK, AckedInv, Keys
<1>13. QuietInv' /\ ReadyInv'
  BY <1>6 DEF QuietInv, ReadyInv
<1> QED
  BY <1>8, <1>9, <1>10, <1>11, <1>12, <1>13 DEF IInv

\* The walk over a recovered log finds nothing to report.
LEMMA WalkStep ==
  ASSUME IInv, NEW c \in Callers, Walk(c)
  PROVE  IInv'
<1>1. pc[c] = "walk" /\ entry[counter] = Absent /\ ~entry[counter].present
  BY DEF IInv, CallInv, Walk, Absent
<1>2. MetaAgrees
  BY <1>1, LevelMeta
<1>3. \A i \in 0..(counter - 1) : Chains(i)
  BY DEF IInv, ChainInv
<1>4. Verdict = "OK"
  BY <1>1, <1>2, <1>3 DEF Verdict, MetaAgrees
<1>5. QuietInv' /\ ReadyInv'
  BY <1>4 DEF Walk, Return, QuietInv, ReadyInv
<1> QED
  BY <1>1, <1>5, ReturnStep DEF Walk, Return

\* count(), get() and every failed access leave the log as it is.
LEMMA ReadStep ==
  ASSUME IInv, NEW c \in Callers,
         ReadCount(c) \/ (\E i \in Keys : Fetch(c, i)) \/ AccessFails(c)
  PROVE  IInv'
<1>1. pc[c] # "idle" /\ pc' = [pc EXCEPT ![c] = "idle"] /\ lock' = NoCaller
      /\ UNCHANGED <<durable, op, arg, wire, acked, tampered, writeOnce>>
  BY DEF ReadCount, Fetch, AccessFails, Return
<1>2. pc[c] = "read" => op[c] = "count"
  BY DEF IInv, CallInv
<1>3. pc[c] = "fetch" => op[c] = "get"
  BY DEF IInv, CallInv
<1>4. QuietInv' /\ ReadyInv'
  BY <1>2, <1>3 DEF ReadCount, Fetch, AccessFails, Return, QuietInv, ReadyInv
<1> QED
  BY <1>1, <1>4, ReturnStep

\* A crash loses the volatile state only.
LEMMA CrashStep ==
  ASSUME IInv, Crash
  PROVE  IInv'
<1>1. TypeOK'
  BY DEF IInv, TypeOK, Crash, durable, Pc, IsWire, IsMeta
<1>2. LockInv' /\ CallInv'
  BY DEF LockInv, CallInv, Crash
<1>3. ChainInv' /\ MetaInv' /\ AnchorInv' /\ AckedInv'
  BY DEF IInv, Crash, durable, ChainInv, MetaInv, AnchorInv, Chains, PrevHash, AckedInv
<1>4. QuietInv' /\ ReadyInv'
  BY DEF Crash, QuietInv, ReadyInv, Silent
<1> QED
  BY <1>1, <1>2, <1>3, <1>4 DEF IInv

\* The invariant is inductive.
LEMMA NextIInv == IInv /\ [Next]_vars => IInv'
<1> SUFFICES ASSUME IInv, [Next]_vars PROVE IInv'
  OBVIOUS
<1>1. CASE Crash
  BY <1>1, CrashStep
<1>2. ASSUME NEW c \in Callers, Call(c) PROVE IInv'
  BY <1>2, EnterStep DEF Call
<1>3. ASSUME NEW c \in Callers, Step(c) PROVE IInv'
  BY <1>3, RecoverStep, MetaWriteStep, IncrementStep, SyncStep, RefuseStep, PutEntryStep,
     AdvanceStep, WalkStep, ReadStep DEF Step
<1>4. ASSUME NEW c \in Callers, AccessFails(c) PROVE IInv'
  BY <1>4, ReadStep
<1>5. CASE UNCHANGED vars
  <2>1. TypeOK'
    BY <1>5 DEF IInv, TypeOK, vars, durable, locals, IsWire, IsMeta
  <2>2. LockInv' /\ CallInv' /\ QuietInv' /\ ReadyInv'
    BY <1>5 DEF IInv, LockInv, CallInv, QuietInv, ReadyInv, vars, durable, locals
  <2>3. ChainInv' /\ MetaInv' /\ AnchorInv' /\ AckedInv'
    BY <1>5 DEF IInv, ChainInv, MetaInv, AnchorInv, Chains, PrevHash, AckedInv,
                vars, durable
  <2> QED
    BY <2>1, <2>2, <2>3 DEF IInv
<1> QED
  BY <1>1, <1>2, <1>3, <1>4, <1>5 DEF Next

-----------------------------------------------------------------------------
\* An offline change is on record.
LEMMA OfflineIsTampering ==
  ASSUME EditMeta \/ \E i \in Keys : EditEntry(i) \/ Reflash(i)
  PROVE  tampered'
BY DEF EditMeta, EditEntry, Reflash, Offline

\* A change once on record stays on record.
LEMMA TamperingStays == tampered /\ [TamperNext]_vars => tampered'
<1> SUFFICES ASSUME tampered, Next PROVE tampered'
  BY OfflineIsTampering DEF TamperNext, vars
<1> QED
  BY DEF Next, Call, Step, Enter, Recover, AdoptMeta, AdoptIncrement, SyncAnchor,
     AppendRefuses, PutEntry, PutMeta, Increment, AdvanceAnchor, Walk, ReadCount, Fetch,
     AccessFails, Crash

\* The inductive invariant holds of every run of the engine, with crashes and
\* failed accesses, for as long as nobody changes the store behind its back.
THEOREM Invariance == TamperSpec => [](~tampered => IInv)
<1>1. Init => (~tampered => IInv)
  BY InitIInv
<1>2. (~tampered => IInv) /\ [TamperNext]_vars => (~tampered => IInv)'
  <2> SUFFICES ASSUME ~tampered => IInv, [TamperNext]_vars, ~tampered'
               PROVE  IInv'
    OBVIOUS
  <2>1. IInv
    BY TamperingStays
  <2>2. [Next]_vars
    BY OfflineIsTampering DEF TamperNext
  <2> QED
    BY <2>1, <2>2, NextIInv
<1> QED
  BY <1>1, <1>2, PTL DEF TamperSpec

\* What append() acknowledged stays in the log, unchanged and counted, across
\* every crash and failed access (engine.c: the entry is the commit point).
THEOREM AckedDurable == TamperSpec => []AckedIsDurable
<1>1. (~tampered => IInv) => AckedIsDurable
  BY DEF IInv, AckedInv, AckedIsDurable
<1> QED
  BY <1>1, Invariance, PTL

\* Crashes and failed accesses are never reported as tampering by verify().
THEOREM VerifyIsQuiet == TamperSpec => []NoFalseAlarm
<1>1. (~tampered => IInv) => NoFalseAlarm
  BY DEF IInv, QuietInv, NoFalseAlarm
<1> QED
  BY <1>1, Invariance, PTL

\* Crashes and failed accesses never make append() refuse with ALP_ERR_IO.
THEOREM AppendNeverWedges == TamperSpec => []NoWedge
<1>1. (~tampered => IInv) => NoWedge
  BY DEF IInv, ReadyInv, NoWedge
<1> QED
  BY <1>1, Invariance, PTL

\* The external anchor never leads the counter and lags by one entry at most.
THEOREM AnchorFollows == TamperSpec => []AnchorLag
<1>1. (~tampered => IInv) => AnchorLag
  BY DEF IInv, AnchorInv, AnchorLag
<1> QED
  BY <1>1, Invariance, PTL

\* No stored entry is ever rewritten, also on a tier that would allow it
\* (the put in append() only ever meets an empty key).
THEOREM LogIsAppendOnly == TamperSpec => AppendOnly
<1> DEFINE Kept == \A i \in Keys : entry[i].present => entry'[i] = entry[i]
<1>1. (~tampered => IInv) /\ [TamperNext]_vars => [tampered' \/ Kept]_vars
  <2> SUFFICES ASSUME ~tampered => IInv, TamperNext, ~tampered',
                      NEW i \in Keys, entry[i].present
               PROVE  entry'[i] = entry[i]
    OBVIOUS
  <2>0. IInv /\ Next
    BY OfflineIsTampering, TamperingStays DEF TamperNext
  <2>1. ASSUME NEW c \in Callers, PutEntry(c) PROVE entry'[i] = entry[i]
    <3>1. entry[counter] = Absent
      BY <2>0, <2>1 DEF IInv, CallInv, PutEntry
    <3>2. i # counter
      BY <3>1 DEF Absent
    <3> QED
      BY <2>0, <2>1, <3>2 DEF IInv, TypeOK, PutEntry
  <2>2. CASE ~\E c \in Callers : PutEntry(c)
    BY <2>0, <2>2 DEF Next, Call, Step, Enter, Recover, AdoptMeta, AdoptIncrement, SyncAnchor,
       AppendRefuses, PutMeta, Increment, AdvanceAnchor, Walk, ReadCount, Fetch,
       AccessFails, Crash, vars, durable
  <2> QED
    BY <2>1, <2>2
<1> QED
  BY <1>1, Invariance, PTL DEF TamperSpec, AppendOnly

-----------------------------------------------------------------------------
(* The engine implements AuditLog: the entry's put is Commit, either       *)
(* increment of the counter is Settle, everything else is Answer.          *)

\* A call that has not returned tells nothing.
LEMMA SilentTold ==
  ASSUME last' = Silent
  PROVE  Told' = Log!Silent
BY DEF Told, Silent, Log!Silent

\* What Return() hands to a caller that did not verify successfully.
LEMMA ReturnTold ==
  ASSUME NEW c \in Callers, NEW rc, NEW val, Return(c, rc, val), op[c] # "verify" \/ rc # "OK"
  PROVE  Told' = [op |-> op[c], rc |-> rc, val |-> val]
BY DEF Told, Return

\* A failed call is told so.
LEMMA FaultTold ==
  ASSUME NEW c \in Callers, Return(c, "FAULT", 0)
  PROVE  Log!Failed(Told')
BY ReturnTold DEF Log!Failed

\* An entry is in doubt exactly while there is an orphan.
LEMMA Doubt ==
  ASSUME IInv
  PROVE  Log!InDoubt <=> entry[counter].present
<1>1. CASE entry[counter].present
  <2>1. counter \in 0..MaxSeq /\ entry[counter] # Absent
    BY <1>1, OrphanInRange DEF Absent
  <2>2. entry[counter].data \in Payloads
    BY <2>1 DEF IInv, TypeOK, IsWire, Keys
  <2> QED
    BY <1>1, <2>1, <2>2, PayloadsAssumption DEF Log!InDoubt, Log!Places, Contents
<1>2. CASE ~entry[counter].present
  BY <1>2 DEF Log!InDoubt, Log!Places, Contents
<1> QED
  BY <1>1, <1>2

\* A step that leaves entries and counter alone answers, if it tells the truth.
LEMMA AnswerStep ==
  ASSUME UNCHANGED <<entry, counter>>,
         \/ Told' = Log!Silent
         \/ Log!Failed(Told')
         \/ Log!Looked(Told')
         \/ Log!Appended(Told') /\ ~Log!InDoubt
  PROVE  Log!Next
<1>1. UNCHANGED <<Contents, counter>>
  BY DEF Contents
<1> QED
  BY <1>1 DEF Log!Next, Log!Answer

\* The only write of an entry puts it at the empty end of the log.
LEMMA CommitStep ==
  ASSUME IInv, NEW c \in Callers, PutEntry(c)
  PROVE  Log!Next
<1>1. entry[counter] = Absent /\ counter \in 0..MaxSeq
  BY DEF IInv, TypeOK, CallInv, PutEntry, Keys
<1>2. ~entry[counter].present
  BY <1>1 DEF Absent
<1> DEFINE w == Wire(counter, arg[c], PrevHash(counter))
<1>3. arg[c] \in Payloads /\ w.present /\ w.data = arg[c]
  BY DEF IInv, TypeOK, Wire, Image
<1>4. entry' = [entry EXCEPT ![counter] = w] /\ counter' = counter
  BY <1>2 DEF PutEntry
<1>5. Contents' = [Contents EXCEPT ![counter] = arg[c]]
  <2>1. \A i \in 0..MaxSeq : entry'[i] = IF i = counter THEN w ELSE entry[i]
    BY <1>4 DEF IInv, TypeOK, Keys
  <2>2. \A i \in 0..MaxSeq :
          (IF entry'[i].present THEN entry'[i].data ELSE Absent)
            = IF i = counter THEN arg[c] ELSE Contents[i]
    BY <1>3, <2>1 DEF Contents
  <2>3. Contents' = [i \in 0..MaxSeq |-> IF i = counter THEN arg[c] ELSE Contents[i]]
    BY <2>2 DEF Contents
  <2>4. [Contents EXCEPT ![counter] = arg[c]]
          = [i \in 0..MaxSeq |-> IF i = counter THEN arg[c] ELSE Contents[i]]
    BY DEF Contents
  <2> QED
    BY <2>3, <2>4
<1>6. Told' = Log!Silent \/ Log!Failed(Told')
  BY <1>2, SilentTold, FaultTold DEF PutEntry, Continue, Goto
<1>7. Log!Commit(arg[c])
  BY <1>1, <1>2, <1>4, <1>5, <1>6, Doubt DEF Log!Commit, Log!Places
<1> QED
  BY <1>3, <1>7 DEF Log!Next

\* Recovery settles the orphan of an interrupted append ...
LEMMA AdoptSettles ==
  ASSUME IInv, NEW c \in Callers, AdoptIncrement(c)
  PROVE  Log!Next
<1>1. entry[counter].present
  BY DEF IInv, CallInv, AdoptIncrement
<1>2. counter' = counter + 1 /\ Contents' = Contents
  BY DEF AdoptIncrement, Contents
<1>3. Told' = Log!Silent \/ Log!Failed(Told')
  BY SilentTold, FaultTold DEF AdoptIncrement, Continue, Goto
<1> QED
  BY <1>1, <1>2, <1>3, Doubt DEF Log!Next, Log!Settle

\* ... and append() its own entry, which it may acknowledge in the same step.
LEMMA IncrementSettles ==
  ASSUME IInv, NEW c \in Callers, Increment(c)
  PROVE  Log!Next
<1>1. entry[counter].present /\ op[c] = "append"
  BY DEF IInv, CallInv, Increment
<1>2. counter' = counter + 1 /\ Contents' = Contents
  BY DEF Increment, Contents
<1>3. Told' = Log!Silent \/ Log!Failed(Told') \/ (Told'.op = "append" /\ Told'.rc = "OK")
  BY <1>1, SilentTold, FaultTold, ReturnTold DEF Increment, Goto, Acknowledge
<1> QED
  BY <1>1, <1>2, <1>3, Doubt DEF Log!Next, Log!Settle

\* append() returns without having changed the log.
LEMMA AppendAnswers ==
  ASSUME IInv, NEW c \in Callers, AppendRefuses(c) \/ AdvanceAnchor(c), IInv'
  PROVE  Log!Next
<1>1. op[c] = "append" /\ entry[counter] = Absent /\ UNCHANGED <<entry, counter>>
  BY DEF IInv, CallInv, AppendRefuses, AdvanceAnchor, durable
<1>2. ~Log!InDoubt
  BY <1>1, Doubt DEF Absent
<1>3. CASE AppendRefuses(c)
  <2>1. last'.rc # "IO"
    BY DEF IInv, ReadyInv
  <2>2. counter > MaxSeq /\ Return(c, "NOMEM", 0)
    BY <1>3, <2>1 DEF AppendRefuses, Return
  <2>3. counter = MaxSeq + 1
    BY <2>2 DEF IInv, TypeOK, Keys
  <2>4. Log!Appended(Told')
    BY <1>1, <2>2, <2>3, ReturnTold DEF Log!Appended
  <2> QED
    BY <1>1, <1>2, <2>4, AnswerStep
<1>4. CASE AdvanceAnchor(c)
  <2>1. Log!Appended(Told') \/ Log!Failed(Told')
    BY <1>1, <1>4, FaultTold, ReturnTold DEF AdvanceAnchor, Acknowledge, Log!Appended
  <2> QED
    BY <1>1, <1>2, <2>1, AnswerStep
<1> QED
  BY <1>3, <1>4

\* verify(), count() and get() answer for a log in which nothing is in doubt;
\* get() may also see the entry in doubt.
LEMMA LookAnswers ==
  ASSUME IInv, IInv', NEW c \in Callers,
         Walk(c) \/ ReadCount(c) \/ \E i \in Keys : Fetch(c, i)
  PROVE  Log!Next
<1>0. UNCHANGED <<entry, counter>>
  BY DEF Walk, ReadCount, Fetch, durable
<1>1. CASE ReadCount(c)
  <2>1. ~Log!InDoubt /\ op[c] = "count"
    BY <1>1, Doubt DEF IInv, CallInv, ReadCount, Absent
  <2>2. Log!Looked(Told')
    BY <1>1, <2>1, ReturnTold DEF ReadCount, Log!Looked
  <2> QED
    BY <1>0, <2>2, AnswerStep
<1>2. CASE \E i \in Keys : Fetch(c, i)
  <2> PICK i \in Keys : Fetch(c, i)
    BY <1>2
  <2>1. op[c] = "get"
    BY DEF IInv, CallInv, Fetch
  <2>2. entry[i].present => entry[i].ok /\ i \in 0..MaxSeq /\ entry[i].data \in Payloads
    <3> SUFFICES ASSUME entry[i].present
                 PROVE  entry[i].ok /\ i \in 0..MaxSeq /\ entry[i].data \in Payloads
      OBVIOUS
    <3>1. entry[i] # Absent
      BY DEF Absent
    <3>2. i <= counter /\ i # MaxSeq + 1 /\ i \in 0..MaxSeq
      BY <3>1 DEF IInv, TypeOK, ChainInv, Keys
    <3>3. Chains(i)
      BY <3>1, <3>2 DEF IInv, TypeOK, ChainInv, Keys
    <3> QED
      BY <3>1, <3>2, <3>3 DEF IInv, TypeOK, IsWire, Chains
  <2>3. Log!Looked(Told')
    <3>1. CASE entry[i].present
      <4>1. Told' = [op |-> "get", rc |-> "OK", val |-> i]
        BY <2>1, <2>2, <3>1, ReturnTold DEF Fetch
      <4>2. Contents[i] # Absent
        BY <2>2, <3>1, PayloadsAssumption DEF Contents
      <4> QED
        BY <2>2, <3>1, <4>1, <4>2 DEF Log!Looked, Log!Places
    <3>2. CASE ~entry[i].present
      <4>1. Told' = [op |-> "get", rc |-> "NOT_FOUND", val |-> i]
        BY <2>1, <3>2, ReturnTold DEF Fetch
      <4> QED
        BY <3>2, <4>1 DEF Log!Looked, Log!Places, Contents
    <3> QED
      BY <3>1, <3>2
  <2> QED
    BY <1>0, <2>3, AnswerStep
<1>3. CASE Walk(c)
  <2>1. ~Log!InDoubt
    BY <1>3, Doubt DEF IInv, CallInv, Walk, Absent
  <2>2. op[c] = "verify"
    BY <1>3 DEF IInv, CallInv, Walk
  <2>3. last' = [op |-> "verify", rc |-> "OK", val |-> "OK"]
    BY <1>3, <2>2 DEF Walk, Return, IInv, QuietInv
  <2>4. Told' = [op |-> "verify", rc |-> "OK", val |-> 0]
    BY <2>3 DEF Told
  <2>5. Log!Looked(Told')
    BY <2>1, <2>4 DEF Log!Looked
  <2> QED
    BY <1>0, <2>5, AnswerStep
<1> QED
  BY <1>1, <1>2, <1>3

\* Every step of the engine is a step of the audit log.
LEMMA StepRefines ==
  ASSUME IInv, IInv', Next
  PROVE  Log!Next
<1>1. CASE Crash
  BY <1>1, SilentTold, AnswerStep DEF Crash, durable
<1>2. ASSUME NEW c \in Callers, Call(c) \/ Step(c) \/ AccessFails(c)
      PROVE  Log!Next
  <2>1. CASE Call(c)
    BY <2>1, SilentTold, AnswerStep DEF Call, Enter, durable
  <2>2. CASE AccessFails(c)
    BY <2>2, FaultTold, AnswerStep DEF AccessFails, durable
  <2>3. CASE Recover(c)
    BY <2>3, SilentTold, AnswerStep DEF Recover, Goto, durable
  <2>4. CASE AdoptMeta(c) \/ PutMeta(c)
    BY <2>4, SilentTold, FaultTold, AnswerStep DEF AdoptMeta, PutMeta, Continue, Goto
  <2>5. CASE SyncAnchor(c)
    <3>1. UNCHANGED <<entry, counter>>
      BY <2>5 DEF SyncAnchor
    <3>2. ~Return(c, "IO", 0) /\ (op[c] = "verify" => ~Return(c, "OK", "ROLLED_BACK"))
      BY DEF Return, IInv, QuietInv, ReadyInv
    <3>3. op[c] \in {"append", "verify"}
      BY <2>5 DEF IInv, CallInv, SyncAnchor
    <3>4. last' = Silent \/ Return(c, "FAULT", 0)
      BY <2>5, <3>2, <3>3 DEF SyncAnchor, Continue, Goto
    <3> QED
      BY <3>1, <3>4, SilentTold, FaultTold, AnswerStep
  <2> QED
    BY <1>2, <2>1, <2>2, <2>3, <2>4, <2>5, CommitStep, AdoptSettles, IncrementSettles,
       AppendAnswers, LookAnswers DEF Step
<1> QED
  BY <1>1, <1>2 DEF Next

\* Until the store is changed behind its back, the engine implements the audit
\* log: across its four writes, crashes and recoveries the log only grows at
\* its end, at most one entry is in doubt, and every answer is true of it.
THEOREM Refinement == TamperSpec => ImplementsAuditLog
<1>1. Init => Log!Init
  <2> SUFFICES ASSUME Init PROVE Log!Init
    OBVIOUS
  <2>1. \A i \in 0..MaxSeq : entry[i] = Absent
    BY DEF Init, Keys
  <2>2. Contents = [i \in 0..MaxSeq |-> Absent]
    BY <2>1 DEF Contents, Absent
  <2>3. Told = Log!Silent
    BY DEF Init, Told, Silent, Log!Silent
  <2> QED
    BY <2>2, <2>3 DEF Init, Log!Init, Log!Places
<1>2. (~tampered => IInv) /\ (~tampered => IInv)' /\ [TamperNext]_vars
        => [tampered' \/ Log!Next]_(Log!vars)
  <2> SUFFICES ASSUME ~tampered => IInv, (~tampered => IInv)', [TamperNext]_vars, ~tampered'
               PROVE  Log!Next \/ UNCHANGED Log!vars
    OBVIOUS
  <2>1. IInv /\ IInv' /\ [Next]_vars
    BY OfflineIsTampering, TamperingStays DEF TamperNext
  <2>2. CASE Next
    BY <2>1, <2>2, StepRefines
  <2>3. CASE UNCHANGED vars
    BY <2>3 DEF vars, durable, Log!vars, Contents, Told
  <2> QED
    BY <2>1, <2>2, <2>3
<1> QED
  BY <1>1, <1>2, Invariance, PTL DEF TamperSpec, ImplementsAuditLog

-----------------------------------------------------------------------------
(* A store that was changed behind the engine's back.                      *)

\* The damage: a committed entry does not chain, or the chain has no head that
\* meta agrees with, or the store is behind the anchor.  In the last two cases
\* nothing is left at the counter for recovery to adopt.
Broken == \E i \in 0..(counter - 1) : ~Chains(i)
Headless == ~MetaAgrees /\ ~Chains(counter)
Rewound == HasAnchor /\ floor > counter /\ ~Chains(counter)

\* The entry point a caller is in, by its place.
OpInv ==
  \A c \in Callers :
    /\ pc[c] \in {"put", "put_meta", "inc", "advance"} => op[c] = "append"
    /\ pc[c] = "read" => op[c] = "count"
    /\ pc[c] = "fetch" => op[c] = "get"
    /\ pc[c] = "walk" => op[c] = "verify"
    /\ pc[c] = "sync" => op[c] \in {"append", "verify"}
    /\ pc[c] \in {"recover", "adopt_meta", "adopt_inc"} => op[c] # "get"

\* A caller gets past the anchor only when the store is not behind it, and past
\* the check of meta only when the damage is in the chain, where it stays.
PastInv ==
  \A c \in Callers :
    /\ pc[c] \in {"put", "walk"} /\ HasAnchor => floor <= counter
    /\ pc[c] \in {"adopt_meta", "adopt_inc"} => wire[c] = entry[counter] /\ Chains(counter)
    /\ pc[c] \in {"put_meta", "inc"} => wire[c].seq = counter /\ counter <= MaxSeq /\ Broken
    /\ pc[c] = "advance" => wire[c].seq \in 0..MaxSeq

DamageInv ==
  /\ TypeOK /\ LockInv /\ OpInv
  /\ entry[MaxSeq + 1] = Absent
  /\ Broken \/ Headless \/ Rewound
  /\ PastInv
  /\ EvidenceKept

\* A step that leaves the store, the counter and the anchor alone leaves the
\* damage where it was.
LEMMA DamageStays ==
  ASSUME DamageInv, UNCHANGED durable
  PROVE  /\ (entry[MaxSeq + 1] = Absent)'
         /\ Broken' \/ Headless' \/ Rewound'
BY DEF DamageInv, durable, Broken, Headless, Rewound, MetaAgrees, Chains, PrevHash

\* Damage in the chain outlives every append and every adoption: they write
\* behind it.
LEMMA BrokenStays ==
  ASSUME DamageInv, Broken,
         \A i \in 0..(counter - 1) : entry'[i] = entry[i],
         counter' = counter \/ counter' = counter + 1
  PROVE  Broken'
<1>1. PICK i \in 0..(counter - 1) : ~Chains(i)
  BY DEF Broken
<1>2. counter \in Nat
  BY DEF DamageInv, TypeOK, Keys
<1>3. entry'[i] = entry[i] /\ (i > 0 => entry'[i - 1] = entry[i - 1])
  BY <1>2
<1>4. ~Chains(i)'
  BY <1>1, <1>3 DEF Chains, PrevHash
<1>5. i \in 0..(counter' - 1)
  BY <1>2
<1> QED
  BY <1>4, <1>5 DEF Broken

\* A call that returns, or a crash, without a durable write.
LEMMA DamageReturn ==
  ASSUME DamageInv,
         \/ pc' = [d \in Callers |-> "idle"]
         \/ \E c \in Callers : pc[c] # "idle" /\ pc' = [pc EXCEPT ![c] = "idle"],
         lock' = NoCaller, UNCHANGED <<durable, op, arg, wire, acked, tampered, writeOnce>>,
         EvidenceKept'
  PROVE  DamageInv'
<1>1. TypeOK'
  BY DEF DamageInv, TypeOK, durable, Pc, IsWire, IsMeta
<1>2. \A c \in Callers : pc'[c] = "idle"
  BY DEF DamageInv, TypeOK, LockInv
<1>3. LockInv' /\ OpInv' /\ PastInv'
  BY <1>2 DEF LockInv, OpInv, PastInv
<1> QED
  BY <1>1, <1>3, DamageStays DEF DamageInv

\* Taking the lock.
LEMMA DamageEnter ==
  ASSUME DamageInv, NEW c \in Callers, NEW o \in Ops, NEW d \in Payloads, Enter(c, o, d)
  PROVE  DamageInv'
<1>1. TypeOK'
  BY DEF DamageInv, TypeOK, Enter, durable, Pc, IsWire, IsMeta
<1>2. LockInv' /\ OpInv' /\ PastInv'
  BY DEF DamageInv, TypeOK, LockInv, OpInv, PastInv, Enter, durable
<1>3. EvidenceKept'
  BY DEF Enter, EvidenceKept, Silent
<1> QED
  BY <1>1, <1>2, <1>3, DamageStays DEF DamageInv, Enter

\* ulog_recover() goes on to adopt an entry only if it chains.
LEMMA DamageRecover ==
  ASSUME DamageInv, NEW c \in Callers, Recover(c)
  PROVE  DamageInv'
<1>1. TypeOK'
  <2>1. pc' \in [Callers -> Pc] /\ lock' = lock /\ UNCHANGED <<durable, op, arg, acked, tampered, writeOnce>>
    BY DEF DamageInv, TypeOK, Recover, Goto, AfterRecover, Pc
  <2>2. wire' = wire \/ wire' = [wire EXCEPT ![c] = entry[counter]]
    BY DEF Recover
  <2>3. DOMAIN wire' = Callers /\ \A b \in Callers : wire'[b] = Absent \/ IsWire(wire'[b])
    BY <2>2 DEF DamageInv, TypeOK
  <2> QED
    BY <2>1, <2>3 DEF DamageInv, TypeOK, durable, IsWire, IsMeta
<1>2. LockInv' /\ OpInv'
  BY DEF DamageInv, TypeOK, LockInv, OpInv, Recover, Goto, AfterRecover, Ops
<1>3. PastInv'
  BY DEF DamageInv, TypeOK, LockInv, PastInv, Recover, Goto, AfterRecover, durable, Chains, PrevHash
<1>4. EvidenceKept'
  BY DEF Recover, Goto, EvidenceKept, Silent
<1> QED
  BY <1>1, <1>2, <1>3, <1>4, DamageStays DEF DamageInv, Recover

\* Before a write of meta or of the counter the damage is in the chain, and the
\* entry at the counter is inside the sequence space.
LEMMA DamageIsOld ==
  ASSUME DamageInv, NEW c \in Callers, pc[c] \in {"adopt_meta", "adopt_inc", "put_meta", "inc"}
  PROVE  Broken /\ wire[c].seq = counter /\ counter \in 0..MaxSeq
<1>1. counter \in Keys /\ entry[MaxSeq + 1] = Absent /\ ~Absent.present
  BY DEF DamageInv, TypeOK, Absent
<1>2. CASE pc[c] \in {"put_meta", "inc"}
  BY <1>1, <1>2 DEF DamageInv, PastInv, Keys
<1>3. CASE pc[c] \in {"adopt_meta", "adopt_inc"}
  <2>1. wire[c] = entry[counter] /\ Chains(counter)
    BY <1>3 DEF DamageInv, PastInv
  <2>2. counter # MaxSeq + 1 /\ entry[counter].seq = counter
    BY <1>1, <2>1 DEF Chains
  <2> QED
    BY <1>1, <2>1, <2>2 DEF DamageInv, Headless, Rewound, Keys
<1> QED
  BY <1>2, <1>3

\* Meta is written only behind damage in the chain.
LEMMA DamageMeta ==
  ASSUME DamageInv, NEW c \in Callers, AdoptMeta(c) \/ PutMeta(c)
  PROVE  DamageInv'
<1>1. pc[c] \in {"adopt_meta", "put_meta"}
  BY DEF AdoptMeta, PutMeta
<1>2. Broken /\ wire[c].seq = counter /\ counter \in 0..MaxSeq
  BY <1>1, DamageIsOld
<1>3. meta' = Meta(counter + 1, Sha(wire[c])) /\ counter + 1 \in Keys
  BY <1>2 DEF AdoptMeta, PutMeta, Keys
<1>4. UNCHANGED <<entry, counter, floor, op, arg, wire, acked, tampered, writeOnce>>
  BY DEF AdoptMeta, PutMeta
<1>5. \/ pc[c] = "adopt_meta" /\ pc' = [pc EXCEPT ![c] = "adopt_inc"] /\ lock' = lock /\ last' = Silent
      \/ pc[c] = "put_meta" /\ pc' = [pc EXCEPT ![c] = "inc"] /\ lock' = lock /\ last' = Silent
      \/ pc' = [pc EXCEPT ![c] = "idle"] /\ lock' = NoCaller /\ last'.rc = "FAULT"
  BY DEF AdoptMeta, PutMeta, Continue, Goto, Return
<1>6. TypeOK'
  BY <1>3, <1>4, <1>5, MetaShape DEF DamageInv, TypeOK, Pc, IsWire
<1>7. LockInv' /\ OpInv'
  BY <1>1, <1>4, <1>5 DEF DamageInv, TypeOK, LockInv, OpInv
<1>8. Broken'
  BY <1>2, <1>4, BrokenStays
<1>9. PastInv'
  BY <1>1, <1>2, <1>4, <1>5, <1>8 DEF DamageInv, TypeOK, LockInv, PastInv, Chains, PrevHash
<1>10. EvidenceKept'
  BY <1>5 DEF EvidenceKept, Silent
<1> QED
  BY <1>4, <1>6, <1>7, <1>8, <1>9, <1>10 DEF DamageInv

\* The counter moves only behind damage in the chain.
LEMMA DamageIncrement ==
  ASSUME DamageInv, NEW c \in Callers, AdoptIncrement(c) \/ Increment(c)
  PROVE  DamageInv'
<1>1. pc[c] \in {"adopt_inc", "inc"} /\ counter' = counter + 1
      /\ UNCHANGED <<entry, meta, floor, tampered, writeOnce, op, arg, wire>>
  BY DEF AdoptIncrement, Increment
<1>2. Broken /\ wire[c].seq = counter /\ counter \in 0..MaxSeq
  BY <1>1, DamageIsOld
<1>3. \/ /\ pc[c] = "adopt_inc" /\ pc' = [pc EXCEPT ![c] = AfterRecover(c)]
         /\ lock' = lock /\ last' = Silent
      \/ pc[c] = "inc" /\ pc' = [pc EXCEPT ![c] = "advance"] /\ lock' = lock /\ last' = Silent
      \/ pc' = [pc EXCEPT ![c] = "idle"] /\ lock' = NoCaller /\ last'.rc = "FAULT"
      \/ /\ pc' = [pc EXCEPT ![c] = "idle"] /\ lock' = NoCaller
         /\ last' = [op |-> op[c], rc |-> "OK", val |-> 0] /\ pc[c] = "inc"
  BY DEF AdoptIncrement, Increment, Continue, Goto, Return, Acknowledge
<1>4. acked' = acked \/ acked' = [acked EXCEPT ![counter] = wire[c]]
  BY <1>2 DEF AdoptIncrement, Increment, Acknowledge
<1>5. TypeOK'
  <2>1. counter' \in Keys /\ pc' \in [Callers -> Pc] /\ lock' \in Callers \cup {NoCaller}
    BY <1>1, <1>2, <1>3 DEF DamageInv, TypeOK, Keys, Pc, AfterRecover
  <2>2. DOMAIN acked' = Keys /\ \A i \in Keys : acked'[i] = Absent \/ IsWire(acked'[i])
    BY <1>4 DEF DamageInv, TypeOK
  <2> QED
    BY <1>1, <2>1, <2>2 DEF DamageInv, TypeOK, IsWire, IsMeta
<1>6. LockInv' /\ OpInv'
  BY <1>1, <1>3 DEF DamageInv, TypeOK, LockInv, OpInv, AfterRecover, Ops
<1>7. Broken'
  BY <1>1, <1>2, BrokenStays
<1>8. PastInv'
  BY <1>1, <1>2, <1>3 DEF DamageInv, TypeOK, LockInv, PastInv, AfterRecover
<1>9. EvidenceKept'
  BY <1>3 DEF DamageInv, OpInv, EvidenceKept, Silent
<1> QED
  BY <1>1, <1>5, <1>6, <1>7, <1>8, <1>9 DEF DamageInv

\* ulog_sync_anchor() lets nobody past a store that is behind the anchor, and
\* raises the floor otherwise.
LEMMA DamageSync ==
  ASSUME DamageInv, NEW c \in Callers, SyncAnchor(c)
  PROVE  DamageInv'
<1>1. pc[c] = "sync" /\ op[c] \in {"append", "verify"}
  BY DEF DamageInv, OpInv, SyncAnchor
<1>2. counter \in Nat /\ floor \in Nat /\ counter \in Keys /\ floor \in Keys
  BY DEF DamageInv, TypeOK, Keys
<1>3. UNCHANGED <<entry, meta, counter, op, arg, wire, acked, tampered, writeOnce>>
  BY DEF SyncAnchor
<1>4. floor' = floor \/ (floor < counter /\ floor' = counter)
  BY DEF SyncAnchor
<1>5. \/ /\ pc' = [pc EXCEPT ![c] = IF op[c] = "append" THEN "put" ELSE "walk"]
         /\ lock' = lock /\ last' = Silent /\ (HasAnchor => floor' <= counter)
      \/ /\ pc' = [pc EXCEPT ![c] = "idle"] /\ lock' = NoCaller
         /\ last'.rc = "FAULT" \/ last'.rc = "IO" \/ last'.val = "ROLLED_BACK"
  BY <1>2 DEF SyncAnchor, Continue, Goto, Return
<1>6. TypeOK'
  BY <1>2, <1>3, <1>4, <1>5 DEF DamageInv, TypeOK, Pc, IsWire, IsMeta
<1>7. LockInv' /\ OpInv'
  BY <1>1, <1>3, <1>5 DEF DamageInv, TypeOK, LockInv, OpInv
<1>8. Broken' \/ Headless' \/ Rewound'
  BY <1>2, <1>3, <1>4
    DEF DamageInv, Broken, Headless, Rewound, MetaAgrees, Chains, PrevHash
<1>9. PastInv'
  BY <1>1, <1>3, <1>5 DEF DamageInv, TypeOK, LockInv, PastInv
<1>10. EvidenceKept'
  BY <1>5 DEF EvidenceKept, Silent
<1> QED
  BY <1>3, <1>6, <1>7, <1>8, <1>9, <1>10 DEF DamageInv

\* append() gets past its check of meta only if the damage is in the chain, and
\* then writes behind it.
LEMMA DamagePut ==
  ASSUME DamageInv, NEW c \in Callers, PutEntry(c)
  PROVE  DamageInv'
<1> DEFINE w == Wire(counter, arg[c], PrevHash(counter))
<1>1. pc[c] = "put" /\ op[c] = "append" /\ MetaAgrees /\ counter <= MaxSeq
  BY DEF DamageInv, OpInv, PutEntry
<1>2. counter \in 0..MaxSeq /\ counter \in Keys /\ (HasAnchor => floor <= counter) /\ floor \in Nat
  BY <1>1 DEF DamageInv, TypeOK, PastInv, Keys
<1>3. Broken
  BY <1>1, <1>2 DEF DamageInv, Headless, Rewound
<1>4. UNCHANGED <<meta, counter, floor, op, arg, acked, tampered, writeOnce>>
  BY DEF PutEntry
<1>5. CASE writeOnce /\ entry[counter].present
  <2>1. Return(c, "IO", 0) /\ UNCHANGED <<entry, wire>>
    BY <1>5 DEF PutEntry
  <2>2. EvidenceKept'
    BY <2>1 DEF Return, EvidenceKept
  <2> QED
    BY <1>1, <1>4, <2>1, <2>2, DamageReturn DEF Return, durable
<1>6. CASE ~(writeOnce /\ entry[counter].present)
  <2>1. /\ entry' = [entry EXCEPT ![counter] = w]
        /\ wire' = [wire EXCEPT ![c] = w]
        /\ Continue(c, "put_meta")
    BY <1>6 DEF PutEntry
  <2>2. IsWire(w) /\ w.seq = counter
    BY <1>2, WireShape DEF DamageInv, TypeOK
  <2> HIDE DEF w
  <2>3. \/ pc' = [pc EXCEPT ![c] = "put_meta"] /\ lock' = lock /\ last' = Silent
        \/ pc' = [pc EXCEPT ![c] = "idle"] /\ lock' = NoCaller /\ last'.rc = "FAULT"
    BY <2>1 DEF Continue, Goto, Return
  <2>4. TypeOK'
    <3>1. DOMAIN entry' = Keys /\ \A i \in Keys : entry'[i] = Absent \/ IsWire(entry'[i])
      BY <2>1, <2>2 DEF DamageInv, TypeOK
    <3>2. DOMAIN wire' = Callers /\ \A b \in Callers : wire'[b] = Absent \/ IsWire(wire'[b])
      BY <2>1, <2>2 DEF DamageInv, TypeOK
    <3> QED
      BY <1>4, <2>3, <3>1, <3>2 DEF DamageInv, TypeOK, Pc, IsWire, IsMeta
  <2>5. LockInv' /\ OpInv'
    BY <1>1, <1>4, <2>3 DEF DamageInv, TypeOK, LockInv, OpInv
  <2>6. (entry[MaxSeq + 1] = Absent)'
    BY <1>2, <2>1 DEF DamageInv, TypeOK, Keys
  <2>7. Broken'
    <3>1. \A i \in 0..(counter - 1) : entry'[i] = entry[i]
      BY <1>2, <2>1 DEF DamageInv, TypeOK, Keys
    <3> QED
      BY <1>3, <1>4, <3>1, BrokenStays
  <2>8. PastInv'
    <3>1. wire'[c].seq = counter
      BY <2>1, <2>2 DEF DamageInv, TypeOK
    <3>2. \A b \in Callers : pc'[b] # "idle" => b = c /\ pc'[b] = "put_meta"
      BY <1>1, <2>3 DEF DamageInv, TypeOK, LockInv
    <3> QED
      BY <1>2, <1>4, <2>7, <3>1, <3>2 DEF PastInv
  <2>9. EvidenceKept'
    BY <2>3 DEF EvidenceKept, Silent
  <2> QED
    BY <2>4, <2>5, <2>6, <2>7, <2>8, <2>9 DEF DamageInv
<1> QED
  BY <1>5, <1>6

\* anchor->advance() only ever raises the floor.
LEMMA DamageAdvance ==
  ASSUME DamageInv, NEW c \in Callers, AdvanceAnchor(c)
  PROVE  DamageInv'
<1>1. pc[c] = "advance" /\ op[c] = "append" /\ wire[c].seq \in 0..MaxSeq
  BY DEF DamageInv, OpInv, PastInv, AdvanceAnchor
<1>2. counter \in Nat /\ floor \in Nat /\ floor \in Keys
  BY DEF DamageInv, TypeOK, Keys
<1>3. UNCHANGED <<entry, meta, counter, op, arg, wire, tampered, writeOnce>>
  BY DEF AdvanceAnchor
<1>4. floor' \in Keys /\ floor' >= floor
  BY <1>1, <1>2 DEF AdvanceAnchor, Keys
<1>5. /\ pc' = [pc EXCEPT ![c] = "idle"] /\ lock' = NoCaller
      /\ last'.op = "append"
  BY <1>1 DEF AdvanceAnchor, Acknowledge, Return
<1>6. acked' = acked \/ acked' = [acked EXCEPT ![wire[c].seq] = wire[c]]
  BY DEF AdvanceAnchor, Acknowledge
<1>7. TypeOK'
  <2>1. DOMAIN acked' = Keys /\ \A i \in Keys : acked'[i] = Absent \/ IsWire(acked'[i])
    BY <1>6 DEF DamageInv, TypeOK
  <2> QED
    BY <1>3, <1>4, <1>5, <2>1 DEF DamageInv, TypeOK, Pc, IsWire, IsMeta
<1>8. \A b \in Callers : pc'[b] = "idle"
  BY <1>1, <1>5 DEF DamageInv, TypeOK, LockInv
<1>9. LockInv' /\ OpInv' /\ PastInv'
  BY <1>8 DEF LockInv, OpInv, PastInv
<1>10. Broken' \/ Headless' \/ Rewound'
  BY <1>2, <1>3, <1>4
    DEF DamageInv, Broken, Headless, Rewound, MetaAgrees, Chains, PrevHash, Keys
<1>11. EvidenceKept'
  BY <1>5 DEF EvidenceKept
<1> QED
  BY <1>3, <1>7, <1>9, <1>10, <1>11 DEF DamageInv

\* A clean verdict is one about a log that append() can extend.
LEMMA CleanVerdict ==
  ASSUME counter \in Nat, Verdict = "OK"
  PROVE  MetaAgrees /\ ~Broken /\ ~entry[counter].present
<1>1. ~Broken /\ ~entry[counter].present
  BY DEF Verdict, Broken
<1>2. counter > 0 => meta.present /\ meta.count = counter /\ meta.head = PrevHash(counter)
  BY DEF Verdict
<1>3. counter > 0 => entry[counter - 1].present
  BY <1>1 DEF Broken, Chains
<1> QED
  BY <1>1, <1>2, <1>3 DEF MetaAgrees

\* verify() sees the damage.
LEMMA DamageWalk ==
  ASSUME DamageInv, NEW c \in Callers, Walk(c)
  PROVE  DamageInv'
<1>1. pc[c] = "walk" /\ (HasAnchor => floor <= counter) /\ counter \in Nat /\ floor \in Nat
  BY DEF DamageInv, TypeOK, PastInv, Walk, Keys
<1>2. Broken \/ ~MetaAgrees
  BY <1>1 DEF DamageInv, Headless, Rewound
<1>3. Verdict # "OK"
  BY <1>1, <1>2, CleanVerdict
<1>4. EvidenceKept'
  BY <1>3 DEF Walk, Return, EvidenceKept
<1> QED
  BY <1>1, <1>4, DamageReturn DEF Walk, Return

\* The other ways a call returns are not verify()'s.
LEMMA DamageOther ==
  ASSUME DamageInv, NEW c \in Callers,
         \/ AppendRefuses(c) \/ ReadCount(c) \/ AccessFails(c)
         \/ \E i \in Keys : Fetch(c, i)
  PROVE  DamageInv'
<1>1. /\ pc[c] # "idle" /\ pc' = [pc EXCEPT ![c] = "idle"] /\ lock' = NoCaller
      /\ UNCHANGED <<durable, op, arg, wire, acked, tampered, writeOnce>>
  BY DEF AppendRefuses, ReadCount, AccessFails, Fetch, Return
<1>2. last'.op # "verify" \/ last'.rc = "FAULT"
  BY DEF DamageInv, OpInv, AppendRefuses, ReadCount, AccessFails, Fetch, Return
<1>3. EvidenceKept'
  BY <1>2 DEF EvidenceKept
<1> QED
  BY <1>1, <1>3, DamageReturn

\* No step of the engine heals a damaged log or calls it clean.
LEMMA NextDamage == DamageInv /\ [Next]_vars => DamageInv'
<1> SUFFICES ASSUME DamageInv, [Next]_vars PROVE DamageInv'
  OBVIOUS
<1>1. CASE UNCHANGED vars
  <2>1. TypeOK' /\ LockInv' /\ OpInv' /\ EvidenceKept'
    BY <1>1 DEF DamageInv, TypeOK, LockInv, OpInv, EvidenceKept, vars, durable, locals, IsWire, IsMeta
  <2>2. PastInv'
    BY <1>1 DEF DamageInv, PastInv, Broken, Chains, PrevHash, vars, durable, locals
  <2> QED
    BY <1>1, <2>1, <2>2, DamageStays DEF DamageInv, vars
<1>2. CASE Crash
  <2>1. EvidenceKept'
    BY <1>2 DEF Crash, EvidenceKept, Silent
  <2> QED
    BY <1>2, <2>1, DamageReturn DEF Crash
<1>3. ASSUME NEW c \in Callers, Call(c) \/ Step(c) \/ AccessFails(c)
      PROVE  DamageInv'
  BY <1>3, DamageEnter, DamageRecover, DamageMeta, DamageIncrement, DamageSync, DamagePut,
     DamageAdvance, DamageWalk, DamageOther DEF Call, Step
<1> QED
  BY <1>1, <1>2, <1>3 DEF Next

-----------------------------------------------------------------------------
\* An offline change meets nobody inside the engine.
LEMMA OfflineQuiet ==
  ASSUME IInv, NEW e, NEW m, NEW n, Offline(e, m, n), TypeOK'
  PROVE  LockInv' /\ OpInv' /\ PastInv' /\ EvidenceKept'
<1>1. \A c \in Callers : pc'[c] = "idle"
  BY DEF IInv, TypeOK, LockInv, Offline, locals
<1>2. last' = Silent
  BY DEF Offline
<1> QED
  BY <1>1, <1>2 DEF LockInv, OpInv, PastInv, EvidenceKept, Silent

\* A committed entry that is altered, made undecodable or deleted breaks the
\* chain there, or in the entry behind it, or leaves meta with another head.
LEMMA EditEntryDamages ==
  ASSUME IInv, NEW i \in Keys, EditEntry(i)
  PROVE  DamageInv'
<1>1. i < counter /\ entry[i].present /\ counter \in Keys /\ i \in Nat /\ counter \in Nat
  BY DEF EditEntry, IInv, TypeOK, Keys
<1>2. Chains(i) /\ IsWire(entry[i])
  BY <1>1 DEF IInv, ChainInv, TypeOK, Absent
<1>3. /\ UNCHANGED <<meta, counter, floor, lock, locals, acked, writeOnce>> /\ tampered' = TRUE
      /\ \E e : Offline(e, meta, counter)
  BY DEF EditEntry, Offline
<1>4. PICK x : /\ entry' = [entry EXCEPT ![i] = x]
               /\ \/ x = Absent
                  \/ x = [entry[i] EXCEPT !.ok = FALSE]
                  \/ \E d \in Payloads \ {entry[i].data} : x = [entry[i] EXCEPT !.data = d]
  BY DEF EditEntry, Offline
<1>5. entry'[i] = x /\ \A j \in Keys \ {i} : entry'[j] = entry[j]
  BY <1>4 DEF IInv, TypeOK
<1>6. x = Absent \/ IsWire(x)
  BY <1>2, <1>4 DEF IsWire, Image
<1>7. x # entry[i] /\ (x.present /\ x.ok => x.data # entry[i].data)
  BY <1>2, <1>4 DEF IsWire, Image, Absent, Chains
<1>8. TypeOK'
  <2>1. DOMAIN entry' = Keys /\ \A j \in Keys : entry'[j] = Absent \/ IsWire(entry'[j])
    BY <1>4, <1>5, <1>6 DEF IInv, TypeOK
  <2> QED
    BY <1>3, <2>1 DEF IInv, TypeOK, locals, IsWire, IsMeta
<1>9. (entry[MaxSeq + 1] = Absent)'
  BY <1>1, <1>5 DEF IInv, ChainInv, Keys
<1>10. Broken' \/ Headless' \/ Rewound'
  <2>1. CASE i + 1 < counter
    <3>1. entry[i + 1].prev = Sha(entry[i])
      BY <1>1, <2>1 DEF IInv, ChainInv, Chains, PrevHash
    <3>2. entry'[i + 1] = entry[i + 1] /\ Sha(x) # Sha(entry[i])
      BY <1>1, <1>5, <1>7, <2>1 DEF Keys, Sha
    <3>3. ~Chains(i + 1)'
      BY <1>1, <1>5, <3>1, <3>2 DEF Chains, PrevHash
    <3> QED
      BY <1>1, <1>3, <2>1, <3>3 DEF Broken
  <2>2. CASE i + 1 = counter
    <3>1. PrevHash(counter) = Sha(entry[i]) /\ PrevHash(counter)' = Sha(x) /\ Sha(x) # Sha(entry[i])
      BY <1>1, <1>3, <1>5, <1>7, <2>2 DEF PrevHash, Sha
    <3>2. ~Chains(counter)'
      <4>1. entry'[counter] = entry[counter]
        BY <1>1, <1>5, <2>2
      <4>2. entry[counter] = Absent \/ entry[counter].prev = Sha(entry[i])
        BY <3>1 DEF IInv, ChainInv, Chains
      <4> QED
        BY <1>3, <3>1, <4>1, <4>2 DEF Chains, Absent
    <3>3. ~MetaAgrees'
      <4>1. meta = Meta(counter, Sha(entry[i])) \/ meta = Meta(counter + 1, Sha(entry[counter]))
        BY <1>1, <2>2 DEF IInv, MetaInv
      <4>2. meta.count # counter \/ meta.head = Sha(entry[i])
        BY <1>1, <4>1 DEF Meta
      <4> QED
        BY <1>1, <1>3, <3>1, <4>2 DEF MetaAgrees
    <3> QED
      BY <3>2, <3>3 DEF Headless
  <2> QED
    BY <1>1, <2>1, <2>2
<1> QED
  BY <1>3, <1>8, <1>9, <1>10, OfflineQuiet DEF DamageInv

\* A meta with another head, and no orphan that would let recovery rewrite it.
LEMMA EditMetaDamages ==
  ASSUME IInv, EditMeta
  PROVE  DamageInv'
<1>1. /\ counter > 0 /\ counter \in Keys /\ counter \in Nat /\ ~entry[counter].present
      /\ meta' = Meta(counter, Zero) /\ UNCHANGED <<entry, counter, floor, lock, locals, acked, writeOnce>>
      /\ tampered' = TRUE
  BY DEF EditMeta, Offline, IInv, TypeOK, Keys
<1>2. TypeOK'
  BY <1>1, MetaShape DEF IInv, TypeOK, locals, IsWire
<1>3. ~Chains(counter)'
  BY <1>1 DEF Chains
<1>4. Sha(entry[counter - 1]) # Zero
  BY DEF Sha, Zero
<1>5. ~MetaAgrees'
  BY <1>1, <1>4, MetaShape DEF MetaAgrees, PrevHash
<1>6. (entry[MaxSeq + 1] = Absent)'
  BY <1>1 DEF IInv, ChainInv
<1> QED
  BY <1>2, <1>3, <1>5, <1>6, OfflineQuiet DEF DamageInv, Headless, EditMeta

\* Store and counter go back together, but the anchor does not.
LEMMA ReflashDamages ==
  ASSUME IInv, NEW k \in Keys, Reflash(k)
  PROVE  DamageInv'
<1>1. /\ HasAnchor /\ k < floor /\ k \in Nat /\ floor \in Keys /\ k <= MaxSeq /\ counter' = k
      /\ entry' = [i \in Keys |-> IF i < k THEN entry[i] ELSE Absent]
      /\ UNCHANGED <<floor, lock, locals, acked, writeOnce>> /\ tampered' = TRUE
  BY DEF Reflash, Offline, IInv, TypeOK, Keys
<1>2. meta' = Absent \/ IsMeta(meta')
  BY MetaShape DEF Reflash, Offline
<1>3. \A i \in Keys : entry'[i] = Absent \/ IsWire(entry'[i])
  BY <1>1 DEF IInv, TypeOK
<1>4. TypeOK'
  BY <1>1, <1>2, <1>3 DEF IInv, TypeOK, locals, IsWire, IsMeta
<1>5. (entry[MaxSeq + 1] = Absent)' /\ entry'[k] = Absent
  BY <1>1 DEF Keys
<1>6. Rewound'
  BY <1>1, <1>5 DEF Rewound, Chains, Absent
<1> QED
  BY <1>4, <1>5, <1>6, OfflineQuiet DEF DamageInv, Reflash

\* A tampered log is damaged, and stays so.
LEMMA Damaged == TamperSpec => [](tampered => DamageInv)
<1>1. Init => (tampered => DamageInv)
  BY DEF Init
<1>2. (~tampered => IInv) /\ (tampered => DamageInv) /\ [TamperNext]_vars => (tampered => DamageInv)'
  <2> SUFFICES ASSUME ~tampered => IInv, tampered => DamageInv, [TamperNext]_vars, tampered'
               PROVE  DamageInv'
    OBVIOUS
  <2>1. CASE tampered
    <3>1. [Next]_vars
      BY <2>1 DEF TamperNext, EditMeta, EditEntry, Reflash, Offline
    <3> QED
      BY <2>1, <3>1, NextDamage
  <2>2. CASE ~tampered
    <3>1. ~Next /\ ~UNCHANGED vars
      BY <2>2 DEF vars, Next, Call, Step, Enter, Recover, AdoptMeta, AdoptIncrement, SyncAnchor,
         AppendRefuses, PutEntry, PutMeta, Increment, AdvanceAnchor, Walk, ReadCount, Fetch,
         AccessFails, Crash
    <3> QED
      BY <2>2, <3>1, EditEntryDamages, EditMetaDamages, ReflashDamages DEF TamperNext
  <2> QED
    BY <2>1, <2>2
<1> QED
  BY <1>1, <1>2, Invariance, PTL DEF TamperSpec

\* The variables keep their types, on a tampered store too; in particular the
\* counter never leaves 0..ULOG_SEQ_MAX + 1 and the key space is never overrun.
THEOREM TypeCorrect == TamperSpec => []TypeOK
<1>1. (~tampered => IInv) /\ (tampered => DamageInv) => TypeOK
  BY DEF IInv, DamageInv
<1> QED
  BY <1>1, Invariance, Damaged, PTL

\* Evidence of tampering is never erased: after any of the offline changes no
\* sequence of recoveries, appends, crashes and failed accesses brings verify()
\* to report a clean log.
THEOREM EvidenceIsKept == TamperSpec => []EvidenceKept
<1>1. (~tampered => IInv) /\ (tampered => DamageInv) => EvidenceKept
  BY DEF DamageInv, EvidenceKept
<1> QED
  BY <1>1, Invariance, Damaged, PTL

\* A clean verdict means that append() can make progress, on a tampered store
\* too: meta agrees with the chain and the key at the counter is empty.
THEOREM VerifiedIsAppendable == TamperSpec => []VerifiedMeansAppendable
<1>1. Init => VerifiedMeansAppendable
  BY DEF Init, VerifiedMeansAppendable, Silent
<1>2. (~tampered => IInv) /\ (tampered => DamageInv) /\ VerifiedMeansAppendable /\ [TamperNext]_vars
        => VerifiedMeansAppendable'
  <2> SUFFICES ASSUME ~tampered => IInv, tampered => DamageInv, VerifiedMeansAppendable,
                      [TamperNext]_vars
               PROVE  VerifiedMeansAppendable'
    OBVIOUS
  <2>1. TypeOK /\ OpInv /\ counter \in Nat
    BY DEF IInv, DamageInv, CallInv, OpInv, TypeOK, Keys
  <2>2. CASE UNCHANGED vars
    BY <2>2 DEF vars, durable, VerifiedMeansAppendable, MetaAgrees, PrevHash
  <2>3. ASSUME NEW c \in Callers, Walk(c)
        PROVE  VerifiedMeansAppendable'
    <3>1. last'.val = Verdict /\ UNCHANGED durable
      BY <2>3 DEF Walk, Return
    <3> QED
      BY <2>1, <3>1, CleanVerdict DEF VerifiedMeansAppendable, durable, MetaAgrees, PrevHash
  <2>4. ASSUME ~UNCHANGED vars, \A c \in Callers : ~Walk(c)
        PROVE  last'.op # "verify" \/ last'.rc # "OK" \/ last'.val # "OK"
    BY <2>1, <2>4 DEF OpInv, TamperNext, EditMeta, EditEntry, Reflash, Offline, Next, Call, Step, Enter,
       Recover, AdoptMeta, AdoptIncrement, SyncAnchor, AppendRefuses, PutEntry, PutMeta,
       Increment, AdvanceAnchor, ReadCount, Fetch, AccessFails, Crash, Goto, Return, Continue,
       Acknowledge, Silent
  <2> QED
    BY <2>2, <2>3, <2>4 DEF VerifiedMeansAppendable
<1> QED
  BY <1>1, <1>2, Invariance, Damaged, PTL DEF TamperSpec
=============================================================================
