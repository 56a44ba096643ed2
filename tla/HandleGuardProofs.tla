------------------------- MODULE HandleGuardProofs -------------------------
(***************************************************************************)
(* The safety of the handle guard, for any pool, any number of threads and *)
(* any callbacks, those that close other handles included.                 *)
(*                                                                         *)
(* What the guard promises does not follow from what it promises: a drain  *)
(* that reads zero says nothing unless the counter is exact, and the       *)
(* counter is exact only as long as nobody zeroes it under a call that has *)
(* already counted itself.  IInv therefore ties the counter of a slot to   *)
(* the set of threads it stands for, gives every slot at most one thread   *)
(* that opens or closes it, and says which fields each of its steps has    *)
(* already written.                                                        *)
(*                                                                         *)
(* The two results on the teardown take JoinBeforeReopen as a hypothesis,  *)
(* the rule src/common/alp_slot_claim.h lays on the application.  Without  *)
(* it TLC finds a counterexample to both (JoinBeforeReopen = FALSE).       *)
(***************************************************************************)
EXTENDS HandleGuard, CountingFacts

-----------------------------------------------------------------------------
\* Where the thread that won the claim, or the close, of a slot can be.
UpPc == {"zero", "be_open", "free_failed", "publish"}
DownPc == {"cl_active", "cl_thread", "cl_defer", "cl_drain", "cl_be", "cl_unopen", "cl_free"}

\* For each slot, the threads that are entering an op of it, may use its
\* backend, are counted in active_ops, are opening it, or own its teardown.
Entering == [s \in Slots |-> {t \in Threads : at[t] = s /\ pc[t] \in EnterPc}]
Users == [s \in Slots |-> {t \in Threads : InBackend(t, s)}]
Counted == [s \in Slots |-> {t \in Threads :
              InBackend(t, s) \/ (at[t] = s /\ pc[t] \in {"op_chk", "op_back"})}]
Openers == [s \in Slots |-> {t \in Threads : tgt[t] = s /\ pc[t] \in UpPc}]
Closers == [s \in Slots |-> {t \in Threads :
              (tgt[t] = s /\ pc[t] \in DownPc) \/ (self_closed[t] /\ at[t] = s)}]

\* Only a close runs inside a callback, and only a loop() on its way out
\* carries a deferred close.
LocalInv ==
  \A t \in Threads : /\ in_cb[t] => pc[t] \in ClosePc
                     /\ self_closed[t] => pc[t] = "leave"

\* One thread at a time opens or closes a slot; how far it has come tells what
\* it has already done to lifecycle and to the backend.
OwnersOK(s) ==
  /\ \A t, u \in Openers[s] \cup Closers[s] : t = u
  /\ \A t \in Openers[s] : lifecycle[s] = "UNOPENED" /\ (pc[t] = "publish" => backend[s])
  /\ \A t \in Closers[s] :
       /\ lifecycle[s] = IF pc[t] = "cl_free" THEN "UNOPENED" ELSE "CLOSING"
       /\ pc[t] \notin {"cl_unopen", "cl_free"} => backend[s]

\* A free slot and an open slot have no such thread, and a closing one has a
\* closer or a close_pending flag, never both and never neither.
FieldsOK(s) ==
  /\ ~in_use[s] => lifecycle[s] = "UNOPENED" /\ Openers[s] = {} /\ Closers[s] = {}
  /\ lifecycle[s] = "OPEN" => backend[s] /\ Openers[s] = {} /\ Closers[s] = {}
  /\ lifecycle[s] = "CLOSING" => (Closers[s] = {} <=> close_pending[s])
  /\ close_pending[s] => lifecycle[s] = "CLOSING" /\ backend[s]

\* The counter is exact; whoever may use the backend keeps the slot from being
\* torn down; and nobody is still entering a slot that is being reopened.
UseOK(s) ==
  /\ active_ops[s] = Cardinality(Counted[s])
  /\ Users[s] # {} => /\ lifecycle[s] # "UNOPENED"
                      /\ \A t \in Closers[s] : pc[t] \notin {"cl_be", "cl_unopen"}
  /\ Openers[s] # {} => Entering[s] = {}

Good == {s \in Slots : OwnersOK(s) /\ FieldsOK(s) /\ UseOK(s)}

IInv == TypeOK /\ LocalInv /\ Good = Slots

USE ThreadsAssumption, PoolAssumption, CounterAssumption

-----------------------------------------------------------------------------
\* A step of any thread keeps the types, the counter's width included.
LEMMA TypeStep ==
  ASSUME TypeOK, NEW t \in Threads, Call(t) \/ Step(t) \/ OpReturn(t)
  PROVE  TypeOK'
<1> USE DEF Call, Step, OpReturn, StartOpen, StartOp, StartClose, CallbackCloses, ClaimWon, ClaimLost,
            Zero, BackendOpen, FreeFailed, Publish, OpAdd, OpCheck, OpBackOut, OpLeave, CbEnter,
            CbPublish, CbLeaveThread, CbLeaveActive, TakeDeferredClose, CloseElect, CloseReadActive,
            CloseReadThread, CloseDefer, Drain, BackendClose, CloseUnopen, Release, Return, Goto,
            slotVars
<1>1. at[t] \in Slots /\ tgt[t] \in Slots
  BY DEF TypeOK
<1>2. pc' \in [Threads -> Pc]
  BY DEF TypeOK, Pc, OpenPc, EnterPc, BodyPc, ClosePc
<1>3. at' \in [Threads -> Slots]
  BY DEF TypeOK
<1>4. tgt' \in [Threads -> Slots]
  <2>1. 1 \in Slots /\ (tgt[t] < MaxHandles => tgt[t] + 1 \in Slots)
    BY <1>1 DEF Slots
  <2> QED
    BY <1>1, <2>1 DEF TypeOK
<1>5. lifecycle' \in [Slots -> Lifecycle]
  BY <1>1 DEF TypeOK, Lifecycle
<1>6. cb_thread' \in [Slots -> Threads \cup {NoThread}]
  BY <1>1 DEF TypeOK
<1>7. active_ops' \in [Slots -> 0..(CounterMod - 1)]
  <2>1. CounterMod \in Nat /\ CounterMod > 0
    BY FS_CardinalityType
  <2>2. \A n \in 0..(CounterMod - 1) : /\ (n + 1) % CounterMod \in 0..(CounterMod - 1)
                                       /\ (n - 1) % CounterMod \in 0..(CounterMod - 1)
    BY <2>1
  <2>3. PICK s \in Slots : \/ active_ops' = active_ops
                           \/ active_ops' = [active_ops EXCEPT ![s] = 0]
                           \/ active_ops' = [active_ops EXCEPT ![s] = (@ + 1) % CounterMod]
                           \/ active_ops' = [active_ops EXCEPT ![s] = (@ - 1) % CounterMod]
    BY <1>1 DEF Add, Sub
  <2> QED
    BY <2>1, <2>2, <2>3 DEF TypeOK
<1>8. in_use' \in [Slots -> BOOLEAN]
  <2>1. \/ in_use' = in_use \/ in_use' = [in_use EXCEPT ![tgt[t]] = TRUE]
        \/ in_use' = [in_use EXCEPT ![tgt[t]] = FALSE]
    OBVIOUS
  <2> QED
    BY <1>1, <2>1, Zenon DEF TypeOK
<1>9. cb_active' \in [Slots -> BOOLEAN]
  <2>1. PICK s \in Slots : \/ cb_active' = cb_active \/ cb_active' = [cb_active EXCEPT ![s] = TRUE]
                           \/ cb_active' = [cb_active EXCEPT ![s] = FALSE]
    BY <1>1
  <2> QED
    BY <2>1, Zenon DEF TypeOK
<1>10. close_pending' \in [Slots -> BOOLEAN]
  <2>1. PICK s \in Slots : \/ close_pending' = close_pending
                           \/ close_pending' = [close_pending EXCEPT ![s] = TRUE]
                           \/ close_pending' = [close_pending EXCEPT ![s] = FALSE]
    BY <1>1
  <2> QED
    BY <2>1, Zenon DEF TypeOK
<1>11. backend' \in [Slots -> BOOLEAN]
  <2>1. \/ backend' = backend \/ backend' = [backend EXCEPT ![tgt[t]] = TRUE]
        \/ backend' = [backend EXCEPT ![tgt[t]] = FALSE]
    OBVIOUS
  <2> QED
    BY <1>1, <2>1, Zenon DEF TypeOK
<1>12. in_cb' \in [Threads -> BOOLEAN]
  <2>1. \/ in_cb' = in_cb \/ in_cb' = [in_cb EXCEPT ![t] = TRUE]
        \/ in_cb' = [in_cb EXCEPT ![t] = FALSE]
    OBVIOUS
  <2> QED
    BY <2>1, Zenon DEF TypeOK
<1>13. cb_owner' \in [Threads -> BOOLEAN]
  <2>1. \/ cb_owner' = cb_owner \/ cb_owner' = [cb_owner EXCEPT ![t] = FALSE]
        \/ cb_owner' = [cb_owner EXCEPT ![t] = ~cb_active[at[t]]]
    OBVIOUS
  <2> QED
    BY <2>1, Zenon DEF TypeOK
<1>14. self_closed' \in [Threads -> BOOLEAN]
  <2>1. close_pending[at[t]] \in BOOLEAN
    BY <1>1 DEF TypeOK
  <2>2. \/ self_closed' = self_closed \/ self_closed' = [self_closed EXCEPT ![t] = FALSE]
        \/ self_closed' = [self_closed EXCEPT ![t] = close_pending[at[t]]]
    OBVIOUS
  <2> QED
    BY <2>1, <2>2, Zenon DEF TypeOK
<1> QED
  BY <1>2, <1>3, <1>4, <1>5, <1>6, <1>7, <1>8, <1>9, <1>10, <1>11, <1>12, <1>13, <1>14 DEF TypeOK

\* The zeroed pool is well typed.
LEMMA InitIsTyped == Init => TypeOK
<1> SUFFICES ASSUME Init PROVE TypeOK
  OBVIOUS
<1>1. 1 \in Slots /\ 0 \in 0..(CounterMod - 1)
  BY FS_CardinalityType DEF Slots
<1>2. /\ in_use \in [Slots -> BOOLEAN] /\ cb_active \in [Slots -> BOOLEAN]
      /\ close_pending \in [Slots -> BOOLEAN] /\ backend \in [Slots -> BOOLEAN]
      /\ in_cb \in [Threads -> BOOLEAN] /\ cb_owner \in [Threads -> BOOLEAN]
      /\ self_closed \in [Threads -> BOOLEAN]
  BY DEF Init
<1> QED
  BY <1>1, <1>2 DEF Init, TypeOK, Lifecycle, Pc

\* Every variable keeps its type: the claim loop never leaves the pool and the
\* op counter never leaves its word.
THEOREM TypeCorrect == Spec => []TypeOK
<1>2. TypeOK /\ [Next]_vars => TypeOK'
  <2> SUFFICES ASSUME TypeOK, [Next]_vars PROVE TypeOK'
    OBVIOUS
  <2>1. CASE UNCHANGED vars
    BY <2>1 DEF vars, slotVars, threadVars, TypeOK
  <2>2. CASE Next
    BY <2>2, TypeStep DEF Next
  <2> QED
    BY <2>1, <2>2
<1> QED
  BY InitIsTyped, <1>2, PTL DEF Spec

-----------------------------------------------------------------------------
\* A step of t moves no other thread.
Others(t) ==
  \A u \in Threads : u # t => /\ pc'[u] = pc[u] /\ at'[u] = at[u] /\ tgt'[u] = tgt[u]
                              /\ in_cb'[u] = in_cb[u] /\ self_closed'[u] = self_closed[u]

\* In such a step only t can enter or leave one of the sets of threads.
LEMMA SetsMove ==
  ASSUME NEW t \in Threads, Others(t), NEW s \in Slots
  PROVE  /\ Entering[s] \subseteq Threads /\ Entering'[s] \subseteq Threads
         /\ Users[s] \subseteq Threads /\ Users'[s] \subseteq Threads
         /\ Counted[s] \subseteq Threads /\ Counted'[s] \subseteq Threads
         /\ Openers[s] \subseteq Threads /\ Openers'[s] \subseteq Threads
         /\ Closers[s] \subseteq Threads /\ Closers'[s] \subseteq Threads
         /\ \A u \in Threads : u # t =>
              /\ u \in Entering'[s] <=> u \in Entering[s]
              /\ u \in Users'[s] <=> u \in Users[s]
              /\ u \in Counted'[s] <=> u \in Counted[s]
              /\ u \in Openers'[s] <=> u \in Openers[s]
              /\ u \in Closers'[s] <=> u \in Closers[s]
BY DEF Entering, Users, Counted, Openers, Closers, InBackend, Others

\* So a set in which t keeps its place is unchanged.
LEMMA SetsSame ==
  ASSUME NEW t \in Threads, Others(t), NEW s \in Slots
  PROVE  /\ (t \in Openers'[s] <=> t \in Openers[s]) => Openers'[s] = Openers[s]
         /\ (t \in Closers'[s] <=> t \in Closers[s]) => Closers'[s] = Closers[s]
         /\ (t \in Counted'[s] <=> t \in Counted[s]) => Counted'[s] = Counted[s]
         /\ (t \in Counted'[s] /\ t \notin Counted[s]) => Counted'[s] = Counted[s] \cup {t}
         /\ (t \notin Counted'[s] /\ t \in Counted[s]) => Counted'[s] = Counted[s] \ {t}
<1>1. /\ Openers[s] \subseteq Threads /\ Openers'[s] \subseteq Threads
      /\ \A u \in Threads : u # t => (u \in Openers'[s] <=> u \in Openers[s])
  BY SetsMove
<1>2. /\ Closers[s] \subseteq Threads /\ Closers'[s] \subseteq Threads
      /\ \A u \in Threads : u # t => (u \in Closers'[s] <=> u \in Closers[s])
  BY SetsMove
<1>3. /\ Counted[s] \subseteq Threads /\ Counted'[s] \subseteq Threads
      /\ \A u \in Threads : u # t => (u \in Counted'[s] <=> u \in Counted[s])
  BY SetsMove
<1>4. (t \in Openers'[s] <=> t \in Openers[s]) => Openers'[s] = Openers[s]
  BY <1>1
<1>5. (t \in Closers'[s] <=> t \in Closers[s]) => Closers'[s] = Closers[s]
  BY <1>2
<1>6. (t \in Counted'[s] <=> t \in Counted[s]) => Counted'[s] = Counted[s]
  BY <1>3
<1>7. (t \in Counted'[s] /\ t \notin Counted[s]) => Counted'[s] = Counted[s] \cup {t}
  BY <1>3
<1>8. (t \notin Counted'[s] /\ t \in Counted[s]) => Counted'[s] = Counted[s] \ {t}
  BY <1>3
<1> QED
  BY <1>4, <1>5, <1>6, <1>7, <1>8

\* Counting subsets of Threads.
LEMMA Counts ==
  /\ Cardinality(Threads) \in Nat /\ Cardinality({}) = 0
  /\ \A S \in SUBSET Threads :
       /\ Cardinality(S) \in 0..Cardinality(Threads)
       /\ Cardinality(S) = 0 <=> S = {}
       /\ \A t \in Threads \ S : Cardinality(S \cup {t}) = Cardinality(S) + 1
       /\ \A t \in S : Cardinality(S \ {t}) = Cardinality(S) - 1
BY Cardinalities

\* A slot stays good when the step of t leaves its fields alone, keeps its
\* counter exact and has t neither open nor close it: another thread's slot, or
\* one that t only passes through.
LEMMA SlotKept ==
  ASSUME IInv, NEW t \in Threads, Others(t), NEW s \in Slots,
         in_use'[s] <=> in_use[s], lifecycle'[s] = lifecycle[s], backend'[s] <=> backend[s],
         close_pending'[s] <=> close_pending[s], active_ops'[s] = Cardinality(Counted'[s]),
         t \notin Openers[s], t \notin Openers'[s], t \notin Closers[s], t \notin Closers'[s],
         t \in Users'[s] => t \in Users[s] \/ lifecycle[s] = "OPEN",
         t \in Entering'[s] => t \in Entering[s] \/ lifecycle[s] # "UNOPENED"
  PROVE  s \in Good'
<1>1. OwnersOK(s) /\ FieldsOK(s) /\ UseOK(s)
  BY DEF IInv, Good
<1>2. Openers'[s] = Openers[s] /\ Closers'[s] = Closers[s]
  BY SetsSame
<1>3. \A u \in Openers[s] \cup Closers[s] : u \in Threads /\ u # t /\ pc'[u] = pc[u]
  BY SetsMove DEF Others
<1>4. OwnersOK(s)'
  BY <1>1, <1>2, <1>3 DEF OwnersOK
<1>5. FieldsOK(s)'
  BY <1>1, <1>2 DEF FieldsOK
<1>6. Users'[s] # {} => Users[s] # {} \/ lifecycle[s] = "OPEN"
  BY SetsMove
<1>7. Entering'[s] # {} => Entering[s] # {} \/ lifecycle[s] # "UNOPENED"
  BY SetsMove
<1>8. lifecycle[s] = "OPEN" => Closers[s] = {}
  BY <1>1 DEF FieldsOK
<1>9. Openers[s] # {} => lifecycle[s] = "UNOPENED"
  BY <1>1 DEF OwnersOK
<1>10. UseOK(s)'
  BY <1>1, <1>2, <1>3, <1>6, <1>7, <1>8, <1>9 DEF UseOK
<1> QED
  BY <1>4, <1>5, <1>10 DEF Good

\* Steps that change neither a count nor an owner.
Passing(t) ==
  \/ StartOpen(t) \/ ClaimLost(t) \/ OpCheck(t) \/ OpReturn(t)
  \/ CbEnter(t) \/ CbPublish(t) \/ CbLeaveThread(t) \/ CbLeaveActive(t)
  \/ (TakeDeferredClose(t) /\ ~close_pending[at[t]])
  \/ (CloseElect(t) /\ lifecycle[tgt[t]] # "OPEN")
  \/ \E s \in Slots : StartOp(t, s) \/ StartClose(t, s) \/ CallbackCloses(t, s)

\* Such a step keeps the invariant: an op is let in only where OPEN was read.
LEMMA PassingStep ==
  ASSUME IInv, NEW t \in Threads, Passing(t)
  PROVE  IInv'
<1> USE DEF Passing, StartOpen, ClaimLost, OpCheck, OpReturn, CbEnter, CbPublish, CbLeaveThread,
            CbLeaveActive, TakeDeferredClose, CloseElect, StartOp, StartClose, CallbackCloses,
            Return, Goto, slotVars
<1>1. TypeOK
  BY DEF IInv
<1>2. TypeOK'
  BY <1>1, TypeStep DEF Call, Step
<1>3. Others(t)
  BY <1>1 DEF Others, TypeOK
<1>4. UNCHANGED <<in_use, lifecycle, active_ops, backend>>
  BY <1>1 DEF TypeOK
<1>5. \A s \in Slots : close_pending'[s] <=> close_pending[s]
  BY <1>1 DEF TypeOK
<1>6. LocalInv'
  BY <1>1, <1>3 DEF IInv, LocalInv, TypeOK, Others, ClosePc
<1>7. ASSUME NEW s \in Slots PROVE s \in Good'
  <2>1. t \notin Openers[s] /\ t \notin Openers'[s]
    BY <1>1 DEF TypeOK, Openers, UpPc, BodyPc
  <2>2. t \notin Closers[s] /\ t \notin Closers'[s]
    BY <1>1 DEF TypeOK, Closers, DownPc, IInv, LocalInv
  <2>3. t \in Counted'[s] <=> t \in Counted[s]
    BY <1>1 DEF TypeOK, Counted, InBackend, BodyPc, ClosePc, IInv, LocalInv
  <2>4. t \in Users'[s] => t \in Users[s] \/ lifecycle[s] = "OPEN"
    BY <1>1 DEF TypeOK, Users, InBackend, BodyPc, ClosePc, IInv, LocalInv
  <2>5. t \in Entering'[s] => t \in Entering[s] \/ lifecycle[s] # "UNOPENED"
    BY <1>1 DEF TypeOK, Entering, EnterPc
  <2>6. Counted'[s] = Counted[s]
    BY <1>3, <2>3, SetsSame
  <2>7. active_ops'[s] = Cardinality(Counted'[s])
    BY <1>4, <2>6 DEF IInv, Good, UseOK
  <2> QED
    BY <1>3, <1>4, <1>5, <2>1, <2>2, <2>4, <2>5, <2>7, SlotKept
<1>8. Good' = Slots
  BY <1>7 DEF Good
<1> QED
  BY <1>2, <1>6, <1>8 DEF IInv

\* The counter is wide enough for every thread, so it never wraps.
LEMMA CounterFits ==
  \A n \in 0..Cardinality(Threads) : n % CounterMod = n
<1>1. Cardinality(Threads) \in Nat /\ CounterMod \in Nat /\ CounterMod > 0
  BY Counts
<1> QED
  BY <1>1

\* The modular add and subtract of the code count exactly.
LEMMA CountMoves ==
  ASSUME IInv, NEW t \in Threads, Others(t), NEW s \in Slots
  PROVE  /\ (t \in Counted'[s] <=> t \in Counted[s]) => active_ops[s] = Cardinality(Counted'[s])
         /\ (t \in Counted'[s] /\ t \notin Counted[s]) =>
              (active_ops[s] + 1) % CounterMod = Cardinality(Counted'[s])
         /\ (t \notin Counted'[s] /\ t \in Counted[s]) =>
              (active_ops[s] - 1) % CounterMod = Cardinality(Counted'[s])
<1>1. active_ops[s] = Cardinality(Counted[s])
  BY DEF IInv, Good, UseOK
<1>2. Counted[s] \in SUBSET Threads /\ Counted'[s] \in SUBSET Threads
  BY SetsMove
<1>3. CASE t \in Counted'[s] <=> t \in Counted[s]
  BY <1>1, <1>3, SetsSame
<1>4. CASE t \in Counted'[s] /\ t \notin Counted[s]
  <2>1. Counted'[s] = Counted[s] \cup {t}
    BY <1>4, SetsSame
  <2>2. Cardinality(Counted[s] \cup {t}) = Cardinality(Counted[s]) + 1
    BY <1>2, <1>4, Counts
  <2>3. Cardinality(Counted'[s]) \in 0..Cardinality(Threads)
    BY <1>2, Counts
  <2> QED
    BY <1>1, <1>4, <2>1, <2>2, <2>3, CounterFits
<1>5. CASE t \notin Counted'[s] /\ t \in Counted[s]
  <2>1. Counted'[s] = Counted[s] \ {t}
    BY <1>5, SetsSame
  <2>2. Cardinality(Counted[s] \ {t}) = Cardinality(Counted[s]) - 1
    BY <1>2, <1>5, Counts
  <2>3. Cardinality(Counted'[s]) \in 0..Cardinality(Threads)
    BY <1>2, Counts
  <2> QED
    BY <1>1, <1>5, <2>1, <2>2, <2>3, CounterFits
<1> QED
  BY <1>3, <1>4, <1>5

\* Steps that only change a count.
Counting(t) == OpAdd(t) \/ OpBackOut(t) \/ (OpLeave(t) /\ ~self_closed[t])

\* Such a step keeps the invariant: a thread counts itself before it looks at
\* lifecycle, and leaves before it stops counting.
LEMMA CountingStep ==
  ASSUME IInv, NEW t \in Threads, Counting(t)
  PROVE  IInv'
<1> USE DEF Counting, OpAdd, OpBackOut, OpLeave, Goto
<1>1. TypeOK
  BY DEF IInv
<1>2. TypeOK'
  BY <1>1, TypeStep DEF Call, Step
<1>3. Others(t)
  BY <1>1 DEF Others, TypeOK
<1>4. UNCHANGED <<in_use, lifecycle, backend, close_pending>>
  OBVIOUS
<1>5. LocalInv'
  BY <1>1, <1>3 DEF IInv, LocalInv, TypeOK, Others, ClosePc
<1>6. ASSUME NEW s \in Slots PROVE s \in Good'
  <2>1. t \notin Openers[s] /\ t \notin Openers'[s]
    BY <1>1 DEF TypeOK, Openers, UpPc
  <2>2. t \notin Closers[s] /\ t \notin Closers'[s]
    BY <1>1 DEF TypeOK, Closers, DownPc, IInv, LocalInv
  <2>3. t \in Users'[s] => t \in Users[s]
    BY <1>1 DEF TypeOK, Users, InBackend, BodyPc, ClosePc, IInv, LocalInv
  <2>4. t \in Entering'[s] => t \in Entering[s]
    BY <1>1 DEF TypeOK, Entering, EnterPc
  <2>7. active_ops'[s] = Cardinality(Counted'[s])
    <3>1. CASE s # at[t]
      <4>1. active_ops'[s] = active_ops[s]
        BY <1>1, <3>1 DEF TypeOK, Add, Sub
      <4>2. t \in Counted'[s] <=> t \in Counted[s]
        BY <1>1, <3>1 DEF TypeOK, Counted, InBackend
      <4> QED
        BY <1>3, <4>1, <4>2, CountMoves
    <3>2. CASE s = at[t] /\ OpAdd(t)
      <4>1. active_ops'[s] = (active_ops[s] + 1) % CounterMod
        BY <1>1, <3>2 DEF TypeOK, Add
      <4>2. t \in Counted'[s] /\ t \notin Counted[s]
        BY <1>1, <3>2 DEF TypeOK, Counted, InBackend, BodyPc, ClosePc, IInv, LocalInv
      <4> QED
        BY <1>3, <4>1, <4>2, CountMoves
    <3>3. CASE s = at[t] /\ ~OpAdd(t)
      <4>1. active_ops'[s] = (active_ops[s] - 1) % CounterMod
        BY <1>1, <3>3 DEF TypeOK, Sub
      <4>2. t \notin Counted'[s] /\ t \in Counted[s]
        BY <1>1, <3>3 DEF TypeOK, Counted, InBackend, BodyPc, ClosePc, IInv, LocalInv
      <4> QED
        BY <1>3, <4>1, <4>2, CountMoves
    <3> QED
      BY <3>1, <3>2, <3>3
  <2> QED
    BY <1>3, <1>4, <2>1, <2>2, <2>3, <2>4, <2>7, SlotKept
<1>7. Good' = Slots
  BY <1>6 DEF Good
<1> QED
  BY <1>2, <1>5, <1>7 DEF IInv

\* Steps of the thread that opens or closes slot s.
Owning(t, s) ==
  \/ tgt[t] = s /\ \/ ClaimWon(t) /\ JoinBeforeReopen
                   \/ Zero(t) \/ BackendOpen(t) \/ FreeFailed(t) \/ Publish(t)
                   \/ CloseElect(t) /\ lifecycle[s] = "OPEN"
                   \/ CloseReadActive(t) \/ CloseReadThread(t) \/ CloseDefer(t)
                   \/ Drain(t) \/ BackendClose(t) \/ CloseUnopen(t) \/ Release(t)
  \/ at[t] = s /\ \/ TakeDeferredClose(t) /\ close_pending[s]
                  \/ OpLeave(t) /\ self_closed[t]

\* Such a step keeps the invariant.  The two arguments that matter are the
\* drain, which finds the counter at zero and so no user left (<1>12 <2>6), and
\* the claim, which finds nobody entering the slot it is about to zero (<2>7).
LEMMA OwningStep ==
  ASSUME IInv, NEW t \in Threads, NEW s \in Slots, Owning(t, s)
  PROVE  IInv'
<1> USE DEF Owning, ClaimWon, Zero, BackendOpen, FreeFailed, Publish, CloseElect, CloseReadActive,
            CloseReadThread, CloseDefer, Drain, BackendClose, CloseUnopen, Release, TakeDeferredClose,
            OpLeave, Return, Goto, slotVars
<1>1. TypeOK /\ LocalInv /\ OwnersOK(s) /\ FieldsOK(s) /\ UseOK(s)
  BY DEF IInv, Good
<1>2. TypeOK'
  BY <1>1, TypeStep DEF Call, Step
<1>3. Others(t)
  BY <1>1 DEF Others, TypeOK
<1>4. LocalInv'
  BY <1>1, <1>3 DEF IInv, LocalInv, TypeOK, Others, ClosePc
<1>5. ASSUME NEW d \in Slots, d # s PROVE d \in Good'
  <2>1. /\ in_use'[d] <=> in_use[d]
        /\ backend'[d] <=> backend[d]
        /\ close_pending'[d] <=> close_pending[d]
        /\ lifecycle'[d] = lifecycle[d]
    <3>1. at[t] = s \/ tgt[t] = s
      OBVIOUS
    <3>2. in_use'[d] <=> in_use[d]
      BY <1>1, <1>5 DEF TypeOK
    <3>3. backend'[d] <=> backend[d]
      BY <1>1, <1>5 DEF TypeOK
    <3>4. close_pending'[d] <=> close_pending[d]
      BY <1>1, <1>5 DEF TypeOK
    <3>5. lifecycle'[d] = lifecycle[d]
      BY <1>1, <1>5 DEF TypeOK
    <3> QED
      BY <3>2, <3>3, <3>4, <3>5
  <2>2. t \notin Openers[d] /\ t \notin Openers'[d]
    BY <1>1, <1>5 DEF TypeOK, Openers, UpPc
  <2>3. t \notin Closers[d] /\ t \notin Closers'[d]
    BY <1>1, <1>5 DEF TypeOK, Closers, DownPc, LocalInv
  <2>4. t \in Users'[d] => t \in Users[d]
    BY <1>1, <1>5 DEF TypeOK, Users, InBackend, BodyPc, ClosePc, LocalInv
  <2>5. t \in Entering'[d] => t \in Entering[d]
    BY <1>1, <1>5 DEF TypeOK, Entering, EnterPc
  <2>6. t \in Counted'[d] <=> t \in Counted[d]
    BY <1>1, <1>5 DEF TypeOK, Counted, InBackend, BodyPc, ClosePc, LocalInv
  <2>7. active_ops'[d] = active_ops[d]
    BY <1>1, <1>5 DEF TypeOK, Sub
  <2>8. active_ops'[d] = Cardinality(Counted'[d])
    BY <1>3, <2>6, <2>7, CountMoves
  <2> QED
    BY <1>3, <2>1, <2>2, <2>3, <2>4, <2>5, <2>8, SlotKept
<1>6. Openers[s] \cup Closers[s] \subseteq {t}
  <2>1. CASE t \in Openers[s] \cup Closers[s]
    BY <1>1, <2>1 DEF OwnersOK
  <2>2. CASE t \notin Openers[s] \cup Closers[s]
    <3>1. ~in_use[s] \/ lifecycle[s] = "OPEN" \/ close_pending[s]
      BY <1>1, <2>2 DEF TypeOK, Openers, Closers, UpPc, DownPc
    <3> QED
      BY <1>1, <3>1 DEF FieldsOK, OwnersOK
  <2> QED
    BY <2>1, <2>2
<1>7. Openers'[s] \cup Closers'[s] \subseteq {t}
  BY <1>3, <1>6, SetsMove
<1>8. /\ t \in Openers[s] <=> tgt[t] = s /\ pc[t] \in UpPc
      /\ t \in Closers[s] <=> (tgt[t] = s /\ pc[t] \in DownPc) \/ (self_closed[t] /\ at[t] = s)
      /\ t \in Openers'[s] <=> tgt'[t] = s /\ pc'[t] \in UpPc
      /\ t \in Closers'[s] <=> (tgt'[t] = s /\ pc'[t] \in DownPc) \/ (self_closed'[t] /\ at'[t] = s)
  BY DEF Openers, Closers
<1>9. OwnersOK(s)'
  <2>1. t \in Openers'[s] => lifecycle'[s] = "UNOPENED" /\ (pc'[t] = "publish" => backend'[s])
    BY <1>1, <1>8 DEF TypeOK, OwnersOK, FieldsOK, LocalInv, UpPc, DownPc
  <2>2. t \in Closers'[s] => /\ lifecycle'[s] = IF pc'[t] = "cl_free" THEN "UNOPENED" ELSE "CLOSING"
                             /\ pc'[t] \notin {"cl_unopen", "cl_free"} => backend'[s]
    BY <1>1, <1>8 DEF TypeOK, OwnersOK, FieldsOK, LocalInv, UpPc, DownPc
  <2> QED
    BY <1>7, <2>1, <2>2 DEF OwnersOK
<1>10. FieldsOK(s)'
  <2>1. /\ Openers'[s] = {} <=> t \notin Openers'[s]
        /\ Closers'[s] = {} <=> t \notin Closers'[s]
    BY <1>7
  <2> QED
    BY <1>1, <1>8, <2>1 DEF TypeOK, OwnersOK, FieldsOK, LocalInv, UpPc, DownPc
<1>11. active_ops'[s] = Cardinality(Counted'[s])
  <2>1. CASE Zero(t)
    <3>1. Openers[s] # {} /\ lifecycle[s] = "UNOPENED"
      BY <1>1, <1>8, <2>1 DEF OwnersOK, UpPc, BodyPc
    <3>2. Users[s] = {} /\ Entering[s] = {}
      BY <1>1, <3>1 DEF UseOK
    <3>3. Counted[s] = {} /\ t \notin Counted'[s]
      BY <1>1, <2>1, <3>2 DEF Counted, Users, Entering, InBackend, EnterPc, TypeOK, BodyPc, LocalInv, ClosePc
    <3>4. Counted'[s] = {}
      BY <1>3, <3>3, SetsSame
    <3>5. active_ops'[s] = 0
      BY <1>1, <2>1 DEF TypeOK, BodyPc
    <3> QED
      BY <3>4, <3>5, Counts
  <2>2. CASE OpLeave(t)
    <3>1. active_ops'[s] = (active_ops[s] - 1) % CounterMod
      BY <1>1, <2>2 DEF TypeOK, Sub
    <3>2. t \notin Counted'[s] /\ t \in Counted[s]
      BY <1>1, <2>2 DEF TypeOK, Counted, InBackend, BodyPc, ClosePc, LocalInv
    <3> QED
      BY <1>3, <3>1, <3>2, CountMoves
  <2>3. CASE ~Zero(t) /\ ~OpLeave(t)
    <3>1. active_ops'[s] = active_ops[s]
      BY <1>1, <2>3
    <3>2. t \in Counted'[s] <=> t \in Counted[s]
      BY <1>1, <2>3 DEF TypeOK, Counted, InBackend, BodyPc, ClosePc, LocalInv
    <3> QED
      BY <1>3, <3>1, <3>2, CountMoves
  <2> QED
    BY <2>1, <2>2, <2>3
<1>12. UseOK(s)'
  <2>1. t \in Users'[s] => t \in Users[s]
    BY <1>1 DEF TypeOK, Users, InBackend, BodyPc, ClosePc, LocalInv
  <2>2. t \in Entering'[s] => t \in Entering[s]
    BY <1>1 DEF TypeOK, Entering, EnterPc
  <2>3. Users'[s] # {} => Users[s] # {}
    BY <1>3, <2>1, SetsMove
  <2>4. Entering'[s] # {} => Entering[s] # {}
    BY <1>3, <2>2, SetsMove
  <2>5. ASSUME Users'[s] # {} PROVE lifecycle'[s] # "UNOPENED"
    BY <1>1, <1>8, <2>3, <2>5 DEF UseOK, TypeOK, OwnersOK, UpPc, DownPc
  <2>6. ASSUME Users'[s] # {}, t \in Closers'[s] PROVE pc'[t] \notin {"cl_be", "cl_unopen"}
    <3>1. Users[s] \subseteq Counted[s] /\ Counted[s] \in SUBSET Threads
      BY DEF Users, Counted
    <3>2. active_ops[s] # 0
      BY <1>1, <2>3, <2>6, <3>1, Counts DEF UseOK
    <3> QED
      BY <1>1, <1>8, <2>3, <2>6, <3>2 DEF UseOK, TypeOK, DownPc
  <2>7. ASSUME t \in Openers'[s] PROVE Entering'[s] = {}
    <3>1. CASE ClaimWon(t)
      BY <1>1, <1>3, <2>2, <2>4, <3>1 DEF Entering, Straggler
    <3>2. CASE ~ClaimWon(t)
      BY <1>1, <1>8, <2>4, <2>7, <3>2 DEF UseOK, TypeOK, UpPc, DownPc
    <3> QED
      BY <3>1, <3>2
  <2> QED
    BY <1>7, <1>11, <2>5, <2>6, <2>7 DEF UseOK
<1>13. Good' = Slots
  BY <1>5, <1>9, <1>10, <1>12 DEF Good
<1> QED
  BY <1>2, <1>4, <1>13 DEF IInv

\* The zeroed pool satisfies the invariant.
LEMMA InitHolds == Init => IInv
<1> SUFFICES ASSUME Init PROVE IInv
  OBVIOUS
<1>1. TypeOK
  BY InitIsTyped
<1>2. LocalInv
  BY DEF Init, LocalInv
<1>3. ASSUME NEW s \in Slots PROVE s \in Good
  <2>1. /\ Entering[s] = {}
        /\ Users[s] = {}
        /\ Counted[s] = {}
        /\ Openers[s] = {}
        /\ Closers[s] = {}
    BY DEF Init, Entering, Users, Counted, Openers, Closers, InBackend, EnterPc, BodyPc, UpPc, DownPc
  <2>2. ~in_use[s] /\ lifecycle[s] = "UNOPENED" /\ ~close_pending[s] /\ active_ops[s] = 0
    BY DEF Init
  <2> QED
    BY <2>1, <2>2, Counts DEF Good, OwnersOK, FieldsOK, UseOK
<1> QED
  BY <1>1, <1>2, <1>3 DEF IInv, Good

\* The invariant is inductive once the application keeps the rule.
LEMMA Inductive ==
  ASSUME JoinBeforeReopen, IInv, [Next]_vars
  PROVE  IInv'
<1>1. CASE UNCHANGED vars
  <2>1. UNCHANGED <<slotVars, threadVars, Entering, Users, Counted, Openers, Closers>>
    BY <1>1 DEF vars, slotVars, threadVars, Entering, Users, Counted, Openers, Closers, InBackend
  <2>2. Good' = Good
    BY <2>1 DEF slotVars, threadVars, Good, OwnersOK, FieldsOK, UseOK
  <2>3. TypeOK' /\ LocalInv'
    BY <2>1 DEF slotVars, threadVars, IInv, TypeOK, LocalInv
  <2> QED
    BY <2>2, <2>3 DEF IInv
<1>2. ASSUME NEW t \in Threads, Call(t) \/ Step(t) \/ OpReturn(t) PROVE IInv'
  <2>1. at[t] \in Slots /\ tgt[t] \in Slots
    BY DEF IInv, TypeOK
  <2>2. Passing(t) \/ Counting(t) \/ Owning(t, tgt[t]) \/ Owning(t, at[t])
    BY <1>2 DEF Call, Step, Passing, Counting, Owning
  <2> QED
    BY <2>1, <2>2, PassingStep, CountingStep, OwningStep
<1> QED
  BY <1>1, <1>2 DEF Next

\* No thread is inside a backend op of a handle whose backend state is gone:
\* an open slot is live, and a closing one is live until its owner has drained.
THEOREM NoOpTouchesATornDownBackend ==
  ASSUME JoinBeforeReopen
  PROVE  Spec => []NoOpAfterTeardown
<1>1. IInv => NoOpAfterTeardown
  <2> SUFFICES ASSUME IInv, NEW t \in Threads, NEW s \in Slots, InBackend(t, s)
               PROVE  backend[s]
    BY DEF NoOpAfterTeardown
  <2>1. OwnersOK(s) /\ FieldsOK(s) /\ UseOK(s) /\ lifecycle[s] \in Lifecycle
    BY DEF IInv, Good, TypeOK
  <2>2. lifecycle[s] # "UNOPENED" /\ \A u \in Closers[s] : pc[u] # "cl_unopen"
    BY <2>1 DEF UseOK, Users
  <2>3. CASE lifecycle[s] = "OPEN"
    BY <2>1, <2>3 DEF FieldsOK
  <2>4. CASE lifecycle[s] = "CLOSING" /\ Closers[s] = {}
    BY <2>1, <2>4 DEF FieldsOK
  <2>5. CASE lifecycle[s] = "CLOSING" /\ Closers[s] # {}
    BY <2>1, <2>2, <2>5 DEF OwnersOK
  <2> QED
    BY <2>1, <2>2, <2>3, <2>4, <2>5 DEF Lifecycle
<1> QED
  BY <1>1, InitHolds, Inductive, PTL DEF Spec

\* A close has exactly one owner from the election to the release: a closer,
\* the close_pending flag or the loop() that consumed it.
THEOREM OneOwnerPerTeardown ==
  ASSUME JoinBeforeReopen
  PROVE  Spec => []OneTeardownOwner
<1>1. IInv => OneTeardownOwner
  <2> SUFFICES ASSUME IInv, NEW s \in Slots
               PROVE  LET n == Cardinality(Closers[s]) + (IF close_pending[s] THEN 1 ELSE 0)
                      IN  n <= 1 /\ (lifecycle[s] = "CLOSING" => n = 1)
    <3>1. \A s \in Slots :
            Closers[s] = {t \in Threads : TearsDown(t, s) \/ (tgt[t] = s /\ pc[t] = "cl_defer")}
                         \cup {t \in Threads : self_closed[t] /\ at[t] = s}
      BY DEF Closers, DownPc, TearsDown
    <3> QED
      BY <3>1, Zenon DEF OneTeardownOwner
  <2>1. OwnersOK(s) /\ FieldsOK(s) /\ Closers[s] \in SUBSET Threads
    BY DEF IInv, Good, Closers
  <2>2. close_pending[s] => lifecycle[s] = "CLOSING"
    BY <2>1 DEF FieldsOK
  <2>3. lifecycle[s] = "CLOSING" => (Closers[s] = {} <=> close_pending[s])
    BY <2>1 DEF FieldsOK
  <2>4. Cardinality(Closers[s]) \in {0, 1}
    BY <2>1, AtMostOne DEF OwnersOK
  <2>5. Cardinality(Closers[s]) = 0 <=> Closers[s] = {}
    BY <2>1, Counts
  <2> QED
    BY <2>2, <2>3, <2>4, <2>5
<1> QED
  BY <1>1, InitHolds, Inductive, PTL DEF Spec
=============================================================================
