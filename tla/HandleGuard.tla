---------------------------- MODULE HandleGuard ----------------------------
(***************************************************************************)
(* The open / op / close guard every class dispatcher of the SDK puts in   *)
(* front of a backend (src/common/alp_slot_claim.h and .c), as the MQTT    *)
(* dispatcher (src/mqtt_dispatch.c) uses it: a static pool of handles, the *)
(* lock-free slot claim, the count-then-check op guard, the draining close *)
(* and the reentrant self-close that is deferred to the loop() call whose  *)
(* callback asked for it.                                                  *)
(*                                                                         *)
(* One step is one atomic access of the C code (a compare-exchange, a      *)
(* fetch-add, a load or a store) or one call into the backend, so every    *)
(* interleaving of the threads between two atomic accesses is explored.    *)
(* A handle is a raw pointer into the pool: at and tgt name slots, and     *)
(* nothing tells one occupant of a slot from the next.                     *)
(***************************************************************************)
EXTENDS Integers, FiniteSets

CONSTANTS
  Threads,           \* threads of the application
  LoopThreads,       \* those that drive alp_mqtt_loop()
  NoThread,          \* the zero thread token
  MaxHandles,        \* CONFIG_ALP_SDK_MAX_MQTT_HANDLES
  CounterMod,        \* number of values of the active_ops counter (2^32)
  JoinBeforeReopen,  \* no call that lost to a close overlaps the slot's reuse
  CrossClose,        \* a callback may also close a handle that is not its own
  CallsWhileClosing  \* the application keeps calling a handle it is closing

ASSUME ThreadsAssumption ==
  IsFiniteSet(Threads) /\ LoopThreads \subseteq Threads /\ NoThread \notin Threads
ASSUME PoolAssumption == MaxHandles \in Nat \ {0}
ASSUME CounterAssumption == CounterMod \in Nat /\ Cardinality(Threads) < CounterMod
ASSUME DisciplineAssumption ==
  JoinBeforeReopen \in BOOLEAN /\ CrossClose \in BOOLEAN /\ CallsWhileClosing \in BOOLEAN

Slots == 1..MaxHandles

VARIABLES
  in_use, lifecycle, active_ops,       \* per slot: the fields of struct alp_mqtt
  cb_active, cb_thread, close_pending,
  backend,                             \* per slot: is the backend state live?
  pc,                                  \* per thread: the next atomic access
  at,                                  \* per thread: the handle its op works on
  tgt,                                 \* per thread: the handle it opens or closes
  in_cb,                               \* per thread: inside the loop() callback
  cb_owner, self_closed                \* per thread: the locals of alp_mqtt_loop()

slotVars == <<in_use, lifecycle, active_ops, cb_active, cb_thread, close_pending, backend>>
threadVars == <<pc, at, tgt, in_cb, cb_owner, self_closed>>
vars == <<slotVars, threadVars>>

Lifecycle == {"UNOPENED", "OPEN", "CLOSING"}

\* The program counters, grouped by the call a thread is in.
OpenPc  == {"claim", "zero", "be_open", "free_failed", "publish"}
EnterPc == {"op_add", "op_chk", "op_back"}
BodyPc  == {"cb_claim", "cb_pub", "run", "cb_clr_thread", "cb_clr_active", "take", "leave"}
ClosePc == {"cl_cas", "cl_active", "cl_thread", "cl_defer", "cl_drain", "cl_be",
            "cl_unopen", "cl_free"}
Pc == {"idle"} \cup OpenPc \cup EnterPc \cup BodyPc \cup ClosePc

Init ==
  /\ in_use = [s \in Slots |-> FALSE]
  /\ lifecycle = [s \in Slots |-> "UNOPENED"]
  /\ active_ops = [s \in Slots |-> 0]
  /\ cb_active = [s \in Slots |-> FALSE]
  /\ cb_thread = [s \in Slots |-> NoThread]
  /\ close_pending = [s \in Slots |-> FALSE]
  /\ backend = [s \in Slots |-> FALSE]
  /\ pc = [t \in Threads |-> "idle"]
  /\ at = [t \in Threads |-> 1]
  /\ tgt = [t \in Threads |-> 1]
  /\ in_cb = [t \in Threads |-> FALSE]
  /\ cb_owner = [t \in Threads |-> FALSE]
  /\ self_closed = [t \in Threads |-> FALSE]

Goto(t, l) == pc' = [pc EXCEPT ![t] = l]
Add(s) == active_ops' = [active_ops EXCEPT ![s] = (@ + 1) % CounterMod]
Sub(s) == active_ops' = [active_ops EXCEPT ![s] = (@ - 1) % CounterMod]

\* A thread about to touch the guard of slot s on behalf of a call it has begun.
Straggler(t, s) ==
  \/ pc[t] \in EnterPc /\ at[t] = s
  \/ pc[t] = "cl_cas" /\ tgt[t] = s

-----------------------------------------------------------------------------
(* alp_mqtt_open(): claim a slot, zero it, open the backend, publish OPEN. *)

StartOpen(t) ==
  /\ pc[t] = "idle"
  /\ Goto(t, "claim")
  /\ tgt' = [tgt EXCEPT ![t] = 1]
  /\ UNCHANGED <<slotVars, at, in_cb, cb_owner, self_closed>>

ClaimWon(t) ==
  /\ pc[t] = "claim"
  /\ ~in_use[tgt[t]]
  /\ JoinBeforeReopen => \A u \in Threads : ~Straggler(u, tgt[t])
  /\ in_use' = [in_use EXCEPT ![tgt[t]] = TRUE]
  /\ Goto(t, "zero")
  /\ UNCHANGED <<lifecycle, active_ops, cb_active, cb_thread, close_pending, backend,
                 at, tgt, in_cb, cb_owner, self_closed>>

\* Mutant: the claim loop runs one slot past the pool.
ClaimPastEnd(t) ==
  /\ pc[t] = "claim"
  /\ in_use[tgt[t]]
  /\ tgt' = [tgt EXCEPT ![t] = @ + 1]
  /\ UNCHANGED <<slotVars, pc, at, in_cb, cb_owner, self_closed>>

\* The slot is taken: try the next one; past the last, fail with ALP_ERR_NOMEM.
ClaimLost(t) ==
  /\ pc[t] = "claim"
  /\ in_use[tgt[t]]
  /\ IF tgt[t] < MaxHandles
       THEN tgt' = [tgt EXCEPT ![t] = @ + 1] /\ UNCHANGED pc
       ELSE Goto(t, "idle") /\ UNCHANGED tgt
  /\ UNCHANGED <<slotVars, at, in_cb, cb_owner, self_closed>>

\* memset() of every field before in_use.
Zero(t) ==
  LET s == tgt[t] IN
  /\ pc[t] = "zero"
  /\ lifecycle' = [lifecycle EXCEPT ![s] = "UNOPENED"]
  /\ active_ops' = [active_ops EXCEPT ![s] = 0]
  /\ cb_active' = [cb_active EXCEPT ![s] = FALSE]
  /\ cb_thread' = [cb_thread EXCEPT ![s] = NoThread]
  /\ close_pending' = [close_pending EXCEPT ![s] = FALSE]
  /\ Goto(t, "be_open")
  /\ UNCHANGED <<in_use, backend, at, tgt, in_cb, cb_owner, self_closed>>

BackendOpen(t) ==
  /\ pc[t] = "be_open"
  /\ \/ backend' = [backend EXCEPT ![tgt[t]] = TRUE] /\ Goto(t, "publish")
     \/ UNCHANGED backend /\ Goto(t, "free_failed")
  /\ UNCHANGED <<in_use, lifecycle, active_ops, cb_active, cb_thread, close_pending,
                 at, tgt, in_cb, cb_owner, self_closed>>

FreeFailed(t) ==
  /\ pc[t] = "free_failed"
  /\ in_use' = [in_use EXCEPT ![tgt[t]] = FALSE]
  /\ Goto(t, "idle")
  /\ UNCHANGED <<lifecycle, active_ops, cb_active, cb_thread, close_pending, backend,
                 at, tgt, in_cb, cb_owner, self_closed>>

Publish(t) ==
  /\ pc[t] = "publish"
  /\ lifecycle' = [lifecycle EXCEPT ![tgt[t]] = "OPEN"]
  /\ Goto(t, "idle")
  /\ UNCHANGED <<in_use, active_ops, cb_active, cb_thread, close_pending, backend,
                 at, tgt, in_cb, cb_owner, self_closed>>

-----------------------------------------------------------------------------
(* alp_handle_op_enter() / alp_handle_op_leave() around a backend op.  The *)
(* application calls only on handles whose close has not yet completed.    *)

StartOp(t, s) ==
  /\ pc[t] = "idle"
  /\ lifecycle[s] = "OPEN" \/ (CallsWhileClosing /\ lifecycle[s] = "CLOSING")
  /\ Goto(t, "op_add")
  /\ at' = [at EXCEPT ![t] = s]
  /\ UNCHANGED <<slotVars, tgt, in_cb, cb_owner, self_closed>>

OpAdd(t) ==
  /\ pc[t] = "op_add"
  /\ Add(at[t])
  /\ Goto(t, "op_chk")
  /\ UNCHANGED <<in_use, lifecycle, cb_active, cb_thread, close_pending, backend,
                 at, tgt, in_cb, cb_owner, self_closed>>

OpCheck(t) ==
  /\ pc[t] = "op_chk"
  /\ Goto(t, IF lifecycle[at[t]] # "OPEN" THEN "op_back"
             ELSE IF t \in LoopThreads THEN "cb_claim" ELSE "run")
  /\ UNCHANGED <<slotVars, at, tgt, in_cb, cb_owner, self_closed>>

OpBackOut(t) ==
  /\ pc[t] = "op_back"
  /\ Sub(at[t])
  /\ Goto(t, "idle")
  /\ UNCHANGED <<in_use, lifecycle, cb_active, cb_thread, close_pending, backend,
                 at, tgt, in_cb, cb_owner, self_closed>>

\* The backend op returns: ops->publish(), ops->connect() or ops->loop().
OpReturn(t) ==
  /\ pc[t] = "run"
  /\ Goto(t, IF t \notin LoopThreads THEN "leave"
             ELSE IF cb_owner[t] THEN "cb_clr_thread" ELSE "take")
  /\ UNCHANGED <<slotVars, at, tgt, in_cb, cb_owner, self_closed>>

\* op_leave; a loop() that took a deferred close goes on to drain and tear down.
OpLeave(t) ==
  /\ pc[t] = "leave"
  /\ Sub(at[t])
  /\ IF self_closed[t]
       THEN Goto(t, "cl_drain") /\ tgt' = [tgt EXCEPT ![t] = at[t]]
       ELSE Goto(t, "idle") /\ UNCHANGED tgt
  /\ cb_owner' = [cb_owner EXCEPT ![t] = FALSE]
  /\ self_closed' = [self_closed EXCEPT ![t] = FALSE]
  /\ UNCHANGED <<in_use, lifecycle, cb_active, cb_thread, close_pending, backend, at, in_cb>>

-----------------------------------------------------------------------------
(* alp_mqtt_loop(): the callback marker and the deferred close.            *)

CbEnter(t) ==
  LET s == at[t] IN
  /\ pc[t] = "cb_claim"
  /\ cb_owner' = [cb_owner EXCEPT ![t] = ~cb_active[s]]
  /\ cb_active' = [cb_active EXCEPT ![s] = TRUE]
  /\ Goto(t, IF cb_active[s] THEN "run" ELSE "cb_pub")
  /\ UNCHANGED <<in_use, lifecycle, active_ops, cb_thread, close_pending, backend,
                 at, tgt, in_cb, self_closed>>

CbPublish(t) ==
  /\ pc[t] = "cb_pub"
  /\ cb_thread' = [cb_thread EXCEPT ![at[t]] = t]
  /\ Goto(t, "run")
  /\ UNCHANGED <<in_use, lifecycle, active_ops, cb_active, close_pending, backend,
                 at, tgt, in_cb, cb_owner, self_closed>>

\* ops->loop() delivers a message and the callback calls alp_mqtt_close().
CallbackCloses(t, s) ==
  /\ pc[t] = "run" /\ t \in LoopThreads
  /\ s = at[t] \/ (CrossClose /\ lifecycle[s] # "UNOPENED")
  /\ in_cb' = [in_cb EXCEPT ![t] = TRUE]
  /\ tgt' = [tgt EXCEPT ![t] = s]
  /\ Goto(t, "cl_cas")
  /\ UNCHANGED <<slotVars, at, cb_owner, self_closed>>

CbLeaveThread(t) ==
  /\ pc[t] = "cb_clr_thread"
  /\ cb_thread' = [cb_thread EXCEPT ![at[t]] = NoThread]
  /\ Goto(t, "cb_clr_active")
  /\ UNCHANGED <<in_use, lifecycle, active_ops, cb_active, close_pending, backend,
                 at, tgt, in_cb, cb_owner, self_closed>>

CbLeaveActive(t) ==
  /\ pc[t] = "cb_clr_active"
  /\ cb_active' = [cb_active EXCEPT ![at[t]] = FALSE]
  /\ Goto(t, "take")
  /\ UNCHANGED <<in_use, lifecycle, active_ops, cb_thread, close_pending, backend,
                 at, tgt, in_cb, cb_owner, self_closed>>

TakeDeferredClose(t) ==
  LET s == at[t] IN
  /\ pc[t] = "take"
  /\ self_closed' = [self_closed EXCEPT ![t] = close_pending[s]]
  /\ close_pending' = [close_pending EXCEPT ![s] = FALSE]
  /\ Goto(t, "leave")
  /\ UNCHANGED <<in_use, lifecycle, active_ops, cb_active, cb_thread, backend,
                 at, tgt, in_cb, cb_owner>>

-----------------------------------------------------------------------------
(* alp_mqtt_close(): elect one closer, defer or drain, tear down, release. *)

\* The call returns: into the callback that made it, or to the application.
Return(t) ==
  /\ Goto(t, IF in_cb[t] THEN "run" ELSE "idle")
  /\ in_cb' = [in_cb EXCEPT ![t] = FALSE]

StartClose(t, s) ==
  /\ pc[t] = "idle"
  /\ lifecycle[s] # "UNOPENED"
  /\ Goto(t, "cl_cas")
  /\ tgt' = [tgt EXCEPT ![t] = s]
  /\ UNCHANGED <<slotVars, at, in_cb, cb_owner, self_closed>>

\* Mutant: CLOSING is stored instead of compare-exchanged.
CloseElectStores(t) ==
  /\ pc[t] = "cl_cas"
  /\ lifecycle' = [lifecycle EXCEPT ![tgt[t]] = "CLOSING"]
  /\ Goto(t, "cl_active")
  /\ UNCHANGED <<in_use, active_ops, cb_active, cb_thread, close_pending, backend,
                 at, tgt, in_cb, cb_owner, self_closed>>

CloseElect(t) ==
  LET s == tgt[t] IN
  /\ pc[t] = "cl_cas"
  /\ IF lifecycle[s] = "OPEN"
       THEN /\ lifecycle' = [lifecycle EXCEPT ![s] = "CLOSING"]
            /\ Goto(t, "cl_active")
            /\ UNCHANGED in_cb
       ELSE Return(t) /\ UNCHANGED lifecycle
  /\ UNCHANGED <<in_use, active_ops, cb_active, cb_thread, close_pending, backend,
                 at, tgt, cb_owner, self_closed>>

\* Mutant: close() from its own callback drains as well, and waits for itself.
CloseNeverDefers(t) ==
  /\ pc[t] = "cl_active"
  /\ Goto(t, "cl_drain")
  /\ UNCHANGED <<slotVars, at, tgt, in_cb, cb_owner, self_closed>>

CloseReadActive(t) ==
  /\ pc[t] = "cl_active"
  /\ Goto(t, IF cb_active[tgt[t]] THEN "cl_thread" ELSE "cl_drain")
  /\ UNCHANGED <<slotVars, at, tgt, in_cb, cb_owner, self_closed>>

CloseReadThread(t) ==
  /\ pc[t] = "cl_thread"
  /\ Goto(t, IF cb_thread[tgt[t]] = t THEN "cl_defer" ELSE "cl_drain")
  /\ UNCHANGED <<slotVars, at, tgt, in_cb, cb_owner, self_closed>>

CloseDefer(t) ==
  /\ pc[t] = "cl_defer"
  /\ close_pending' = [close_pending EXCEPT ![tgt[t]] = TRUE]
  /\ Return(t)
  /\ UNCHANGED <<in_use, lifecycle, active_ops, cb_active, cb_thread, backend,
                 at, tgt, cb_owner, self_closed>>

\* Mutant: close() does not wait for the ops in flight.
DrainSkipped(t) ==
  /\ pc[t] = "cl_drain"
  /\ Goto(t, "cl_be")
  /\ UNCHANGED <<slotVars, at, tgt, in_cb, cb_owner, self_closed>>

\* One poll of the sleep-poll drain that finds the count at zero.
Drain(t) ==
  /\ pc[t] = "cl_drain"
  /\ active_ops[tgt[t]] = 0
  /\ Goto(t, "cl_be")
  /\ UNCHANGED <<slotVars, at, tgt, in_cb, cb_owner, self_closed>>

BackendClose(t) ==
  /\ pc[t] = "cl_be"
  /\ backend' = [backend EXCEPT ![tgt[t]] = FALSE]
  /\ Goto(t, "cl_unopen")
  /\ UNCHANGED <<in_use, lifecycle, active_ops, cb_active, cb_thread, close_pending,
                 at, tgt, in_cb, cb_owner, self_closed>>

CloseUnopen(t) ==
  /\ pc[t] = "cl_unopen"
  /\ lifecycle' = [lifecycle EXCEPT ![tgt[t]] = "UNOPENED"]
  /\ Goto(t, "cl_free")
  /\ UNCHANGED <<in_use, active_ops, cb_active, cb_thread, close_pending, backend,
                 at, tgt, in_cb, cb_owner, self_closed>>

Release(t) ==
  /\ pc[t] = "cl_free"
  /\ in_use' = [in_use EXCEPT ![tgt[t]] = FALSE]
  /\ Return(t)
  /\ UNCHANGED <<lifecycle, active_ops, cb_active, cb_thread, close_pending, backend,
                 at, tgt, cb_owner, self_closed>>

-----------------------------------------------------------------------------
\* What the application decides.
Call(t) ==
  \/ StartOpen(t)
  \/ \E s \in Slots : StartOp(t, s) \/ StartClose(t, s) \/ CallbackCloses(t, s)

\* What the SDK does once called.
Step(t) ==
  \/ ClaimWon(t) \/ ClaimLost(t) \/ Zero(t) \/ BackendOpen(t) \/ FreeFailed(t) \/ Publish(t)
  \/ OpAdd(t) \/ OpCheck(t) \/ OpBackOut(t) \/ OpLeave(t)
  \/ CbEnter(t) \/ CbPublish(t) \/ CbLeaveThread(t) \/ CbLeaveActive(t)
  \/ TakeDeferredClose(t)
  \/ CloseElect(t) \/ CloseReadActive(t) \/ CloseReadThread(t) \/ CloseDefer(t)
  \/ Drain(t) \/ BackendClose(t) \/ CloseUnopen(t) \/ Release(t)

Next == \E t \in Threads : Call(t) \/ Step(t) \/ OpReturn(t)

Spec == Init /\ [][Next]_vars

(***************************************************************************)
(* Every thread keeps being scheduled (the drain sleeps, so a closer never *)
(* starves the op it waits for) and a backend op returns however often its *)
(* callback runs (timeout_ms).  Nothing obliges the application to call.   *)
(***************************************************************************)
Fairness ==
  \A t \in Threads : WF_vars(Step(t)) /\ SF_vars(OpReturn(t))

FairSpec == Spec /\ Fairness

-----------------------------------------------------------------------------
\* t was told the handle is open and may use its backend state.
InBackend(t, s) == at[t] = s /\ (pc[t] \in BodyPc \/ in_cb[t])

\* t has been elected to tear slot s down.
TearsDown(t, s) ==
  tgt[t] = s /\ pc[t] \in {"cl_active", "cl_thread", "cl_drain", "cl_be", "cl_unopen", "cl_free"}

TypeOK ==
  /\ in_use \in [Slots -> BOOLEAN]
  /\ lifecycle \in [Slots -> Lifecycle]
  /\ active_ops \in [Slots -> 0..(CounterMod - 1)]
  /\ cb_active \in [Slots -> BOOLEAN]
  /\ cb_thread \in [Slots -> Threads \cup {NoThread}]
  /\ close_pending \in [Slots -> BOOLEAN]
  /\ backend \in [Slots -> BOOLEAN]
  /\ pc \in [Threads -> Pc]
  /\ at \in [Threads -> Slots]
  /\ tgt \in [Threads -> Slots]
  /\ in_cb \in [Threads -> BOOLEAN]
  /\ cb_owner \in [Threads -> BOOLEAN]
  /\ self_closed \in [Threads -> BOOLEAN]

\* No thread is inside a backend op of a handle whose backend state is gone:
\* close() tears down only after every op that saw OPEN has left.
NoOpAfterTeardown ==
  \A t \in Threads, s \in Slots : InBackend(t, s) => backend[s]

\* A close is owned by one party only: the closer that won the election, the
\* close_pending flag it left behind, or the loop() that consumed that flag --
\* and some party owns it as long as the slot is closing.
OneTeardownOwner ==
  \A s \in Slots :
    LET owners == {t \in Threads : TearsDown(t, s) \/ (tgt[t] = s /\ pc[t] = "cl_defer")}
                  \cup {t \in Threads : self_closed[t] /\ at[t] = s}
        n == Cardinality(owners) + (IF close_pending[s] THEN 1 ELSE 0)
    IN  /\ n <= 1
        /\ lifecycle[s] = "CLOSING" => n = 1

\* A slot that started closing -- by a plain close or by a deferred
\* self-close -- comes back to the pool.
ClosingSlotIsFreed ==
  \A s \in Slots : lifecycle[s] = "CLOSING" ~> ~in_use[s]
=============================================================================
