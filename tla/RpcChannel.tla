----------------------------- MODULE RpcChannel -----------------------------
(***************************************************************************)
(* An RPC channel: the dispatcher (src/rpc_dispatch.c) over the Linux      *)
(* rpmsg chardev backend (src/backends/rpc/yocto_drv.c).  Application      *)
(* threads open, call, send, subscribe and close; every open channel has   *)
(* an rx worker that polls the endpoint, hands replies to the pending call *)
(* and runs subscriber and link callbacks, from which the application may  *)
(* close the very channel the worker serves (the deferred self-close).     *)
(*                                                                         *)
(* chan_word packs lifecycle and op count into one word that is only       *)
(* changed by compare-exchange, so testing the one and changing the other  *)
(* is one step here.  A critical section of call_mutex or sub_mutex is one *)
(* step; tx_mutex is held across a whole call and is a field of its own.   *)
(* Calls all use one method name (replies match on the name only) and peer *)
(* events another.  A slot is opened again under the same name, and so at  *)
(* the same endpoint address: what the peer still owes reaches its next    *)
(* channel, unless it is sent while there is none.                         *)
(***************************************************************************)
EXTENDS Integers, FiniteSets

CONSTANTS
  Threads,     \* application threads
  NoThread,
  MaxHandles,  \* CONFIG_ALP_SDK_MAX_RPC_HANDLES
  MaxCalls,    \* bound on the requests written per slot
  Ops,         \* the ops the application uses
  ClockFails   \* clock_gettime() may fail when a call computes its deadline

ASSUME ThreadsAssumption == IsFiniteSet(Threads) /\ NoThread \notin Threads
ASSUME BoundsAssumption == MaxHandles \in Nat \ {0} /\ MaxCalls \in Nat \ {0}
AllOps == {"subscribe", "unsubscribe", "set_link_callback", "send", "call"}
ASSUME OpsAssumption == Ops \subseteq AllOps
ASSUME ClockAssumption == ClockFails \in BOOLEAN

Slots == 1..MaxHandles
Calls == 1..MaxCalls       \* a call, named by the request it wrote
None == 0                  \* no call
Event == MaxCalls + 1      \* an inbound frame that is no reply

VARIABLES
  h,       \* per slot: struct alp_rpc_channel
  ch,      \* per slot: struct rpc_be
  rx,      \* per slot: where the rx worker is
  frame,   \* per slot: the frame the worker has read
  owed,    \* per slot: requests the peer has received and not answered
  issued,  \* per slot: calls staged
  astray,  \* per slot: calls whose reply nothing keeps from a later call
  pc,      \* per thread: its next step
  op,      \* per thread: the op it is in, or "none"
  at,      \* per thread: the handle it uses
  tok      \* per thread: its call

vars == <<h, ch, rx, frame, owed, issued, astray, pc, op, at, tok>>
peerVars == <<owed, issued, astray>>
threadVars == <<pc, op, at, tok>>

FreeHandle == [in_use |-> FALSE, lc |-> "UNOPENED", cnt |-> 0, link |-> "DOWN", link_cb |-> FALSE]
NoBlock == [live |-> FALSE, closing |-> FALSE, from_worker |-> FALSE, rx_run |-> FALSE,
            pending |-> None, result |-> None, poisoned |-> FALSE, tx |-> NoThread, sub |-> FALSE]

Init ==
  /\ h = [s \in Slots |-> FreeHandle]
  /\ ch = [s \in Slots |-> NoBlock]
  /\ rx = [s \in Slots |-> "none"]
  /\ frame = [s \in Slots |-> None]
  /\ owed = [s \in Slots |-> {}]
  /\ issued = [s \in Slots |-> 0]
  /\ astray = [s \in Slots |-> {}]
  /\ pc = [t \in Threads |-> "idle"]
  /\ op = [t \in Threads |-> "none"]
  /\ at = [t \in Threads |-> 1]
  /\ tok = [t \in Threads |-> None]

Goto(t, l) == pc' = [pc EXCEPT ![t] = l]
RxGoto(s, l) == rx' = [rx EXCEPT ![s] = l]

-----------------------------------------------------------------------------
(* alp_rpc_open() and y_open().                                            *)

\* Claim a free slot and zero it; nobody else reads a slot that is not OPEN.
Claim(t, s) ==
  /\ pc[t] = "idle" /\ ~h[s].in_use
  /\ h' = [h EXCEPT ![s] = [FreeHandle EXCEPT !.in_use = TRUE]]
  /\ at' = [at EXCEPT ![t] = s]
  /\ Goto(t, "bind")
  /\ UNCHANGED <<ch, rx, frame, peerVars, op, tok>>

\* Set up the endpoint and report the link UP, before the worker exists.
Bind(t) ==
  /\ pc[t] = "bind"
  /\ \/ h' = [h EXCEPT ![at[t]].link = "UP"] /\ Goto(t, "spawn")
     \/ UNCHANGED h /\ Goto(t, "unclaim")
  /\ UNCHANGED <<ch, rx, frame, peerVars, op, at, tok>>

Spawn(t) ==
  LET s == at[t] IN
  /\ pc[t] = "spawn"
  /\ \/ /\ ch' = [ch EXCEPT ![s] = [NoBlock EXCEPT !.live = TRUE, !.rx_run = TRUE]]
        /\ RxGoto(s, "loop")
        /\ Goto(t, "publish")
     \/ Goto(t, "unclaim") /\ UNCHANGED <<ch, rx>>
  /\ UNCHANGED <<h, frame, peerVars, op, at, tok>>

\* Mutant: the link is reported UP once the worker is already running.
PublishReportsUp(t) ==
  /\ pc[t] = "publish"
  /\ h' = [h EXCEPT ![at[t]].lc = "OPEN", ![at[t]].cnt = 0, ![at[t]].link = "UP"]
  /\ Goto(t, "idle")
  /\ UNCHANGED <<ch, rx, frame, peerVars, op, at, tok>>

Publish(t) ==
  /\ pc[t] = "publish"
  /\ h' = [h EXCEPT ![at[t]].lc = "OPEN", ![at[t]].cnt = 0]
  /\ Goto(t, "idle")
  /\ UNCHANGED <<ch, rx, frame, peerVars, op, at, tok>>

Unclaim(t) ==
  /\ pc[t] = "unclaim"
  /\ h' = [h EXCEPT ![at[t]].in_use = FALSE]
  /\ Goto(t, "idle")
  /\ UNCHANGED <<ch, rx, frame, peerVars, op, at, tok>>

-----------------------------------------------------------------------------
(* The ops.  The application starts none on a handle whose close has       *)
(* completed, but a started one may still be on its way in when it does.   *)

\* Calls on slot s that have not been staged yet.
Unstaged(s) == {t \in Threads : at[t] = s /\ op[t] = "call" /\ pc[t] \in {"enter", "body", "tx"}}

StartOp(t, s, o) ==
  /\ pc[t] = "idle" /\ h[s].lc # "UNOPENED"
  /\ o = "call" => issued[s] + Cardinality(Unstaged(s)) < MaxCalls
  /\ at' = [at EXCEPT ![t] = s]
  /\ op' = [op EXCEPT ![t] = o]
  /\ Goto(t, "enter")
  /\ UNCHANGED <<h, ch, rx, frame, peerVars, tok>>

\* _rpc_op_enter(): ALP_ERR_NOT_READY unless OPEN.
Enter(t) ==
  LET s == at[t] IN
  /\ pc[t] = "enter"
  /\ IF h[s].lc = "OPEN"
       THEN h' = [h EXCEPT ![s].cnt = @ + 1] /\ Goto(t, "body") /\ UNCHANGED op
       ELSE Goto(t, "idle") /\ op' = [op EXCEPT ![t] = "none"] /\ UNCHANGED h
  /\ UNCHANGED <<ch, rx, frame, peerVars, at, tok>>

\* y_subscribe() / y_unsubscribe() under sub_mutex, alp_rpc_set_link_callback().
Register(t) ==
  LET s == at[t] IN
  /\ pc[t] = "body" /\ op[t] \notin {"send", "call"}
  /\ \/ /\ op[t] = "set_link_callback"
        /\ h' = [h EXCEPT ![s].link_cb = TRUE] /\ UNCHANGED ch
     \/ /\ op[t] \in {"subscribe", "unsubscribe"}
        /\ ch' = [ch EXCEPT ![s].sub = (op[t] = "subscribe")] /\ UNCHANGED h
  /\ Goto(t, "leave")
  /\ UNCHANGED <<rx, frame, peerVars, op, at, tok>>

\* alp_rpc_send() / alp_rpc_call(): the LINK_LOST gate at entry.
LinkGate(t) ==
  /\ pc[t] = "body" /\ op[t] \in {"send", "call"}
  /\ Goto(t, IF h[at[t]].link = "LOST" THEN "leave" ELSE "tx")
  /\ UNCHANGED <<h, ch, rx, frame, peerVars, op, at, tok>>

\* y_send(): one write under tx_mutex, whatever comes of it.
Send(t) ==
  /\ pc[t] = "tx" /\ op[t] = "send"
  /\ ch[at[t]].tx = NoThread
  /\ Goto(t, "leave")
  /\ UNCHANGED <<h, ch, rx, frame, peerVars, op, at, tok>>

\* y_call(): take tx_mutex, then check and stage in one call_mutex section.
Stage(t) ==
  LET s == at[t] IN
  /\ pc[t] = "tx" /\ op[t] = "call"
  /\ ch[s].tx = NoThread
  /\ IF ch[s].closing \/ ch[s].poisoned
       THEN Goto(t, "leave") /\ UNCHANGED <<ch, issued, tok>>
       ELSE /\ issued' = [issued EXCEPT ![s] = @ + 1]
            /\ tok' = [tok EXCEPT ![t] = issued[s] + 1]
            /\ ch' = [ch EXCEPT ![s].tx = t, ![s].pending = issued[s] + 1, ![s].result = None]
            /\ Goto(t, "write")
  /\ UNCHANGED <<h, rx, frame, owed, astray, op, at>>

\* Write the request; on failure withdraw the staged call.
Write(t) ==
  LET s == at[t] IN
  /\ pc[t] = "write"
  /\ \/ owed' = [owed EXCEPT ![s] = @ \cup {tok[t]}] /\ Goto(t, "wait") /\ UNCHANGED ch
     \/ ch' = [ch EXCEPT ![s].pending = None] /\ Goto(t, "unlock") /\ UNCHANGED owed
  /\ UNCHANGED <<h, rx, frame, issued, astray, op, at, tok>>

\* The wait ends: the channel is closing, or the reply has been delivered.
WakeUp(t) ==
  LET s == at[t] IN
  /\ pc[t] = "wait"
  /\ ch[s].closing \/ ch[s].pending = None
  /\ ch' = [ch EXCEPT ![s].pending = None]
  /\ Goto(t, "unlock")
  /\ UNCHANGED <<h, rx, frame, peerVars, op, at, tok>>

\* Mutant: a timed-out call leaves the channel usable.
TimeoutUnpoisoned(t) ==
  /\ pc[t] = "wait"
  /\ ~ch[at[t]].closing /\ ch[at[t]].pending # None
  /\ ch' = [ch EXCEPT ![at[t]].pending = None]
  /\ Goto(t, "unlock")
  /\ UNCHANGED <<h, rx, frame, peerVars, op, at, tok>>

\* timeout_ms elapses first: the channel is poisoned for later calls.
Timeout(t) ==
  LET s == at[t] IN
  /\ pc[t] = "wait"
  /\ ~ch[s].closing /\ ch[s].pending # None
  /\ ch' = [ch EXCEPT ![s].pending = None, ![s].poisoned = TRUE]
  /\ Goto(t, "unlock")
  /\ UNCHANGED <<h, rx, frame, peerVars, op, at, tok>>

\* absolute_deadline() fails: the call gives up before it has waited, and does
\* not poison the channel.
NoDeadline(t) ==
  LET s == at[t] IN
  /\ ClockFails /\ pc[t] = "wait"
  /\ ch' = [ch EXCEPT ![s].pending = None]
  /\ astray' = [astray EXCEPT ![s] = @ \cup {tok[t]}]
  /\ Goto(t, "unlock")
  /\ UNCHANGED <<h, rx, frame, owed, issued, op, at, tok>>

UnlockTx(t) ==
  /\ pc[t] = "unlock"
  /\ ch' = [ch EXCEPT ![at[t]].tx = NoThread]
  /\ tok' = [tok EXCEPT ![t] = None]
  /\ Goto(t, "leave")
  /\ UNCHANGED <<h, rx, frame, peerVars, op, at>>

\* _rpc_op_leave()
Leave(t) ==
  /\ pc[t] = "leave"
  /\ h' = [h EXCEPT ![at[t]].cnt = @ - 1]
  /\ op' = [op EXCEPT ![t] = "none"]
  /\ Goto(t, "idle")
  /\ UNCHANGED <<ch, rx, frame, peerVars, at, tok>>

-----------------------------------------------------------------------------
(* alp_rpc_close(), on an application thread.                              *)

\* Mutant: closing is not sticky; only a call pending right now is cancelled.
CancelOnce(s, worker) ==
  ch' = [ch EXCEPT ![s].from_worker = worker, ![s].pending = None,
                   ![s].rx_run = @ /\ ~worker]

\* y_shutdown()'s call_mutex section: sticky closing, cancel the pending call.
Cancel(s, worker) ==
  ch' = [ch EXCEPT ![s].closing = TRUE, ![s].from_worker = worker, ![s].pending = None,
                   ![s].rx_run = @ /\ ~worker]

StartClose(t, s) ==
  /\ pc[t] = "idle" /\ h[s].lc # "UNOPENED"
  /\ at' = [at EXCEPT ![t] = s]
  /\ Goto(t, "elect")
  /\ UNCHANGED <<h, ch, rx, frame, peerVars, op, tok>>

\* Mutant: CLOSING is stored instead of compare-exchanged.
ElectStores(t) ==
  /\ pc[t] = "elect"
  /\ h' = [h EXCEPT ![at[t]].lc = "CLOSING"]
  /\ Goto(t, "shut")
  /\ UNCHANGED <<ch, rx, frame, peerVars, op, at, tok>>

\* _rpc_begin_close(): the loser's close is a no-op.
Elect(t) ==
  /\ pc[t] = "elect"
  /\ IF h[at[t]].lc = "OPEN"
       THEN h' = [h EXCEPT ![at[t]].lc = "CLOSING"] /\ Goto(t, "shut")
       ELSE Goto(t, "idle") /\ UNCHANGED h
  /\ UNCHANGED <<ch, rx, frame, peerVars, op, at, tok>>

Shut(t) ==
  /\ pc[t] = "shut"
  /\ Cancel(at[t], FALSE)
  /\ Goto(t, "wake")
  /\ UNCHANGED <<h, rx, frame, peerVars, op, at, tok>>

\* Mutant: the worker is not told to stop.
WakeRxSkipped(t) ==
  /\ pc[t] = "wake"
  /\ Goto(t, "join")
  /\ UNCHANGED <<h, ch, rx, frame, peerVars, op, at, tok>>

\* rx_run = 0 and a byte into the wake pipe.
WakeRx(t) ==
  /\ pc[t] = "wake"
  /\ ch' = [ch EXCEPT ![at[t]].rx_run = FALSE]
  /\ Goto(t, "join")
  /\ UNCHANGED <<h, rx, frame, peerVars, op, at, tok>>

Join(t) ==
  /\ pc[t] = "join" /\ rx[at[t]] = "done"
  /\ RxGoto(at[t], "none")
  /\ Goto(t, "drain")
  /\ UNCHANGED <<h, ch, frame, peerVars, op, at, tok>>

-----------------------------------------------------------------------------
(* _rpc_finalize(): drain, destroy, UNOPENED, release.                     *)

\* Mutant: the drain does not wait for the ops in flight.
DrainedAtOnce(s) == TRUE

Drained(s) == h[s].cnt = 0
Unopen(s) == h' = [h EXCEPT ![s].lc = "UNOPENED"] /\ UNCHANGED <<ch, peerVars>>
Release(s) == h' = [h EXCEPT ![s].in_use = FALSE] /\ UNCHANGED <<ch, peerVars>>

\* y_destroy(): the block is freed, and call_poisoned with it.
Destroy(s) ==
  /\ ch' = [ch EXCEPT ![s] = NoBlock]
  /\ astray' = [astray EXCEPT ![s] = @ \cup owed[s]]
  /\ UNCHANGED <<h, owed, issued>>

\* On the closing application thread ...
Finalize(t) ==
  LET s == at[t] IN
  /\ \/ pc[t] = "drain" /\ Drained(s) /\ Goto(t, "destroy") /\ UNCHANGED <<h, ch, peerVars>>
     \/ pc[t] = "destroy" /\ Destroy(s) /\ Goto(t, "unopen")
     \/ pc[t] = "unopen" /\ Unopen(s) /\ Goto(t, "free")
     \/ pc[t] = "free" /\ Release(s) /\ Goto(t, "idle")
  /\ UNCHANGED <<rx, frame, op, at, tok>>

\* ... or, for a deferred self-close, on the detached rx worker.
RxFinalize(s) ==
  /\ \/ rx[s] = "drain" /\ Drained(s) /\ RxGoto(s, "destroy") /\ UNCHANGED <<h, ch, peerVars>>
     \/ rx[s] = "destroy" /\ Destroy(s) /\ RxGoto(s, "unopen")
     \/ rx[s] = "unopen" /\ Unopen(s) /\ RxGoto(s, "free")
     \/ rx[s] = "free" /\ Release(s) /\ RxGoto(s, "none")
  /\ UNCHANGED <<frame, threadVars>>

-----------------------------------------------------------------------------
(* rpc_rx_main().                                                          *)

\* while (rx_run)
RxLoop(s) ==
  /\ rx[s] = "loop"
  /\ RxGoto(s, IF ch[s].rx_run THEN "poll" ELSE "epilogue")
  /\ UNCHANGED <<h, ch, frame, peerVars, threadVars>>

\* The wake pipe is readable.
RxWoken(s) ==
  /\ rx[s] = "poll" /\ ~ch[s].rx_run
  /\ RxGoto(s, "epilogue")
  /\ UNCHANGED <<h, ch, frame, peerVars, threadVars>>

\* A frame is read: a reply the peer owes, or an event.
RxRead(s, f) ==
  /\ rx[s] = "poll" /\ ch[s].rx_run
  /\ f \in owed[s] \cup {Event}
  /\ owed' = [owed EXCEPT ![s] = @ \ {f}]
  /\ frame' = [frame EXCEPT ![s] = f]
  /\ RxGoto(s, "route")
  /\ UNCHANGED <<h, ch, issued, astray, threadVars>>

\* A reply goes to whichever call is pending; any other frame is looked up.  A
\* call that is answered by a reply astray leaves its own astray.
Route(s) ==
  /\ rx[s] = "route"
  /\ IF frame[s] # Event /\ ch[s].pending # None
       THEN /\ ch' = [ch EXCEPT ![s].pending = None, ![s].result = frame[s]]
            /\ astray' = [astray EXCEPT ![s] = IF frame[s] \in @ THEN @ \cup {ch[s].pending} ELSE @]
            /\ frame' = [frame EXCEPT ![s] = None]
            /\ RxGoto(s, "loop")
       ELSE RxGoto(s, "lookup") /\ UNCHANGED <<ch, frame, astray>>
  /\ UNCHANGED <<h, owed, issued, threadVars>>

\* The callback is copied under sub_mutex and run after it is released.
Lookup(s) ==
  /\ rx[s] = "lookup"
  /\ RxGoto(s, IF frame[s] = Event /\ ch[s].sub THEN "cb" ELSE "loop")
  /\ frame' = [frame EXCEPT ![s] = None]
  /\ UNCHANGED <<h, ch, peerVars, threadVars>>

CallbackReturns(s) ==
  /\ \/ rx[s] = "cb" /\ RxGoto(s, "loop")
     \/ rx[s] = "link_cb" /\ RxGoto(s, "epilogue")
  /\ UNCHANGED <<h, ch, frame, peerVars, threadVars>>

\* poll() or read() fails: the endpoint is gone.
RxFails(s) ==
  /\ rx[s] = "poll"
  /\ RxGoto(s, "lost")
  /\ UNCHANGED <<h, ch, frame, peerVars, threadVars>>

\* alp_rpc_notify_link(LOST): only an UP link becomes LOST.
NotifyLost(s) ==
  /\ rx[s] = "lost"
  /\ IF h[s].link = "UP"
       THEN /\ h' = [h EXCEPT ![s].link = "LOST"]
            /\ RxGoto(s, IF h[s].link_cb THEN "link_cb" ELSE "epilogue")
       ELSE RxGoto(s, "epilogue") /\ UNCHANGED h
  /\ UNCHANGED <<ch, frame, peerVars, threadVars>>

\* A subscriber or link callback closes its own channel and wins the election.
SelfClose(s) ==
  /\ rx[s] \in {"cb", "link_cb"} /\ h[s].lc = "OPEN"
  /\ h' = [h EXCEPT ![s].lc = "CLOSING"]
  /\ RxGoto(s, IF rx[s] = "cb" THEN "cb_shut" ELSE "link_shut")
  /\ UNCHANGED <<ch, frame, peerVars, threadVars>>

\* y_shutdown() on the worker: cancel, stop, return DEFERRED into the callback.
SelfShut(s) ==
  /\ rx[s] \in {"cb_shut", "link_shut"}
  /\ Cancel(s, TRUE)
  /\ RxGoto(s, IF rx[s] = "cb_shut" THEN "cb" ELSE "link_cb")
  /\ UNCHANGED <<h, frame, peerVars, threadVars>>

\* The worker detaches itself and finishes a deferred close, or just ends.
Epilogue(s) ==
  /\ rx[s] = "epilogue"
  /\ RxGoto(s, IF ch[s].from_worker THEN "drain" ELSE "done")
  /\ UNCHANGED <<h, ch, frame, peerVars, threadVars>>

-----------------------------------------------------------------------------
\* Decisions of the application, the peer and the clock.
Env(t) ==
  \/ \E s \in Slots :
       Claim(t, s) \/ StartClose(t, s) \/ \E o \in Ops : StartOp(t, s, o)
  \/ Timeout(t) \/ NoDeadline(t)
RxEnv(s) == RxFails(s) \/ SelfClose(s) \/ \E f \in Calls \cup {Event} : RxRead(s, f)

Step(t) ==
  \/ Bind(t) \/ Spawn(t) \/ Publish(t) \/ Unclaim(t)
  \/ Enter(t) \/ Register(t) \/ LinkGate(t) \/ Send(t) \/ Stage(t) \/ Write(t)
  \/ WakeUp(t) \/ UnlockTx(t) \/ Leave(t)
  \/ Elect(t) \/ Shut(t) \/ WakeRx(t) \/ Join(t) \/ Finalize(t)

RxStep(s) ==
  \/ RxLoop(s) \/ RxWoken(s) \/ Route(s) \/ Lookup(s) \/ CallbackReturns(s)
  \/ NotifyLost(s) \/ SelfShut(s) \/ Epilogue(s) \/ RxFinalize(s)

Next ==
  \/ \E t \in Threads : Env(t) \/ Step(t)
  \/ \E s \in Slots : RxEnv(s) \/ RxStep(s)

Spec == Init /\ [][Next]_vars

(***************************************************************************)
(* Threads are scheduled and callbacks return.  Neither the peer (it need  *)
(* never reply) nor the clock (an unbounded call never times out) helps.   *)
(***************************************************************************)
FairSpec ==
  /\ Spec
  /\ \A t \in Threads : WF_vars(Step(t))
  /\ \A s \in Slots : WF_vars(RxStep(s))

-----------------------------------------------------------------------------
\* t is inside an op of slot s, between its op_enter and its op_leave.
Counted(t, s) == at[t] = s /\ pc[t] \in {"body", "tx", "write", "wait", "unlock", "leave"}

\* t has won the close of slot s and has not finished it.
Closes(t, s) ==
  at[t] = s /\ pc[t] \in {"shut", "wake", "join", "drain", "destroy", "unopen", "free"}

\* The rx worker of slot s has won the close, or has a deferred one to finish.
RxCloses(s) ==
  \/ rx[s] \in {"cb_shut", "link_shut", "drain", "destroy", "unopen", "free"}
  \/ rx[s] \in {"loop", "cb", "link_cb", "epilogue"} /\ ch[s].from_worker

\* Nobody works on a freed backend block: neither an op in flight nor the rx
\* worker, on which y_destroy() may be running (rpc_be_teardown).
NoUseAfterFree ==
  \A s \in Slots :
    /\ \A t \in Threads : Counted(t, s) => ch[s].live
    /\ rx[s] \notin {"none", "done", "unopen", "free"} => ch[s].live

\* A close has one owner, an application thread or the rx worker, never both
\* and never neither ("exactly one caller performs the teardown", alp/rpc.h).
OneFinalizer ==
  \A s \in Slots :
    LET n == Cardinality({t \in Threads : Closes(t, s)}) + (IF RxCloses(s) THEN 1 ELSE 0)
    IN  n <= 1 /\ (h[s].lc = "CLOSING" => n = 1)

\* "Poison the channel so the late reply can never reach a later call" (y_call),
\* as far as it goes.  A call that finds itself answered holds the reply to its
\* own request, or one gone astray: to a call that gave up without a deadline,
\* which does not poison; to a call of a channel closed since, whose poison went
\* with it; or to a call that was itself answered by one of these.
ReplyMatchesCall ==
  \A t \in Threads :
    LET s == at[t] IN
    (pc[t] = "wait" /\ ~ch[s].closing /\ ch[s].pending = None) =>
      ch[s].result \in {tok[t]} \cup astray[s]

\* A LOST link stays LOST until its slot is reopened: no late UP report
\* overwrites it (the order of the UP report and pthread_create in y_open).
LostIsFinal ==
  [][\A s \in Slots : h[s].link = "LOST" => h'[s].link \in {"LOST", "DOWN"}]_vars

\* "Waits for an in-flight callback of that method to return" (alp/rpc.h,
\* alp_rpc_unsubscribe): a callback runs only while it is registered or while
\* the op that removes it has not yet returned.
UnsubscribeWaits ==
  \A s \in Slots :
    rx[s] = "cb" => ch[s].sub \/ \E t \in Threads : at[t] = s /\ pc[t] = "body" /\ op[t] = "unsubscribe"

\* Every close, from a thread or from a callback, frees the slot in the end,
\* whatever the peer does and however long the pending call would wait.
CloseCompletes == \A s \in Slots : h[s].lc = "CLOSING" ~> ~h[s].in_use

\* "Outstanding alp_rpc_call invocations on the channel return" (alp/rpc.h,
\* alp_rpc_close), also one that was staged late.
CallReturnsOnClose ==
  \A t \in Threads, s \in Slots :
    (Counted(t, s) /\ h[s].lc = "CLOSING") ~> pc[t] = "idle"
=============================================================================
