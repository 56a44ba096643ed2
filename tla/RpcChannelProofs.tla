-------------------------- MODULE RpcChannelProofs --------------------------
(***************************************************************************)
(* The safety of the RPC channel, for any number of channels, threads and  *)
(* calls, whichever ops the application uses.                              *)
(*                                                                         *)
(* IInv is about ownership.  A slot has at most one thread that opens or   *)
(* closes it, or a worker that closes it, and how far that party has come  *)
(* decides lifecycle, the block and the worker; the op count of chan_word  *)
(* is the number of threads inside an op, so the drain means what it says. *)
(* NoUseAfterFree, OneFinalizer and LostIsFinal follow from it.            *)
(*                                                                         *)
(* CInv is about replies, which are matched by method name only.  While a  *)
(* channel is neither closing nor poisoned, whatever the peer still owes   *)
(* and that has not gone astray belongs to the call in flight, and that    *)
(* call is still waiting for it.  Only three things send a reply astray: a *)
(* call that gives up without a deadline, a close, and a call that is      *)
(* answered by such a reply.                                               *)
(***************************************************************************)
EXTENDS RpcChannel, CountingFacts

-----------------------------------------------------------------------------
\* The types of the state.
Lifecycle == {"UNOPENED", "OPEN", "CLOSING"}
Handle == [in_use : BOOLEAN, lc : Lifecycle, cnt : Int, link : {"DOWN", "UP", "LOST"}, link_cb : BOOLEAN]
Block == [live : BOOLEAN, closing : BOOLEAN, from_worker : BOOLEAN, rx_run : BOOLEAN, pending : Nat,
          result : Nat, poisoned : BOOLEAN, tx : Threads \cup {NoThread}, sub : BOOLEAN]
Serving == {"loop", "poll", "route", "lookup", "cb", "link_cb", "lost", "epilogue"}
SelfClosing == {"cb_shut", "link_shut", "drain", "destroy", "unopen", "free"}
RxPc == {"none", "done"} \cup Serving \cup SelfClosing
OpenPc == {"bind", "spawn", "publish", "unclaim"}
OpPc == {"body", "tx", "write", "wait", "unlock", "leave"}
ClosePc == {"shut", "wake", "join", "drain", "destroy", "unopen", "free"}
Pc == {"idle", "enter", "elect"} \cup OpenPc \cup OpPc \cup ClosePc

TypeOK ==
  /\ h \in [Slots -> Handle]
  /\ ch \in [Slots -> Block]
  /\ rx \in [Slots -> RxPc]
  /\ frame \in [Slots -> Nat]
  /\ owed \in [Slots -> SUBSET Nat]
  /\ issued \in [Slots -> Nat]
  /\ astray \in [Slots -> SUBSET Nat]
  /\ pc \in [Threads -> Pc]
  /\ op \in [Threads -> AllOps \cup {"none"}]
  /\ at \in [Threads -> Slots]
  /\ tok \in [Threads -> Nat]

\* For each slot, the threads that open it, that won its close, that are inside
\* one of its ops, and that hold its tx_mutex for a call.
Openers == [s \in Slots |-> {t \in Threads : at[t] = s /\ pc[t] \in OpenPc}]
Closers == [s \in Slots |-> {t \in Threads : Closes(t, s)}]
Inside == [s \in Slots |-> {t \in Threads : Counted(t, s)}]
Callers == [s \in Slots |-> {t \in Threads : at[t] = s /\ pc[t] \in {"write", "wait", "unlock"}}]

\* One thread at a time opens or closes a slot, and its place tells the rest.
OwnersOK(s) ==
  /\ \A t, u \in Openers[s] \cup Closers[s] : t = u
  /\ \A t \in Openers[s] :
       /\ h[s].lc = "UNOPENED" /\ h[s].in_use /\ ~ch[s].from_worker
       /\ pc[t] = "bind" => h[s].link = "DOWN"
       /\ pc[t] = "publish" => ch[s].live /\ rx[s] \in Serving \cup {"done"}
       /\ pc[t] # "publish" => ~ch[s].live /\ rx[s] = "none"
  /\ \A t \in Closers[s] :
       /\ h[s].lc = IF pc[t] = "free" THEN "UNOPENED" ELSE "CLOSING"
       /\ h[s].in_use /\ ~ch[s].from_worker
       /\ ch[s].live <=> pc[t] \notin {"unopen", "free"}
       /\ IF pc[t] \in {"shut", "wake", "join"} THEN rx[s] \in Serving \cup {"done"} ELSE rx[s] = "none"

\* A worker that closes its own channel is the only one that does; the block
\* lives as long as the worker can touch it.
WorkerOK(s) ==
  /\ ch[s].from_worker => /\ rx[s] \in {"loop", "cb", "link_cb", "epilogue", "drain", "destroy"}
                          /\ ~ch[s].rx_run /\ h[s].lc = "CLOSING"
  /\ rx[s] \in {"drain", "destroy"} => ch[s].from_worker
  /\ rx[s] \in {"cb_shut", "link_shut", "unopen"} => ~ch[s].from_worker /\ h[s].lc = "CLOSING"
  /\ rx[s] = "free" => h[s].lc = "UNOPENED"
  /\ RxCloses(s) => h[s].in_use /\ Openers[s] = {} /\ Closers[s] = {}
  /\ rx[s] \in Serving \cup {"cb_shut", "link_shut", "drain", "destroy"} => ch[s].live
  /\ rx[s] \in {"unopen", "free"} => ~ch[s].live

\* What a free, an open and a closing slot look like.
PhaseOK(s) ==
  /\ ~h[s].in_use => /\ h[s].lc = "UNOPENED" /\ rx[s] = "none" /\ ~ch[s].live
                     /\ Openers[s] = {} /\ Closers[s] = {}
  /\ h[s].lc = "OPEN" => /\ ch[s].live /\ ~ch[s].from_worker /\ rx[s] \in Serving \cup {"done"}
                         /\ Openers[s] = {} /\ Closers[s] = {}
  /\ h[s].lc = "CLOSING" => Closers[s] # {} \/ RxCloses(s)

\* The count is exact, and an op inside keeps the block from being destroyed.
CountOK(s) ==
  /\ h[s].cnt = Cardinality(Inside[s])
  /\ Inside[s] # {} => /\ h[s].lc # "UNOPENED" /\ rx[s] \notin {"destroy", "unopen"}
                       /\ \A t \in Closers[s] : pc[t] \notin {"destroy", "unopen"}

Good == {s \in Slots : OwnersOK(s) /\ WorkerOK(s) /\ PhaseOK(s) /\ CountOK(s)}

IInv == TypeOK /\ Good = Slots

\* The replies that can still reach a slot, owed by the peer or read and not yet
\* routed, and that have not gone astray.
Late == [s \in Slots |-> ((owed[s] \cup {frame[s]}) \ {None, Event}) \ astray[s]]

\* A reply is to a request that was written, and written once.
Numbered(s) ==
  /\ \A c \in owed[s] : c <= issued[s]
  /\ frame[s] # Event => frame[s] <= issued[s]
  /\ \A t \in Callers[s] :
       pc[t] = "write" => issued[s] \notin owed[s] /\ (frame[s] # Event => frame[s] # issued[s])

\* What the call in flight can still meet while the channel is in order.
InOrder(s) ==
  /\ Late[s] \subseteq {issued[s]}
  /\ Late[s] # {} => ch[s].pending = issued[s] /\ \E t \in Callers[s] : pc[t] = "wait"
  /\ frame[s] # Event => frame[s] \notin owed[s] \ {None}
  /\ \A t \in Callers[s] :
       /\ pc[t] = "write" => \/ ch[s].pending = issued[s]
                             \/ ch[s].pending = None /\ {ch[s].result, issued[s]} \subseteq astray[s]
       /\ pc[t] = "wait" => \/ ch[s].pending = issued[s]
                            \/ ch[s].pending = None /\ ch[s].result \in {issued[s]} \cup astray[s]

\* One call at a time, named by the newest request; a poisoned channel has no
\* call that still expects an answer.
CallsOK(s) ==
  /\ rx[s] \in {"route", "lookup"} <=> frame[s] # None
  /\ ~ch[s].live => Late[s] = {}
  /\ Numbered(s)
  /\ \A t \in Callers[s] : ch[s].tx = t /\ tok[t] = issued[s] /\ issued[s] # 0
  /\ ch[s].poisoned => \A t \in Callers[s] : pc[t] = "unlock"
  /\ ~ch[s].closing /\ ~ch[s].poisoned => InOrder(s)

Matched == {s \in Slots : CallsOK(s)}
CInv == Matched = Slots
USE ThreadsAssumption, BoundsAssumption, OpsAssumption

-----------------------------------------------------------------------------
\* A handle with one field changed is a handle.
LEMMA HandleFields ==
  ASSUME NEW r \in Handle
  PROVE  /\ \A l \in Lifecycle : [r EXCEPT !.lc = l] \in Handle
         /\ \A n \in Int : [r EXCEPT !.cnt = n] \in Handle
         /\ \A l \in Lifecycle, n \in Int : [r EXCEPT !.lc = l, !.cnt = n] \in Handle
         /\ \A k \in {"DOWN", "UP", "LOST"} : [r EXCEPT !.link = k] \in Handle
         /\ [r EXCEPT !.link_cb = TRUE] \in Handle
         /\ [r EXCEPT !.in_use = FALSE] \in Handle
         /\ [FreeHandle EXCEPT !.in_use = TRUE] \in Handle
<1>1. \A l \in Lifecycle : [r EXCEPT !.lc = l] \in Handle
  BY Zenon DEF Handle
<1>2. \A n \in Int : [r EXCEPT !.cnt = n] \in Handle
  BY Zenon DEF Handle
<1>3. \A l \in Lifecycle, n \in Int : [r EXCEPT !.lc = l, !.cnt = n] \in Handle
  BY Zenon DEF Handle
<1>4. \A k \in {"DOWN", "UP", "LOST"} : [r EXCEPT !.link = k] \in Handle
  BY Zenon DEF Handle
<1>5. [r EXCEPT !.link_cb = TRUE] \in Handle /\ [r EXCEPT !.in_use = FALSE] \in Handle
  BY Zenon DEF Handle
<1>6. [FreeHandle EXCEPT !.in_use = TRUE] \in Handle
  <2>1. FreeHandle \in Handle
    BY DEF Handle, FreeHandle, Lifecycle
  <2> QED
    BY <2>1, Zenon DEF Handle
<1> QED
  BY <1>1, <1>2, <1>3, <1>4, <1>5, <1>6

\* A block with the fields changed that some step changes is a block.
LEMMA BlockFields ==
  ASSUME NEW r \in Block
  PROVE  /\ \A b \in BOOLEAN : [r EXCEPT !.sub = b] \in Block
         /\ \A n \in Nat : [r EXCEPT !.pending = n] \in Block
         /\ \A n, m \in Nat : [r EXCEPT !.pending = n, !.result = m] \in Block
         /\ \A n, m \in Nat, u \in Threads :
              [r EXCEPT !.tx = u, !.pending = n, !.result = m] \in Block
         /\ \A n \in Nat : [r EXCEPT !.pending = n, !.poisoned = TRUE] \in Block
         /\ [r EXCEPT !.tx = NoThread] \in Block
         /\ [r EXCEPT !.rx_run = FALSE] \in Block
         /\ \A n \in Nat, b, c \in BOOLEAN :
              [r EXCEPT !.closing = TRUE, !.from_worker = b, !.pending = n, !.rx_run = c] \in Block
         /\ NoBlock \in Block
         /\ [NoBlock EXCEPT !.live = TRUE, !.rx_run = TRUE] \in Block
<1>1. \A b \in BOOLEAN : [r EXCEPT !.sub = b] \in Block
  BY Zenon DEF Block
<1>2. \A n \in Nat : [r EXCEPT !.pending = n] \in Block
  BY Zenon DEF Block
<1>3. \A n, m \in Nat : [r EXCEPT !.pending = n, !.result = m] \in Block
  BY Zenon DEF Block
<1>4. \A n, m \in Nat, u \in Threads : [r EXCEPT !.tx = u, !.pending = n, !.result = m] \in Block
  BY Zenon DEF Block
<1>5. \A n \in Nat : [r EXCEPT !.pending = n, !.poisoned = TRUE] \in Block
  BY Zenon DEF Block
<1>6. [r EXCEPT !.tx = NoThread] \in Block /\ [r EXCEPT !.rx_run = FALSE] \in Block
  BY Zenon DEF Block
<1>7. \A n \in Nat, b, c \in BOOLEAN :
        [r EXCEPT !.closing = TRUE, !.from_worker = b, !.pending = n, !.rx_run = c] \in Block
  BY Zenon DEF Block
<1>8. NoBlock \in Block
  BY DEF Block, NoBlock, None
<1>9. [NoBlock EXCEPT !.live = TRUE, !.rx_run = TRUE] \in Block
  BY DEF Block, NoBlock, None
<1> QED
  BY <1>1, <1>2, <1>3, <1>4, <1>5, <1>6, <1>7, <1>8, <1>9

\* The op count of a handle may go up and down, and the lifecycle's values.
LEMMA HandleValues ==
  ASSUME TypeOK, NEW s \in Slots
  PROVE  /\ h[s] \in Handle /\ h[s].cnt + 1 \in Int /\ h[s].cnt - 1 \in Int /\ 0 \in Int
         /\ "OPEN" \in Lifecycle /\ "CLOSING" \in Lifecycle /\ "UNOPENED" \in Lifecycle
BY DEF TypeOK, Handle, Lifecycle

\* A channel that is not open is not poisoned.
LEMMA NoBlockIsClean == ~NoBlock.poisoned
BY DEF NoBlock

\* A step of a thread keeps the types.
LEMMA ThreadTypes ==
  ASSUME TypeOK, NEW t \in Threads, Env(t) \/ Step(t)
  PROVE  TypeOK'
<1> USE DEF Env, Step, Claim, StartClose, StartOp, Timeout, NoDeadline, Bind, Spawn, Publish, Unclaim,
            Enter, Register, LinkGate, Send, Stage, Write, WakeUp, UnlockTx, Leave, Elect, Shut,
            WakeRx, Join, Finalize, Goto, RxGoto, peerVars
<1>1. at[t] \in Slots /\ None \in Nat /\ issued[at[t]] + 1 \in Nat /\ tok[t] \in Nat
  BY DEF TypeOK, None
<1>2. at' \in [Threads -> Slots]
  BY DEF TypeOK
<1>3. pc' \in [Threads -> Pc]
  <2>1. \E l \in Pc : pc' = [pc EXCEPT ![t] = l]
    BY DEF Pc, OpenPc, OpPc, ClosePc
  <2> QED
    BY <2>1 DEF TypeOK
<1>4. op' \in [Threads -> AllOps \cup {"none"}]
  BY DEF TypeOK
<1>5. tok' \in [Threads -> Nat]
  BY <1>1, ZenonT(40) DEF TypeOK
<1>6. rx' \in [Slots -> RxPc]
  BY <1>1 DEF TypeOK, RxPc, Serving
<1>7. frame' \in [Slots -> Nat]
  BY DEF TypeOK
<1>8. owed' \in [Slots -> SUBSET Nat]
  <2>1. \/ owed' = owed
        \/ owed' = [owed EXCEPT ![at[t]] = @ \cup {tok[t]}]
    BY Zenon DEF Destroy, Unopen, Release
  <2> QED
    BY <1>1, <2>1 DEF TypeOK
<1>9. issued' \in [Slots -> Nat]
  <2>1. \/ issued' = issued
        \/ issued' = [issued EXCEPT ![at[t]] = @ + 1]
    BY Zenon DEF Destroy, Unopen, Release
  <2> QED
    BY <1>1, <2>1 DEF TypeOK
<1>12. astray' \in [Slots -> SUBSET Nat]
  <2>1. \/ astray' = astray
        \/ astray' = [astray EXCEPT ![at[t]] = @ \cup owed[at[t]]]
        \/ astray' = [astray EXCEPT ![at[t]] = @ \cup {tok[t]}]
    BY Zenon DEF Destroy, Unopen, Release
  <2> QED
    BY <1>1, <2>1 DEF TypeOK
<1>10. h' \in [Slots -> Handle]
  <2>1. PICK s \in Slots : \/ h' = h
                           \/ h' = [h EXCEPT ![s] = [FreeHandle EXCEPT !.in_use = TRUE]]
                           \/ h' = [h EXCEPT ![s].link = "UP"]
                           \/ h' = [h EXCEPT ![s].lc = "OPEN", ![s].cnt = 0]
                           \/ h' = [h EXCEPT ![s].in_use = FALSE]
                           \/ h' = [h EXCEPT ![s].cnt = @ + 1]
                           \/ h' = [h EXCEPT ![s].cnt = @ - 1]
                           \/ h' = [h EXCEPT ![s].link_cb = TRUE]
                           \/ h' = [h EXCEPT ![s].lc = "CLOSING"]
                           \/ h' = [h EXCEPT ![s].lc = "UNOPENED"]
    BY <1>1, Zenon DEF Destroy, Unopen, Release
  <2>2. \/ h' = h
        \/ \E r \in Handle : h' = [h EXCEPT ![s] = r]
    BY <2>1, HandleValues, HandleFields, ZenonT(40) DEF TypeOK
  <2> QED
    BY <2>2 DEF TypeOK
<1>11. ch' \in [Slots -> Block]
  <2> DEFINE s == at[t]
  <2>1. \/ ch' = ch
        \/ ch' = [ch EXCEPT ![s] = NoBlock]
        \/ ch' = [ch EXCEPT ![s] = [NoBlock EXCEPT !.live = TRUE, !.rx_run = TRUE]]
        \/ ch' = [ch EXCEPT ![s].sub = (op[t] = "subscribe")]
        \/ ch' = [ch EXCEPT ![s].tx = t, ![s].pending = issued[s] + 1, ![s].result = None]
        \/ ch' = [ch EXCEPT ![s].pending = None]
        \/ ch' = [ch EXCEPT ![s].pending = None, ![s].poisoned = TRUE]
        \/ ch' = [ch EXCEPT ![s].tx = NoThread]
        \/ ch' = [ch EXCEPT ![s].rx_run = FALSE]
        \/ ch' = [ch EXCEPT ![s].closing = TRUE, ![s].from_worker = FALSE, ![s].pending = None,
                            ![s].rx_run = @ /\ ~FALSE]
    BY Zenon DEF Destroy, Unopen, Release, Cancel
  <2>2. ch[s] \in Block /\ (ch[s].rx_run /\ ~FALSE) \in BOOLEAN /\ (op[t] = "subscribe") \in BOOLEAN
    BY DEF TypeOK, Block
  <2>3. \/ ch' = ch
        \/ \E r \in Block : ch' = [ch EXCEPT ![s] = r]
    <3> USE <1>1, <2>2, BlockFields DEF TypeOK
    <3>1. CASE ch' = [ch EXCEPT ![s].sub = (op[t] = "subscribe")]
      BY <3>1
    <3>2. CASE ch' = [ch EXCEPT ![s].closing = TRUE, ![s].from_worker = FALSE, ![s].pending = None,
                                ![s].rx_run = @ /\ ~FALSE]
      BY <3>2
    <3>3. CASE ch' = [ch EXCEPT ![s].tx = t, ![s].pending = issued[s] + 1, ![s].result = None]
      BY <3>3
    <3>4. CASE ch' = [ch EXCEPT ![s].pending = None]
      BY <3>4
    <3>5. CASE ch' = [ch EXCEPT ![s].pending = None, ![s].poisoned = TRUE]
      BY <3>5
    <3>6. CASE ch' = [ch EXCEPT ![s].tx = NoThread]
      BY <3>6
    <3>7. CASE ch' = [ch EXCEPT ![s].rx_run = FALSE]
      BY <3>7
    <3> QED
      BY <2>1, <3>1, <3>2, <3>3, <3>4, <3>5, <3>6, <3>7
  <2> QED
    BY <2>3 DEF TypeOK
<1> QED
  BY <1>2, <1>3, <1>4, <1>5, <1>6, <1>7, <1>8, <1>9, <1>10, <1>11, <1>12 DEF TypeOK

\* A step of an rx worker keeps the types.
LEMMA WorkerTypes ==
  ASSUME TypeOK, NEW s \in Slots, RxEnv(s) \/ RxStep(s)
  PROVE  TypeOK'
<1> USE DEF RxEnv, RxStep, RxFails, SelfClose, RxRead, RxLoop, RxWoken, Route, Lookup, CallbackReturns,
            NotifyLost, SelfShut, Epilogue, RxFinalize, RxGoto, peerVars, threadVars
<1>1. None \in Nat /\ Event \in Nat /\ Calls \subseteq Nat
  BY DEF None, Event, Calls
<1>2. UNCHANGED threadVars
  OBVIOUS
<1>3. rx' \in [Slots -> RxPc]
  BY ZenonT(40) DEF TypeOK, RxPc, Serving, SelfClosing
<1>4. frame' \in [Slots -> Nat]
  <2>1. frame' = frame \/ \E f \in Nat : frame' = [frame EXCEPT ![s] = f]
    BY <1>1, Zenon
  <2> QED
    BY <2>1 DEF TypeOK
<1>5. owed' \in [Slots -> SUBSET Nat]
  <2>1. \/ owed' = owed
        \/ \E f \in Nat : owed' = [owed EXCEPT ![s] = @ \ {f}]
    BY <1>1, Zenon DEF Destroy, Unopen, Release
  <2> QED
    BY <2>1 DEF TypeOK
<1>6. issued' \in [Slots -> Nat]
  BY Zenon DEF TypeOK, Destroy, Unopen, Release
<1>9. astray' \in [Slots -> SUBSET Nat]
  <2>1. ch[s].pending \in Nat
    BY DEF TypeOK, Block
  <2>2. \/ astray' = astray
        \/ astray' = [astray EXCEPT ![s] = @ \cup owed[s]]
        \/ astray' = [astray EXCEPT ![s] = IF frame[s] \in @ THEN @ \cup {ch[s].pending} ELSE @]
    BY Zenon DEF Destroy, Unopen, Release
  <2> QED
    BY <2>1, <2>2 DEF TypeOK
<1>7. h' \in [Slots -> Handle]
  <2>1. \/ h' = h
        \/ h' = [h EXCEPT ![s].in_use = FALSE]
        \/ h' = [h EXCEPT ![s].link = "LOST"]
        \/ h' = [h EXCEPT ![s].lc = "CLOSING"]
        \/ h' = [h EXCEPT ![s].lc = "UNOPENED"]
    BY Zenon DEF Destroy, Unopen, Release
  <2>2. h[s] \in Handle
    BY DEF TypeOK
  <2>3. "CLOSING" \in Lifecycle /\ "UNOPENED" \in Lifecycle
    BY DEF Lifecycle
  <2>4. \/ h' = h
        \/ \E r \in Handle : h' = [h EXCEPT ![s] = r]
    BY <2>1, <2>2, <2>3, HandleFields DEF TypeOK
  <2> QED
    BY <2>4 DEF TypeOK
<1>8. ch' \in [Slots -> Block]
  <2>1. \/ ch' = ch
        \/ ch' = [ch EXCEPT ![s] = NoBlock]
        \/ ch' = [ch EXCEPT ![s].pending = None, ![s].result = frame[s]]
        \/ ch' = [ch EXCEPT ![s].closing = TRUE, ![s].from_worker = TRUE, ![s].pending = None,
                            ![s].rx_run = @ /\ ~TRUE]
    BY Zenon DEF Destroy, Unopen, Release, Cancel
  <2>2. ch[s] \in Block /\ (ch[s].rx_run /\ ~TRUE) \in BOOLEAN /\ frame[s] \in Nat
    BY DEF TypeOK, Block
  <2>3. \/ ch' = ch
        \/ \E r \in Block : ch' = [ch EXCEPT ![s] = r]
    <3> USE <1>1, <2>2, BlockFields DEF TypeOK
    <3>1. CASE ch' = [ch EXCEPT ![s].pending = None, ![s].result = frame[s]]
      BY <3>1, ZenonT(40)
    <3>2. CASE ch' = [ch EXCEPT ![s].closing = TRUE, ![s].from_worker = TRUE, ![s].pending = None,
                                ![s].rx_run = @ /\ ~TRUE]
      BY <3>2, ZenonT(40)
    <3> QED
      BY <2>1, <3>1, <3>2
  <2> QED
    BY <2>3 DEF TypeOK
<1> QED
  BY <1>2, <1>3, <1>4, <1>5, <1>6, <1>7, <1>8, <1>9 DEF TypeOK, threadVars
-----------------------------------------------------------------------------
\* A step of t moves no other thread.
Others(t) ==
  \A u \in Threads : u # t => pc'[u] = pc[u] /\ at'[u] = at[u] /\ tok'[u] = tok[u]

\* In such a step only t can enter or leave one of the sets of threads.
LEMMA SetsMove ==
  ASSUME NEW t \in Threads, Others(t), NEW s \in Slots
  PROVE  /\ Openers[s] \subseteq Threads /\ Openers'[s] \subseteq Threads
         /\ Closers[s] \subseteq Threads /\ Closers'[s] \subseteq Threads
         /\ Inside[s] \subseteq Threads /\ Inside'[s] \subseteq Threads
         /\ Callers[s] \subseteq Threads /\ Callers'[s] \subseteq Threads
         /\ \A u \in Threads : u # t =>
              /\ u \in Openers'[s] <=> u \in Openers[s]
              /\ u \in Closers'[s] <=> u \in Closers[s]
              /\ u \in Inside'[s] <=> u \in Inside[s]
              /\ u \in Callers'[s] <=> u \in Callers[s]
BY DEF Openers, Closers, Inside, Callers, Closes, Counted, Others

\* So a set in which t keeps its place is unchanged.
LEMMA SetsSame ==
  ASSUME NEW t \in Threads, Others(t), NEW s \in Slots
  PROVE  /\ (t \in Openers'[s] <=> t \in Openers[s]) => Openers'[s] = Openers[s]
         /\ (t \in Closers'[s] <=> t \in Closers[s]) => Closers'[s] = Closers[s]
         /\ (t \in Callers'[s] <=> t \in Callers[s]) => Callers'[s] = Callers[s]
         /\ (t \in Inside'[s] <=> t \in Inside[s]) => Inside'[s] = Inside[s]
         /\ (t \in Inside'[s] /\ t \notin Inside[s]) => Inside'[s] = Inside[s] \cup {t}
         /\ (t \notin Inside'[s] /\ t \in Inside[s]) => Inside'[s] = Inside[s] \ {t}
<1>1. /\ Openers[s] \subseteq Threads /\ Openers'[s] \subseteq Threads
      /\ \A u \in Threads : u # t => (u \in Openers'[s] <=> u \in Openers[s])
  BY SetsMove
<1>2. /\ Closers[s] \subseteq Threads /\ Closers'[s] \subseteq Threads
      /\ \A u \in Threads : u # t => (u \in Closers'[s] <=> u \in Closers[s])
  BY SetsMove
<1>3. /\ Inside[s] \subseteq Threads /\ Inside'[s] \subseteq Threads
      /\ \A u \in Threads : u # t => (u \in Inside'[s] <=> u \in Inside[s])
  BY SetsMove
<1>4. /\ Callers[s] \subseteq Threads /\ Callers'[s] \subseteq Threads
      /\ \A u \in Threads : u # t => (u \in Callers'[s] <=> u \in Callers[s])
  BY SetsMove
<1>5. (t \in Openers'[s] <=> t \in Openers[s]) => Openers'[s] = Openers[s]
  BY <1>1
<1>6. (t \in Closers'[s] <=> t \in Closers[s]) => Closers'[s] = Closers[s]
  BY <1>2
<1>7. (t \in Callers'[s] <=> t \in Callers[s]) => Callers'[s] = Callers[s]
  BY <1>4
<1>8. (t \in Inside'[s] <=> t \in Inside[s]) => Inside'[s] = Inside[s]
  BY <1>3
<1>9. (t \in Inside'[s] /\ t \notin Inside[s]) => Inside'[s] = Inside[s] \cup {t}
  BY <1>3
<1>10. (t \notin Inside'[s] /\ t \in Inside[s]) => Inside'[s] = Inside[s] \ {t}
  BY <1>3
<1> QED
  BY <1>5, <1>6, <1>7, <1>8, <1>9, <1>10

\* op_enter and op_leave keep the count exact.
LEMMA CountMoves ==
  ASSUME IInv, NEW t \in Threads, Others(t), NEW s \in Slots
  PROVE  /\ (t \in Inside'[s] <=> t \in Inside[s]) => h[s].cnt = Cardinality(Inside'[s])
         /\ (t \in Inside'[s] /\ t \notin Inside[s]) => h[s].cnt + 1 = Cardinality(Inside'[s])
         /\ (t \notin Inside'[s] /\ t \in Inside[s]) => h[s].cnt - 1 = Cardinality(Inside'[s])
<1>1. h[s].cnt = Cardinality(Inside[s])
  BY DEF IInv, Good, CountOK
<1>2. Inside[s] \in SUBSET Threads
  BY SetsMove
<1>3. CASE t \in Inside'[s] <=> t \in Inside[s]
  BY <1>1, <1>3, SetsSame
<1>4. CASE t \in Inside'[s] /\ t \notin Inside[s]
  <2>1. Inside'[s] = Inside[s] \cup {t}
    BY <1>4, SetsSame
  <2> QED
    BY <1>1, <1>2, <1>4, <2>1, Cardinalities
<1>5. CASE t \notin Inside'[s] /\ t \in Inside[s]
  <2>1. Inside'[s] = Inside[s] \ {t}
    BY <1>5, SetsSame
  <2> QED
    BY <1>1, <1>2, <1>5, <2>1, Cardinalities
<1> QED
  BY <1>3, <1>4, <1>5

\* A slot stays good when t neither opens nor closes it and enters an op of it
\* only where OPEN was read.
LEMMA SlotKept ==
  ASSUME IInv, NEW t \in Threads, Others(t), NEW s \in Slots,
         h'[s].in_use <=> h[s].in_use, h'[s].lc = h[s].lc, h'[s].link = h[s].link,
         h'[s].cnt = Cardinality(Inside'[s]),
         ch'[s].live <=> ch[s].live, ch'[s].from_worker <=> ch[s].from_worker,
         ch'[s].rx_run <=> ch[s].rx_run, rx'[s] = rx[s],
         t \notin Openers[s], t \notin Openers'[s], t \notin Closers[s], t \notin Closers'[s],
         t \in Inside'[s] => t \in Inside[s] \/ h[s].lc = "OPEN"
  PROVE  s \in Good'
<1>1. OwnersOK(s) /\ WorkerOK(s) /\ PhaseOK(s) /\ CountOK(s)
  BY DEF IInv, Good
<1>2. Openers'[s] = Openers[s] /\ Closers'[s] = Closers[s]
  BY SetsSame
<1>3. \A u \in Openers[s] \cup Closers[s] : u \in Threads /\ u # t /\ pc'[u] = pc[u]
  BY SetsMove DEF Others
<1>4. OwnersOK(s)'
  BY <1>1, <1>2, <1>3 DEF OwnersOK
<1>5. RxCloses(s)' <=> RxCloses(s)
  BY DEF RxCloses
<1>6. WorkerOK(s)'
  BY <1>1, <1>2, <1>5 DEF WorkerOK
<1>7. PhaseOK(s)'
  BY <1>1, <1>2, <1>5 DEF PhaseOK
<1>8. Inside'[s] # {} => Inside[s] # {} \/ h[s].lc = "OPEN"
  BY SetsMove
<1>9. h[s].lc = "OPEN" => rx[s] \notin {"destroy", "unopen"} /\ Closers[s] = {}
  BY <1>1 DEF PhaseOK, Serving
<1>10. CountOK(s)'
  BY <1>1, <1>2, <1>3, <1>8, <1>9 DEF CountOK
<1> QED
  BY <1>4, <1>6, <1>7, <1>10 DEF Good

\* Steps of a thread that open and close nothing.
Passing(t) ==
  \/ Enter(t) \/ Register(t) \/ LinkGate(t) \/ Send(t) \/ Stage(t) \/ Write(t) \/ WakeUp(t)
  \/ Timeout(t) \/ NoDeadline(t) \/ UnlockTx(t) \/ Leave(t)
  \/ (Elect(t) /\ h[at[t]].lc # "OPEN")
  \/ \E s \in Slots : StartClose(t, s) \/ \E o \in Ops : StartOp(t, s, o)

\* Such a step keeps the invariant.
LEMMA PassingStep ==
  ASSUME IInv, NEW t \in Threads, Passing(t)
  PROVE  IInv'
<1> USE DEF Passing, Enter, Register, LinkGate, Send, Stage, Write, WakeUp, Timeout, NoDeadline,
            UnlockTx, Leave, Elect, StartClose, StartOp, Goto
<1>1. TypeOK
  BY DEF IInv
<1>2. TypeOK'
  BY <1>1, ThreadTypes DEF Env, Step
<1>3. Others(t)
  BY <1>1 DEF Others, TypeOK
<1>4. UNCHANGED rx
  OBVIOUS
<1>6. \/ h' = h
      \/ h' = [h EXCEPT ![at[t]].cnt = @ + 1]
      \/ h' = [h EXCEPT ![at[t]].cnt = @ - 1]
      \/ h' = [h EXCEPT ![at[t]].link_cb = TRUE]
  BY Zenon
<1>7. \/ ch' = ch
      \/ ch' = [ch EXCEPT ![at[t]].sub = (op[t] = "subscribe")]
      \/ ch' = [ch EXCEPT ![at[t]].tx = t, ![at[t]].pending = issued[at[t]] + 1, ![at[t]].result = None]
      \/ ch' = [ch EXCEPT ![at[t]].pending = None]
      \/ ch' = [ch EXCEPT ![at[t]].pending = None, ![at[t]].poisoned = TRUE]
      \/ ch' = [ch EXCEPT ![at[t]].tx = NoThread]
  BY Zenon
<1>5. ASSUME NEW s \in Slots PROVE s \in Good'
  <2>1. t \notin Openers[s] /\ t \notin Openers'[s]
    BY <1>1 DEF TypeOK, Openers, OpenPc
  <2>2. t \notin Closers[s] /\ t \notin Closers'[s]
    BY <1>1 DEF TypeOK, Closers, Closes
  <2>3. /\ h'[s].in_use <=> h[s].in_use
        /\ h'[s].lc = h[s].lc
        /\ h'[s].link = h[s].link
    <3> HIDE DEF Passing
    <3> USE <1>1 DEF TypeOK, Handle
    <3>1. CASE h' = h
      BY <3>1
    <3>2. CASE h' = [h EXCEPT ![at[t]].cnt = @ + 1]
      BY <3>2
    <3>3. CASE h' = [h EXCEPT ![at[t]].cnt = @ - 1]
      BY <3>3
    <3>4. CASE h' = [h EXCEPT ![at[t]].link_cb = TRUE]
      BY <3>4
    <3> QED
      BY <1>6, <3>1, <3>2, <3>3, <3>4
  <2>4. /\ ch'[s].live <=> ch[s].live
        /\ ch'[s].from_worker <=> ch[s].from_worker
        /\ ch'[s].rx_run <=> ch[s].rx_run
    <3> HIDE DEF Passing
    <3> USE <1>1 DEF TypeOK, Block
    <3>1. CASE ch' = ch
      BY <3>1
    <3>2. CASE ch' = [ch EXCEPT ![at[t]].sub = (op[t] = "subscribe")]
      BY <3>2
    <3>3. CASE ch' = [ch EXCEPT ![at[t]].tx = t, ![at[t]].pending = issued[at[t]] + 1,
                                ![at[t]].result = None]
      BY <3>3
    <3>4. CASE ch' = [ch EXCEPT ![at[t]].pending = None]
      BY <3>4
    <3>5. CASE ch' = [ch EXCEPT ![at[t]].pending = None, ![at[t]].poisoned = TRUE]
      BY <3>5
    <3>6. CASE ch' = [ch EXCEPT ![at[t]].tx = NoThread]
      BY <3>6
    <3> QED
      BY <1>7, <3>1, <3>2, <3>3, <3>4, <3>5, <3>6
  <2>9. t \in Inside'[s] => t \in Inside[s] \/ h[s].lc = "OPEN"
    BY <1>1 DEF TypeOK, Inside, Counted
  <2>10. h'[s].cnt = Cardinality(Inside'[s])
    <3>1. CASE s = at[t] /\ Enter(t) /\ h[s].lc = "OPEN"
      <4>1. h'[s].cnt = h[s].cnt + 1
        BY <1>1, <3>1 DEF TypeOK, Handle
      <4>2. t \in Inside'[s] /\ t \notin Inside[s]
        BY <1>1, <3>1 DEF TypeOK, Inside, Counted
      <4> QED
        BY <1>3, <4>1, <4>2, CountMoves
    <3>2. CASE s = at[t] /\ Leave(t)
      <4>1. h'[s].cnt = h[s].cnt - 1
        BY <1>1, <3>2 DEF TypeOK, Handle
      <4>2. t \notin Inside'[s] /\ t \in Inside[s]
        BY <1>1, <3>2 DEF TypeOK, Inside, Counted
      <4> QED
        BY <1>3, <4>1, <4>2, CountMoves
    <3>3. CASE ~(s = at[t] /\ Enter(t) /\ h[s].lc = "OPEN") /\ ~(s = at[t] /\ Leave(t))
      <4>1. h'[s].cnt = h[s].cnt
        BY <1>1, <3>3 DEF TypeOK, Handle
      <4>2. t \in Inside'[s] <=> t \in Inside[s]
        BY <1>1, <3>3 DEF TypeOK, Inside, Counted
      <4> QED
        BY <1>3, <4>1, <4>2, CountMoves
    <3> QED
      BY <3>1, <3>2, <3>3
  <2> QED
    BY <1>3, <1>4, <2>1, <2>2, <2>3, <2>4, <2>9, <2>10, SlotKept
<1> QED
  BY <1>2, <1>5 DEF IInv, Good
\* The only thread that can own s is t, so its next place decides who does.
LEMMA OwnedSlot ==
  ASSUME TypeOK, NEW t \in Threads, Others(t), NEW s \in Slots, at'[t] = s,
         Openers[s] \cup Closers[s] \subseteq {t}
  PROVE  /\ Openers'[s] = IF pc'[t] \in OpenPc THEN {t} ELSE {}
         /\ Closers'[s] = IF pc'[t] \in ClosePc THEN {t} ELSE {}
<1>1. t \in Openers'[s] <=> pc'[t] \in OpenPc
  BY DEF Openers
<1>2. t \in Closers'[s] <=> pc'[t] \in ClosePc
  BY DEF Closers, Closes, ClosePc
<1>3. Openers'[s] = IF pc'[t] \in OpenPc THEN {t} ELSE {}
  <2>1. /\ Openers'[s] \subseteq Threads
        /\ \A u \in Threads : u # t => u \notin Openers'[s]
    BY SetsMove
  <2> QED
    BY <1>1, <2>1
<1>4. Closers'[s] = IF pc'[t] \in ClosePc THEN {t} ELSE {}
  <2>1. /\ Closers'[s] \subseteq Threads
        /\ \A u \in Threads : u # t => u \notin Closers'[s]
    BY SetsMove
  <2> QED
    BY <1>2, <2>1
<1> QED
  BY <1>3, <1>4

\* A slot other than the one t opens or closes stays good.
LEMMA ElsewhereKept ==
  ASSUME IInv, NEW t \in Threads, Others(t), NEW s \in Slots, NEW d \in Slots, d # s,
         at[t] = s \/ pc[t] = "idle", at'[t] = s,
         h'[d] = h[d], ch'[d] = ch[d], rx'[d] = rx[d]
  PROVE  d \in Good'
<1>1. t \notin Openers[d] /\ t \notin Openers'[d]
  BY DEF Openers, OpenPc
<1>2. t \notin Closers[d] /\ t \notin Closers'[d]
  BY DEF Closers, Closes
<1>3. t \notin Inside[d] /\ t \notin Inside'[d]
  BY DEF Inside, Counted
<1>4. h'[d].cnt = Cardinality(Inside'[d])
  BY <1>3, CountMoves
<1> QED
  BY <1>1, <1>2, <1>3, <1>4, SlotKept


\* Steps of the thread that opens slot s.
Opening(t, s) ==
  \/ Claim(t, s)
  \/ at[t] = s /\ (Bind(t) \/ Spawn(t) \/ Publish(t) \/ Unclaim(t))

\* Such a step keeps the invariant: the slot is not OPEN, so nobody is inside.
LEMMA OpeningStep ==
  ASSUME IInv, NEW t \in Threads, NEW s \in Slots, Opening(t, s)
  PROVE  IInv'
<1> USE DEF Opening, Claim, Bind, Spawn, Publish, Unclaim, Goto, RxGoto
<1>1. TypeOK /\ OwnersOK(s) /\ WorkerOK(s) /\ PhaseOK(s) /\ CountOK(s)
  BY DEF IInv, Good
<1>2. TypeOK'
  BY <1>1, ThreadTypes DEF Env, Step
<1>3. Others(t) /\ at'[t] = s /\ (at[t] = s \/ pc[t] = "idle")
  BY <1>1 DEF Others, TypeOK
<1>4. \A d \in Slots : d # s => h'[d] = h[d] /\ ch'[d] = ch[d] /\ rx'[d] = rx[d]
  BY <1>1 DEF TypeOK
<1>5. Openers[s] \cup Closers[s] \subseteq {t} /\ h[s].lc = "UNOPENED" /\ Closers[s] = {}
  <2>1. CASE Claim(t, s)
    BY <1>1, <2>1 DEF PhaseOK
  <2>2. CASE ~Claim(t, s)
    <3>1. t \in Openers[s] /\ t \notin Closers[s]
      BY <2>2 DEF Openers, OpenPc, Closers, Closes
    <3> QED
      BY <1>1, <3>1 DEF OwnersOK
  <2> QED
    BY <2>1, <2>2
<1>6. /\ Openers'[s] = IF pc'[t] \in OpenPc THEN {t} ELSE {}
      /\ Closers'[s] = {}
  <2>1. pc'[t] \notin ClosePc
    BY <1>1 DEF TypeOK, ClosePc
  <2> QED
    BY <1>1, <1>3, <1>5, <2>1, OwnedSlot
<1>7. Inside[s] = {} /\ Inside'[s] = {} /\ h[s].cnt = 0
  <2>1. Inside[s] = {}
    BY <1>1, <1>5 DEF CountOK
  <2>2. t \notin Inside'[s]
    BY <1>1 DEF Inside, Counted, TypeOK
  <2>3. Inside'[s] = {}
    BY <1>3, <2>1, <2>2, SetsSame
  <2> QED
    BY <1>1, <2>1, <2>3, Cardinalities DEF CountOK
<1>8. OwnersOK(s)' /\ WorkerOK(s)' /\ PhaseOK(s)' /\ h'[s].cnt = 0
  <2>1. CASE Claim(t, s)
    <3>1. h'[s] = [FreeHandle EXCEPT !.in_use = TRUE] /\ ch'[s] = ch[s] /\ rx'[s] = rx[s] /\ pc'[t] = "bind"
      BY <1>1, <2>1 DEF TypeOK
    <3>2. h'[s].in_use /\ h'[s].lc = "UNOPENED" /\ h'[s].link = "DOWN" /\ h'[s].cnt = 0
      BY <3>1 DEF FreeHandle
    <3>3. ~ch'[s].live /\ rx'[s] = "none" /\ ~ch'[s].from_worker
      BY <1>1, <2>1, <3>1 DEF PhaseOK, WorkerOK
    <3> HIDE DEF Opening
    <3> QED
      BY <1>6, <3>1, <3>2, <3>3 DEF OwnersOK, WorkerOK, PhaseOK, RxCloses, OpenPc, Serving
  <2>2. CASE at[t] = s /\ (Bind(t) \/ Unclaim(t))
    <3>1. ch'[s] = ch[s] /\ rx'[s] = rx[s] /\ pc'[t] \in {"spawn", "unclaim", "idle"}
      BY <1>1, <2>2 DEF TypeOK
    <3>2. h'[s].lc = "UNOPENED" /\ h'[s].cnt = 0 /\ (pc'[t] # "idle" => (h'[s].in_use <=> h[s].in_use))
      BY <1>1, <1>5, <1>7, <2>2, SMTT(30) DEF TypeOK, Handle
    <3>3. ~ch'[s].live /\ rx'[s] = "none" /\ ~ch'[s].from_worker /\ h[s].in_use
      <4>1. t \in Openers[s]
        BY <2>2 DEF Openers, OpenPc
      <4> QED
        BY <1>1, <2>2, <3>1, <4>1 DEF OwnersOK
    <3> HIDE DEF Opening
    <3> QED
      BY <1>6, <3>1, <3>2, <3>3 DEF OwnersOK, WorkerOK, PhaseOK, RxCloses, OpenPc, Serving
  <2>3. CASE at[t] = s /\ Spawn(t)
    <3>1. h'[s] = h[s] /\ pc'[t] \in {"publish", "unclaim"}
      BY <1>1, <2>3 DEF TypeOK
    <3>2. ~ch[s].live /\ rx[s] = "none" /\ ~ch[s].from_worker /\ h[s].in_use
      <4>1. t \in Openers[s]
        BY <2>3 DEF Openers, OpenPc
      <4> QED
        BY <1>1, <2>3, <4>1 DEF OwnersOK
    <3>3. IF pc'[t] = "publish" THEN ch'[s].live /\ ~ch'[s].from_worker /\ rx'[s] = "loop"
                                ELSE ~ch'[s].live /\ ~ch'[s].from_worker /\ rx'[s] = "none"
      <4>1. CASE pc'[t] = "publish"
        <5>1. ch'[s] = [NoBlock EXCEPT !.live = TRUE, !.rx_run = TRUE] /\ rx'[s] = "loop"
          BY <1>1, <2>3, <4>1 DEF TypeOK
        <5> QED
          BY <4>1, <5>1 DEF NoBlock
      <4>2. CASE pc'[t] # "publish"
        BY <1>1, <2>3, <3>2, <4>2 DEF TypeOK
      <4> QED
        BY <4>1, <4>2
    <3> HIDE DEF Opening
    <3> QED
      BY <1>5, <1>6, <1>7, <3>1, <3>2, <3>3 DEF OwnersOK, WorkerOK, PhaseOK, RxCloses, OpenPc, Serving
  <2>4. CASE at[t] = s /\ Publish(t)
    <3>1. ch'[s] = ch[s] /\ rx'[s] = rx[s] /\ pc'[t] = "idle"
      BY <1>1, <2>4 DEF TypeOK
    <3>2. h'[s].lc = "OPEN" /\ h'[s].cnt = 0 /\ (h'[s].in_use <=> h[s].in_use)
      BY <1>1, <2>4 DEF TypeOK, Handle
    <3>3. ch[s].live /\ rx[s] \in Serving \cup {"done"} /\ ~ch[s].from_worker /\ h[s].in_use
      <4>1. t \in Openers[s]
        BY <2>4 DEF Openers, OpenPc
      <4> QED
        BY <1>1, <2>4, <4>1 DEF OwnersOK
    <3> HIDE DEF Opening
    <3> QED
      BY <1>6, <3>1, <3>2, <3>3 DEF OwnersOK, WorkerOK, PhaseOK, RxCloses, OpenPc, Serving
  <2> QED
    BY <2>1, <2>2, <2>3, <2>4
<1>9. CountOK(s)'
  BY <1>7, <1>8, Cardinalities DEF CountOK
<1>10. Good' = Slots
  BY <1>3, <1>4, <1>8, <1>9, ElsewhereKept DEF Good
<1> QED
  BY <1>2, <1>10 DEF IInv

\* Steps of the thread that closes slot s.
Closing(t, s) ==
  at[t] = s /\ \/ Elect(t) /\ h[s].lc = "OPEN"
               \/ Shut(t) \/ WakeRx(t) \/ Join(t) \/ Finalize(t)

\* Such a step keeps the invariant: the drain finds the count at zero, so
\* nobody is left inside when the block is destroyed.
LEMMA ClosingStep ==
  ASSUME IInv, NEW t \in Threads, NEW s \in Slots, Closing(t, s)
  PROVE  IInv'
<1> USE DEF Closing, Elect, Shut, WakeRx, Join, Finalize, Drained, Destroy, Unopen, Release, Cancel,
            Goto, RxGoto
<1>1. TypeOK /\ OwnersOK(s) /\ WorkerOK(s) /\ PhaseOK(s) /\ CountOK(s)
  BY DEF IInv, Good
<1>2. TypeOK'
  BY <1>1, ThreadTypes DEF Env, Step
<1>3. Others(t) /\ at'[t] = s /\ at[t] = s
  BY <1>1 DEF Others, TypeOK
<1>4. \A d \in Slots : d # s => h'[d] = h[d] /\ ch'[d] = ch[d] /\ rx'[d] = rx[d]
  BY <1>1 DEF TypeOK
<1>5. /\ Openers[s] \cup Closers[s] \subseteq {t}
      /\ t \in Closers[s] \/ h[s].lc = "OPEN"
  <2>1. CASE Elect(t)
    BY <1>1, <2>1 DEF PhaseOK
  <2>2. CASE ~Elect(t)
    <3>1. t \in Closers[s]
      BY <2>2 DEF Closers, Closes
    <3> QED
      BY <1>1, <3>1 DEF OwnersOK
  <2> QED
    BY <2>1, <2>2
<1>6. /\ Openers'[s] = {}
      /\ Closers'[s] = IF pc'[t] \in ClosePc THEN {t} ELSE {}
  <2>1. pc'[t] \notin OpenPc
    BY <1>1 DEF TypeOK, OpenPc
  <2> QED
    BY <1>1, <1>3, <1>5, <2>1, OwnedSlot
<1>7. t \notin Inside[s] /\ t \notin Inside'[s]
  BY <1>1 DEF Inside, Counted, TypeOK
<1>8. Inside'[s] = Inside[s] /\ h[s].cnt = Cardinality(Inside[s])
  BY <1>1, <1>3, <1>7, SetsSame DEF CountOK
<1>9. OwnersOK(s)' /\ WorkerOK(s)' /\ PhaseOK(s)' /\ CountOK(s)'
  <2>1. CASE Elect(t)
    <3>1. ch'[s] = ch[s] /\ rx'[s] = rx[s] /\ pc'[t] = "shut"
      BY <1>1, <2>1 DEF TypeOK
    <3>2. h'[s].lc = "CLOSING" /\ (h'[s].in_use <=> h[s].in_use) /\ h'[s].cnt = h[s].cnt
      BY <1>1, <2>1 DEF TypeOK, Handle
    <3>3. ch[s].live /\ rx[s] \in Serving \cup {"done"} /\ ~ch[s].from_worker /\ h[s].in_use
      BY <1>1, <2>1 DEF PhaseOK
    <3> HIDE DEF Closing
    <3> QED
      BY <1>6, <1>8, <3>1, <3>2, <3>3
      DEF OwnersOK, WorkerOK, PhaseOK, CountOK, RxCloses, OpenPc, ClosePc, Serving
  <2>2. CASE Shut(t) \/ WakeRx(t)
    <3>1. h'[s] = h[s] /\ rx'[s] = rx[s] /\ pc'[t] \in {"wake", "join"}
      BY <1>1, <2>2 DEF TypeOK
    <3>2. /\ h[s].lc = "CLOSING" /\ h[s].in_use /\ ~ch[s].from_worker /\ ch[s].live
          /\ rx[s] \in Serving \cup {"done"}
      <4>1. t \in Closers[s]
        BY <2>2 DEF Closers, Closes
      <4> QED
        BY <1>1, <2>2, <4>1 DEF OwnersOK
    <3>3. ch'[s].live /\ ~ch'[s].from_worker
      <4>1. CASE Shut(t)
        BY <1>1, <3>2, <4>1 DEF TypeOK, Block
      <4>2. CASE WakeRx(t)
        BY <1>1, <3>2, <4>2 DEF TypeOK, Block
      <4> QED
        BY <2>2, <4>1, <4>2
    <3> HIDE DEF Closing
    <3> QED
      BY <1>6, <1>8, <3>1, <3>2, <3>3
      DEF OwnersOK, WorkerOK, PhaseOK, CountOK, RxCloses, OpenPc, ClosePc, Serving
  <2>3. CASE Join(t)
    <3>1. h'[s] = h[s] /\ ch'[s] = ch[s] /\ rx'[s] = "none" /\ pc'[t] = "drain"
      BY <1>1, <2>3 DEF TypeOK
    <3>2. h[s].lc = "CLOSING" /\ h[s].in_use /\ ~ch[s].from_worker /\ ch[s].live
      <4>1. t \in Closers[s]
        BY <2>3 DEF Closers, Closes
      <4> QED
        BY <1>1, <2>3, <4>1 DEF OwnersOK
    <3> HIDE DEF Closing
    <3> QED
      BY <1>6, <1>8, <3>1, <3>2
      DEF OwnersOK, WorkerOK, PhaseOK, CountOK, RxCloses, OpenPc, ClosePc, Serving
  <2>4. CASE Finalize(t)
    <3>1. t \in Closers[s] /\ pc[t] \in {"drain", "destroy", "unopen", "free"}
      BY <2>4 DEF Closers, Closes
    <3>2. /\ h[s].lc = IF pc[t] = "free" THEN "UNOPENED" ELSE "CLOSING"
          /\ h[s].in_use /\ ~ch[s].from_worker
          /\ ch[s].live <=> pc[t] \notin {"unopen", "free"}
          /\ rx[s] = "none"
      BY <1>1, <3>1 DEF OwnersOK
    <3>3. Inside[s] = {}
      <4>1. CASE pc[t] = "drain"
        <5>1. Cardinality(Inside[s]) = 0 /\ Inside[s] \in SUBSET Threads
          BY <1>8, <2>4, <4>1 DEF Inside
        <5> QED
          BY <5>1, Cardinalities
      <4>2. CASE pc[t] # "drain"
        BY <1>1, <3>1, <3>2, <4>2 DEF CountOK
      <4> QED
        BY <4>1, <4>2
    <3>4. rx'[s] = "none" /\ h'[s].cnt = h[s].cnt
      BY <1>1, <2>4, <3>2 DEF TypeOK, Handle
    <3>5. CASE pc[t] = "drain"
      <4>1. h'[s] = h[s] /\ ch'[s] = ch[s] /\ pc'[t] = "destroy"
        BY <1>1, <2>4, <3>5 DEF TypeOK
      <4> HIDE DEF Closing
      <4>3. Closers'[s] = {t}
        BY <1>6, <4>1 DEF ClosePc
      <4>4. OwnersOK(s)'
        BY <1>6, <3>2, <3>4, <3>5, <4>3, <4>1 DEF OwnersOK
      <4>5. WorkerOK(s)' /\ PhaseOK(s)'
        BY <1>6, <3>2, <3>4, <3>5, <4>3, <4>1 DEF WorkerOK, PhaseOK, RxCloses, Serving
      <4>6. CountOK(s)'
        BY <1>8, <3>3, <3>4 DEF CountOK
      <4> QED
        BY <4>4, <4>5, <4>6
    <3>6. CASE pc[t] = "destroy"
      <4>1. h'[s] = h[s] /\ ch'[s] = NoBlock /\ pc'[t] = "unopen"
        BY <1>1, <2>4, <3>6 DEF TypeOK
      <4>2. ~ch'[s].live /\ ~ch'[s].from_worker
        BY <4>1 DEF NoBlock
      <4> HIDE DEF Closing
      <4>3. Closers'[s] = {t}
        BY <1>6, <4>1 DEF ClosePc
      <4>4. OwnersOK(s)'
        BY <1>6, <3>2, <3>4, <3>6, <4>3, <4>1, <4>2 DEF OwnersOK
      <4>5. WorkerOK(s)' /\ PhaseOK(s)'
        BY <1>6, <3>2, <3>4, <3>6, <4>3, <4>1, <4>2 DEF WorkerOK, PhaseOK, RxCloses, Serving
      <4>6. CountOK(s)'
        BY <1>8, <3>3, <3>4 DEF CountOK
      <4> QED
        BY <4>4, <4>5, <4>6
    <3>7. CASE pc[t] = "unopen"
      <4>1. ch'[s] = ch[s] /\ pc'[t] = "free"
        BY <1>1, <2>4, <3>7 DEF TypeOK
      <4>2. h'[s].lc = "UNOPENED" /\ (h'[s].in_use <=> h[s].in_use)
        BY <1>1, <2>4, <3>7 DEF TypeOK, Handle
      <4> HIDE DEF Closing
      <4>3. Closers'[s] = {t}
        BY <1>6, <4>1 DEF ClosePc
      <4>4. OwnersOK(s)'
        BY <1>6, <3>2, <3>4, <3>7, <4>3, <4>1, <4>2 DEF OwnersOK
      <4>5. WorkerOK(s)' /\ PhaseOK(s)'
        BY <1>6, <3>2, <3>4, <3>7, <4>3, <4>1, <4>2 DEF WorkerOK, PhaseOK, RxCloses, Serving
      <4>6. CountOK(s)'
        BY <1>8, <3>3, <3>4 DEF CountOK
      <4> QED
        BY <4>4, <4>5, <4>6
    <3>8. CASE pc[t] = "free"
      <4>1. ch'[s] = ch[s] /\ pc'[t] = "idle"
        BY <1>1, <2>4, <3>8 DEF TypeOK
      <4>2. h'[s].lc = "UNOPENED" /\ ~h'[s].in_use
        BY <1>1, <2>4, <3>2, <3>8 DEF TypeOK, Handle
      <4> HIDE DEF Closing
      <4> QED
        BY <1>6, <1>8, <3>2, <3>3, <3>4, <3>8, <4>1, <4>2
        DEF OwnersOK, WorkerOK, PhaseOK, CountOK, RxCloses, OpenPc, ClosePc, Serving
    <3> QED
      BY <3>1, <3>5, <3>6, <3>7, <3>8
  <2> QED
    BY <2>1, <2>2, <2>3, <2>4
<1>10. Good' = Slots
  BY <1>3, <1>4, <1>9, ElsewhereKept DEF Good
<1> QED
  BY <1>2, <1>10 DEF IInv

\* A step of the worker of slot s keeps the invariant, whether it serves the
\* channel or closes it from a callback.
LEMMA WorkerStep ==
  ASSUME IInv, NEW s \in Slots, RxEnv(s) \/ RxStep(s)
  PROVE  IInv'
<1> USE DEF RxEnv, RxStep, RxFails, SelfClose, RxRead, RxLoop, RxWoken, Route, Lookup, CallbackReturns,
            NotifyLost, SelfShut, Epilogue, RxFinalize, Drained, Destroy, Unopen, Release, Cancel,
            RxGoto, threadVars
<1>1. TypeOK /\ OwnersOK(s) /\ WorkerOK(s) /\ PhaseOK(s) /\ CountOK(s)
  BY DEF IInv, Good
<1>2. TypeOK'
  BY <1>1, WorkerTypes
<1>3. UNCHANGED threadVars
  OBVIOUS
<1>4. \A d \in Slots : d # s => h'[d] = h[d] /\ ch'[d] = ch[d] /\ rx'[d] = rx[d]
  BY <1>1 DEF TypeOK
<1>5. UNCHANGED <<pc, Openers, Closers, Inside>>
  BY DEF Openers, Closers, Inside, Closes, Counted
<1>6. ASSUME NEW d \in Slots, d # s PROVE d \in Good'
  <2>1. OwnersOK(d) /\ WorkerOK(d) /\ PhaseOK(d) /\ CountOK(d) /\ h'[d] = h[d] /\ ch'[d] = ch[d] /\ rx'[d] = rx[d]
    BY <1>4, <1>6 DEF IInv, Good
  <2>2. RxCloses(d)' <=> RxCloses(d)
    BY <2>1 DEF RxCloses
  <2>3. OwnersOK(d)' /\ CountOK(d)'
    BY <1>5, <2>1 DEF OwnersOK, CountOK
  <2>4. WorkerOK(d)' /\ PhaseOK(d)'
    BY <1>5, <2>1, <2>2 DEF WorkerOK, PhaseOK
  <2> QED
    BY <2>3, <2>4 DEF Good
<1>8. ASSUME \/ RxLoop(s) \/ RxWoken(s) \/ RxFails(s) \/ Route(s) \/ Lookup(s) \/ CallbackReturns(s)
           \/ NotifyLost(s) \/ Epilogue(s) \/ \E f \in Calls \cup {Event} : RxRead(s, f)
      PROVE  s \in Good'
  <2>1. /\ h'[s].in_use <=> h[s].in_use
        /\ h'[s].lc = h[s].lc
        /\ h'[s].cnt = h[s].cnt
        /\ h[s].link = "DOWN" => h'[s].link = "DOWN"
    <3>1. h' = h \/ (h[s].link = "UP" /\ h' = [h EXCEPT ![s].link = "LOST"])
      BY <1>8, Zenon
    <3> HIDE DEF RxEnv, RxStep
    <3> QED
      BY <1>1, <3>1 DEF TypeOK, Handle
  <2>2. /\ ch'[s].live <=> ch[s].live
        /\ ch'[s].from_worker <=> ch[s].from_worker
        /\ ch'[s].rx_run <=> ch[s].rx_run
    <3>1. ch' = ch \/ ch' = [ch EXCEPT ![s].pending = None, ![s].result = frame[s]]
      BY <1>8, Zenon
    <3> HIDE DEF RxEnv, RxStep
    <3>2. CASE ch' = ch
      BY <3>2
    <3>3. CASE ch' = [ch EXCEPT ![s].pending = None, ![s].result = frame[s]]
      BY <1>1, <3>3 DEF TypeOK, Block
    <3> QED
      BY <3>1, <3>2, <3>3
  <2>3. rx[s] \in Serving /\ rx'[s] \in Serving \cup {"done", "drain"}
    BY <1>1, <1>8 DEF TypeOK, Serving
  <2>4. /\ ~ch[s].from_worker => rx'[s] # "drain"
        /\ ch[s].from_worker => rx'[s] \in {"loop", "epilogue", "drain"}
    BY <1>1, <1>8 DEF TypeOK, WorkerOK
  <2>5. RxCloses(s)' <=> RxCloses(s)
    BY <1>1, <2>2, <2>3, <2>4 DEF RxCloses, Serving, WorkerOK
  <2>6. OwnersOK(s)' /\ CountOK(s)'
    <3> HIDE DEF RxEnv, RxStep
    <3> QED
      BY <1>1, <1>5, <2>1, <2>2, <2>3, <2>4, <2>5 DEF OwnersOK, CountOK, Serving, WorkerOK
  <2>7. WorkerOK(s)' /\ PhaseOK(s)'
    <3> HIDE DEF RxEnv, RxStep
    <3> QED
      BY <1>1, <1>5, <2>1, <2>2, <2>3, <2>4, <2>5 DEF WorkerOK, PhaseOK, Serving
  <2> QED
    BY <2>6, <2>7 DEF Good
<1>9. ASSUME SelfClose(s) PROVE s \in Good'
  <2>1. /\ h'[s].in_use <=> h[s].in_use
        /\ h'[s].lc = "CLOSING"
        /\ h'[s].cnt = h[s].cnt
    BY <1>1, <1>9 DEF TypeOK, Handle
  <2>2. ch'[s] = ch[s] /\ rx[s] \in {"cb", "link_cb"} /\ rx'[s] \in {"cb_shut", "link_shut"}
    BY <1>1, <1>9 DEF TypeOK
  <2>3. h[s].in_use /\ ~ch[s].from_worker /\ ch[s].live /\ Openers[s] = {} /\ Closers[s] = {}
    BY <1>1, <1>9 DEF PhaseOK
  <2>4. OwnersOK(s)' /\ CountOK(s)'
    BY <1>1, <1>5, <2>1, <2>2, <2>3 DEF OwnersOK, CountOK
  <2>5. WorkerOK(s)' /\ PhaseOK(s)'
    BY <1>1, <1>5, <2>1, <2>2, <2>3 DEF WorkerOK, PhaseOK, RxCloses, Serving
  <2> QED
    BY <2>4, <2>5 DEF Good
<1>10. ASSUME SelfShut(s) PROVE s \in Good'
  <2>1. h'[s] = h[s] /\ rx[s] \in {"cb_shut", "link_shut"} /\ rx'[s] \in {"cb", "link_cb"}
    BY <1>1, <1>10 DEF TypeOK
  <2>2. (ch'[s].live <=> ch[s].live) /\ ch'[s].from_worker /\ ~ch'[s].rx_run
    BY <1>1, <1>10 DEF TypeOK, Block
  <2>3. /\ h[s].in_use /\ h[s].lc = "CLOSING" /\ ch[s].live /\ Openers[s] = {} /\ Closers[s] = {}
    BY <1>1, <2>1 DEF WorkerOK, RxCloses
  <2>4. OwnersOK(s)' /\ CountOK(s)'
    BY <1>1, <1>5, <2>1, <2>2, <2>3 DEF OwnersOK, CountOK
  <2>5. WorkerOK(s)' /\ PhaseOK(s)'
    BY <1>1, <1>5, <2>1, <2>2, <2>3 DEF WorkerOK, PhaseOK, RxCloses, Serving
  <2> QED
    BY <2>4, <2>5 DEF Good
<1>11. ASSUME RxFinalize(s) PROVE s \in Good'
  <2>1. rx[s] \in {"drain", "destroy", "unopen", "free"}
    BY <1>11
  <2>2. h[s].in_use /\ Openers[s] = {} /\ Closers[s] = {}
    BY <1>1, <2>1 DEF WorkerOK, RxCloses
  <2>3. Inside[s] = {}
    <3>1. CASE rx[s] = "drain"
      <4>1. Cardinality(Inside[s]) = 0 /\ Inside[s] \in SUBSET Threads
        BY <1>1, <1>11, <3>1 DEF CountOK, Inside
      <4> QED
        BY <4>1, Cardinalities
    <3>2. CASE rx[s] # "drain"
      BY <1>1, <2>1, <3>2 DEF CountOK, WorkerOK
    <3> QED
      BY <3>1, <3>2
  <2>4. h'[s].cnt = h[s].cnt
    BY <1>1, <1>11 DEF TypeOK, Handle
  <2>5. OwnersOK(s)' /\ CountOK(s)'
    BY <1>1, <1>5, <2>2, <2>3, <2>4 DEF OwnersOK, CountOK
  <2>6. CASE rx[s] = "drain"
    <3>1. h'[s] = h[s] /\ ch'[s] = ch[s] /\ rx'[s] = "destroy"
      BY <1>1, <1>11, <2>6 DEF TypeOK
    <3>2. WorkerOK(s)' /\ PhaseOK(s)'
      BY <1>1, <1>5, <2>2, <2>6, <3>1 DEF WorkerOK, PhaseOK, RxCloses, Serving
    <3> QED
      BY <2>5, <3>2 DEF Good
  <2>7. CASE rx[s] = "destroy"
    <3>1. h'[s] = h[s] /\ ch'[s] = NoBlock /\ rx'[s] = "unopen"
      BY <1>1, <1>11, <2>7 DEF TypeOK
    <3>2. ~ch'[s].live /\ ~ch'[s].from_worker
      BY <3>1 DEF NoBlock
    <3>3. WorkerOK(s)' /\ PhaseOK(s)'
      BY <1>1, <1>5, <2>2, <2>7, <3>1, <3>2 DEF WorkerOK, PhaseOK, RxCloses, Serving
    <3> QED
      BY <2>5, <3>3 DEF Good
  <2>8. CASE rx[s] = "unopen"
    <3>1. ch'[s] = ch[s] /\ rx'[s] = "free"
      BY <1>1, <1>11, <2>8 DEF TypeOK
    <3>2. h'[s].lc = "UNOPENED" /\ (h'[s].in_use <=> h[s].in_use)
      BY <1>1, <1>11, <2>8 DEF TypeOK, Handle
    <3>3. WorkerOK(s)' /\ PhaseOK(s)'
      BY <1>1, <1>5, <2>2, <2>8, <3>1, <3>2 DEF WorkerOK, PhaseOK, RxCloses, Serving
    <3> QED
      BY <2>5, <3>3 DEF Good
  <2>9. CASE rx[s] = "free"
    <3>1. ch'[s] = ch[s] /\ rx'[s] = "none"
      BY <1>1, <1>11, <2>9 DEF TypeOK
    <3>2. h'[s].lc = h[s].lc /\ ~h'[s].in_use
      BY <1>1, <1>11, <2>9 DEF TypeOK, Handle
    <3>3. WorkerOK(s)' /\ PhaseOK(s)'
      BY <1>1, <1>5, <2>2, <2>9, <3>1, <3>2 DEF WorkerOK, PhaseOK, RxCloses, Serving
    <3> QED
      BY <2>5, <3>3 DEF Good
  <2> QED
    BY <2>1, <2>6, <2>7, <2>8, <2>9
<1>12. Good' = Slots
  BY <1>6, <1>8, <1>9, <1>10, <1>11 DEF Good
<1> QED
  BY <1>2, <1>12 DEF IInv

\* Both invariants hold of the zeroed pool.
LEMMA InitHolds == Init => IInv /\ CInv
<1> SUFFICES ASSUME Init PROVE IInv /\ CInv
  OBVIOUS
<1>1. TypeOK
  <2>1. FreeHandle \in Handle
    BY DEF FreeHandle, Handle, Lifecycle
  <2>2. NoBlock \in Block
    BY DEF NoBlock, Block, None
  <2>3. 1 \in Slots /\ None \in Nat
    BY DEF Slots, None
  <2> QED
    BY <2>1, <2>2, <2>3 DEF Init, TypeOK, RxPc, Pc
<1>2. ASSUME NEW s \in Slots PROVE s \in Good /\ s \in Matched
  <2>1. /\ Openers[s] = {}
        /\ Closers[s] = {}
        /\ Inside[s] = {}
        /\ Callers[s] = {}
    BY DEF Init, Openers, Closers, Inside, Callers, OpenPc, Closes, Counted
  <2>2. ~h[s].in_use /\ h[s].lc = "UNOPENED" /\ h[s].cnt = 0
    BY DEF Init, FreeHandle
  <2>3. ~ch[s].live /\ ~ch[s].from_worker /\ ~ch[s].poisoned
    BY DEF Init, NoBlock
  <2>4. rx[s] = "none" /\ frame[s] = None /\ Late[s] = {} /\ owed[s] = {} /\ issued[s] = 0
    BY DEF Init, Late
  <2>5. OwnersOK(s) /\ WorkerOK(s) /\ PhaseOK(s)
    BY <2>1, <2>2, <2>3, <2>4 DEF OwnersOK, WorkerOK, PhaseOK, RxCloses, Serving
  <2>6. CountOK(s)
    BY <2>1, <2>2, Cardinalities DEF CountOK
  <2>7. CallsOK(s)
    BY <2>1, <2>3, <2>4 DEF CallsOK, InOrder, Numbered, None
  <2> QED
    BY <2>5, <2>6, <2>7 DEF Good, Matched
<1> QED
  BY <1>1, <1>2 DEF IInv, CInv, Good, Matched

\* The ownership invariant is inductive.
LEMMA Inductive ==
  ASSUME IInv, [Next]_vars
  PROVE  IInv'
<1>1. CASE UNCHANGED vars
  <2>1. UNCHANGED <<Openers, Closers, Inside>>
    BY <1>1 DEF vars, Openers, Closers, Inside, Closes, Counted
  <2>2. UNCHANGED Good
    BY <1>1, <2>1 DEF vars, Good, OwnersOK, WorkerOK, PhaseOK, CountOK, RxCloses
  <2> QED
    BY <1>1, <2>2 DEF vars, IInv, TypeOK
<1>2. ASSUME NEW t \in Threads, Env(t) \/ Step(t) PROVE IInv'
  <2>1. at[t] \in Slots
    BY DEF IInv, TypeOK
  <2>2. Passing(t) \/ Closing(t, at[t]) \/ \E s \in Slots : Opening(t, s)
    BY <1>2, <2>1 DEF Env, Step, Passing, Closing, Opening
  <2> QED
    BY <2>1, <2>2, PassingStep, OpeningStep, ClosingStep
<1> QED
  BY <1>1, <1>2, WorkerStep DEF Next

\* An open slot has a block, and a closing one keeps it until it is drained.
LEMMA IInvImpliesNoUse == IInv => NoUseAfterFree
<1> SUFFICES ASSUME IInv, NEW s \in Slots
             PROVE  /\ \A t \in Threads : Counted(t, s) => ch[s].live
                    /\ rx[s] \notin {"none", "done", "unopen", "free"} => ch[s].live
  BY DEF NoUseAfterFree
<1>1. OwnersOK(s) /\ WorkerOK(s) /\ PhaseOK(s) /\ CountOK(s) /\ h[s].lc \in Lifecycle /\ rx[s] \in RxPc
  BY DEF IInv, Good, TypeOK, Handle
<1>2. rx[s] \notin {"none", "done", "unopen", "free"} => ch[s].live
  BY <1>1 DEF WorkerOK, RxPc, SelfClosing
<1>3. ASSUME NEW t \in Threads, Counted(t, s) PROVE ch[s].live
  <2>1. Inside[s] # {}
    BY <1>3 DEF Inside
  <2>2. /\ h[s].lc # "UNOPENED" /\ rx[s] \notin {"destroy", "unopen"}
        /\ \A u \in Closers[s] : pc[u] # "unopen"
    BY <1>1, <2>1 DEF CountOK
  <2>3. CASE h[s].lc = "OPEN"
    BY <1>1, <2>3 DEF PhaseOK
  <2>4. CASE h[s].lc = "CLOSING" /\ Closers[s] # {}
    BY <1>1, <2>2, <2>4 DEF OwnersOK
  <2>5. CASE h[s].lc = "CLOSING" /\ RxCloses(s)
    BY <1>1, <2>2, <2>5 DEF WorkerOK, RxCloses, Serving
  <2> QED
    BY <1>1, <2>2, <2>3, <2>4, <2>5 DEF PhaseOK, Lifecycle
<1> QED
  BY <1>2, <1>3

\* Neither an op in flight nor the rx worker works on a freed backend block.
THEOREM NoOneUsesAFreedBlock == Spec => []NoUseAfterFree
BY IInvImpliesNoUse, InitHolds, Inductive, PTL DEF Spec

\* A close has exactly one owner, an application thread or the rx worker.
THEOREM OneFinalizerPerClose == Spec => []OneFinalizer
<1>1. IInv => OneFinalizer
  <2> SUFFICES ASSUME IInv, NEW s \in Slots
               PROVE  LET n == Cardinality(Closers[s]) + (IF RxCloses(s) THEN 1 ELSE 0)
                      IN  n <= 1 /\ (h[s].lc = "CLOSING" => n = 1)
    BY Zenon DEF OneFinalizer, Closers
  <2>1. OwnersOK(s) /\ WorkerOK(s) /\ PhaseOK(s)
    BY DEF IInv, Good
  <2>2. Cardinality(Closers[s]) = IF Closers[s] = {} THEN 0 ELSE 1
    BY <2>1, AtMostOne DEF OwnersOK
  <2>3. RxCloses(s) => Closers[s] = {}
    BY <2>1 DEF WorkerOK
  <2>4. h[s].lc = "CLOSING" => Closers[s] # {} \/ RxCloses(s)
    BY <2>1 DEF PhaseOK
  <2> QED
    BY <2>2, <2>3, <2>4
<1> QED
  BY <1>1, InitHolds, Inductive, PTL DEF Spec

\* Updates of the handle that leave a LOST link LOST.
LEMMA LinkKept ==
  ASSUME TypeOK, NEW a \in Slots, NEW s \in Slots, h[s].link = "LOST"
  PROVE  /\ h' = [h EXCEPT ![a].in_use = FALSE] => h'[s].link = "LOST"
         /\ \A l : h' = [h EXCEPT ![a].lc = l] => h'[s].link = "LOST"
         /\ \A n : h' = [h EXCEPT ![a].cnt = n] => h'[s].link = "LOST"
         /\ \A l, n : h' = [h EXCEPT ![a].lc = l, ![a].cnt = n] => h'[s].link = "LOST"
         /\ h' = [h EXCEPT ![a].link_cb = TRUE] => h'[s].link = "LOST"
         /\ h' = [h EXCEPT ![a].link = "LOST"] => h'[s].link = "LOST"
<1> USE DEF TypeOK, Handle
<1>1. h' = [h EXCEPT ![a].in_use = FALSE] => h'[s].link = "LOST"
  OBVIOUS
<1>2. \A l : h' = [h EXCEPT ![a].lc = l] => h'[s].link = "LOST"
  OBVIOUS
<1>3. \A n : h' = [h EXCEPT ![a].cnt = n] => h'[s].link = "LOST"
  OBVIOUS
<1>4. \A l, n : h' = [h EXCEPT ![a].lc = l, ![a].cnt = n] => h'[s].link = "LOST"
  OBVIOUS
<1>5. h' = [h EXCEPT ![a].link_cb = TRUE] => h'[s].link = "LOST"
  OBVIOUS
<1>6. h' = [h EXCEPT ![a].link = "LOST"] => h'[s].link = "LOST"
  OBVIOUS
<1> QED
  BY <1>1, <1>2, <1>3, <1>4, <1>5, <1>6

\* A LOST link stays LOST until its slot is reopened: the only UP report is
\* made by the opener, on the link it has itself just reset.
THEOREM LostLinkStaysLost == Spec => LostIsFinal
<1>1. ASSUME IInv, Next PROVE \A s \in Slots : h[s].link = "LOST" => h'[s].link \in {"LOST", "DOWN"}
  <2> SUFFICES ASSUME NEW s \in Slots, h[s].link = "LOST" PROVE h'[s].link \in {"LOST", "DOWN"}
    OBVIOUS
  <2>1. TypeOK
    BY <1>1 DEF IInv
  <2>2. CASE \E t \in Threads : Bind(t)
    <3>1. PICK t \in Threads : Bind(t)
      BY <2>2
    <3>2. t \in Openers[at[t]] /\ at[t] \in Slots
      BY <2>1, <3>1 DEF Bind, Openers, OpenPc, TypeOK
    <3>3. h[at[t]].link = "DOWN"
      BY <1>1, <3>1, <3>2 DEF Bind, IInv, Good, OwnersOK
    <3>4. h' = h \/ h' = [h EXCEPT ![at[t]].link = "UP"]
      BY <3>1 DEF Bind
    <3> QED
      BY <2>1, <3>2, <3>3, <3>4 DEF TypeOK, Handle
  <2>3. CASE ~(\E t \in Threads : Bind(t)) /\ \E t \in Threads : Env(t) \/ Step(t)
    <3>1. PICK t \in Threads : Env(t) \/ Step(t)
      BY <2>3
    <3>2. PICK a \in Slots : \/ h' = h
                             \/ h' = [h EXCEPT ![a] = [FreeHandle EXCEPT !.in_use = TRUE]]
                             \/ h' = [h EXCEPT ![a].lc = "OPEN", ![a].cnt = 0]
                             \/ h' = [h EXCEPT ![a].in_use = FALSE]
                             \/ h' = [h EXCEPT ![a].cnt = @ + 1]
                             \/ h' = [h EXCEPT ![a].cnt = @ - 1]
                             \/ h' = [h EXCEPT ![a].link_cb = TRUE]
                             \/ h' = [h EXCEPT ![a].lc = "CLOSING"]
                             \/ h' = [h EXCEPT ![a].lc = "UNOPENED"]
      <4>1. at[t] \in Slots
        BY <2>1 DEF TypeOK
      <4> QED
        BY <2>3, <3>1, <4>1, Zenon
        DEF Env, Step, Claim, StartClose, StartOp, Timeout, NoDeadline, Spawn, Publish, Unclaim,
            Enter, Register, LinkGate, Send, Stage, Write, WakeUp, UnlockTx, Leave, Elect, Shut,
            WakeRx, Join, Finalize, Destroy, Unopen, Release
    <3>3. CASE h' = [h EXCEPT ![a] = [FreeHandle EXCEPT !.in_use = TRUE]]
      BY <2>1, <3>3 DEF TypeOK, FreeHandle
    <3>4. CASE ~(h' = [h EXCEPT ![a] = [FreeHandle EXCEPT !.in_use = TRUE]])
      BY <2>1, <3>2, <3>4, LinkKept
    <3> QED
      BY <3>3, <3>4
  <2>4. CASE \E d \in Slots : RxEnv(d) \/ RxStep(d)
    <3>1. PICK d \in Slots : RxEnv(d) \/ RxStep(d)
      BY <2>4
    <3>2. \/ h' = h
          \/ h' = [h EXCEPT ![d].in_use = FALSE]
          \/ h' = [h EXCEPT ![d].link = "LOST"]
          \/ h' = [h EXCEPT ![d].lc = "CLOSING"]
          \/ h' = [h EXCEPT ![d].lc = "UNOPENED"]
      BY <3>1, Zenon
      DEF RxEnv, RxStep, RxFails, SelfClose, RxRead, RxLoop, RxWoken, Route, Lookup, CallbackReturns,
          NotifyLost, SelfShut, Epilogue, RxFinalize, Destroy, Unopen, Release
    <3> QED
      BY <2>1, <3>2, LinkKept
  <2> QED
    BY <1>1, <2>2, <2>3, <2>4 DEF Next
<1>2. IInv /\ [Next]_vars
        => [\A s \in Slots : h[s].link = "LOST" => h'[s].link \in {"LOST", "DOWN"}]_vars
  BY <1>1
<1> QED
  BY <1>2, InitHolds, Inductive, PTL DEF Spec, LostIsFinal

-----------------------------------------------------------------------------
\* A call in flight is an op in flight.
LEMMA CallersAreInside ==
  ASSUME IInv, NEW s \in Slots
  PROVE  /\ Callers[s] \subseteq Inside[s]
         /\ Inside[s] # {} => /\ ch[s].live /\ h[s].lc # "UNOPENED" /\ rx[s] # "destroy"
                              /\ \A t \in Closers[s] : pc[t] # "destroy"
<1>1. NoUseAfterFree /\ CountOK(s)
  BY IInvImpliesNoUse DEF IInv, Good
<1>2. Callers[s] \subseteq Inside[s]
  BY DEF Callers, Inside, Counted
<1>3. Inside[s] # {} => ch[s].live
  BY <1>1 DEF NoUseAfterFree, Inside
<1> QED
  BY <1>1, <1>2, <1>3 DEF CountOK

\* A step that leaves a slot's call state alone keeps its replies in order.
LEMMA CallsKept ==
  ASSUME IInv, CInv, NEW t \in Threads, Others(t), NEW s \in Slots,
         t \notin Callers[s], t \notin Callers'[s],
         rx'[s] \in {"route", "lookup"} <=> rx[s] \in {"route", "lookup"},
         frame'[s] = frame[s], owed'[s] = owed[s], issued'[s] = issued[s], astray'[s] = astray[s],
         ch'[s].live <=> ch[s].live, ch'[s].closing <=> ch[s].closing,
         ch'[s].poisoned <=> ch[s].poisoned,
         ch'[s].tx = ch[s].tx, ch'[s].pending = ch[s].pending, ch'[s].result = ch[s].result
  PROVE  s \in Matched'
<1>1. CallsOK(s)
  BY DEF CInv, Matched
<1>2. Callers'[s] = Callers[s] /\ Late'[s] = Late[s]
  BY SetsSame DEF Late
<1>3. \A u \in Callers[s] : pc'[u] = pc[u] /\ tok'[u] = tok[u]
  BY SetsMove DEF Others
<1>4. InOrder(s) => InOrder(s)'
  BY <1>2, <1>3 DEF InOrder
<1>5. Numbered(s)'
  BY <1>1, <1>2, <1>3 DEF CallsOK, Numbered
<1>6. CallsOK(s)'
  BY <1>1, <1>2, <1>3, <1>4, <1>5 DEF CallsOK
<1> QED
  BY <1>6 DEF Matched

\* tx_mutex: the only call in flight on s is t's.
LEMMA CallSlot ==
  ASSUME IInv, CInv, NEW t \in Threads, Others(t), NEW s \in Slots, at[t] = s, at'[t] = s,
         Callers[s] \subseteq {t}
  PROVE  /\ Callers[s] = IF pc[t] \in {"write", "wait", "unlock"} THEN {t} ELSE {}
         /\ Callers'[s] = IF pc'[t] \in {"write", "wait", "unlock"} THEN {t} ELSE {}
<1>1. /\ t \in Callers[s] <=> pc[t] \in {"write", "wait", "unlock"}
      /\ t \in Callers'[s] <=> pc'[t] \in {"write", "wait", "unlock"}
  BY DEF Callers
<1>2. Callers'[s] \subseteq {t}
  <2>1. Callers'[s] \subseteq Threads /\ \A u \in Threads : u # t => u \notin Callers'[s]
    BY SetsMove
  <2> QED
    BY <2>1
<1> QED
  BY <1>1, <1>2

\* Steps of the call in flight.
Calling(t) ==
  \/ Stage(t) /\ ~ch[at[t]].closing /\ ~ch[at[t]].poisoned
  \/ Write(t) \/ WakeUp(t) \/ Timeout(t) \/ NoDeadline(t) \/ UnlockTx(t)

\* Such a step keeps the replies in order: a call ends answered, withdrawn
\* before it was sent, cancelled by a close, by poisoning the channel, or with
\* its reply astray.
LEMMA CallingStep ==
  ASSUME IInv, CInv, NEW t \in Threads, NEW s \in Slots, at[t] = s, Calling(t)
  PROVE  CInv'
<1> USE DEF Calling, Stage, Write, WakeUp, Timeout, NoDeadline, UnlockTx, Goto, peerVars
<1>1. TypeOK /\ s \in Slots /\ CallsOK(s)
  BY DEF IInv, TypeOK, CInv, Matched
<1>2. Others(t) /\ at'[t] = s
  BY <1>1 DEF Others, TypeOK
<1>3. /\ \A d \in Slots : d # s => /\ ch'[d] = ch[d] /\ owed'[d] = owed[d]
                                   /\ issued'[d] = issued[d] /\ astray'[d] = astray[d]
      /\ UNCHANGED <<rx, frame>>
  BY <1>1 DEF TypeOK
<1>4. ASSUME NEW d \in Slots, d # s PROVE d \in Matched'
  <2>1. t \notin Callers[d] /\ t \notin Callers'[d]
    BY <1>2, <1>4 DEF Callers
  <2> HIDE DEF Calling
  <2> QED
    BY <1>2, <1>3, <1>4, <2>1, CallsKept
<1>5. Callers[s] \subseteq {t}
  <2>1. CASE Stage(t)
    BY <1>1, <2>1 DEF CallsOK, Callers
  <2>2. CASE ~Stage(t)
    <3>1. t \in Callers[s]
      BY <1>1, <2>2 DEF Callers
    <3> QED
      BY <1>1, <3>1 DEF CallsOK
  <2> QED
    BY <2>1, <2>2
<1>6. /\ Callers[s] = IF pc[t] \in {"write", "wait", "unlock"} THEN {t} ELSE {}
      /\ Callers'[s] = IF pc'[t] \in {"write", "wait", "unlock"} THEN {t} ELSE {}
  BY <1>1, <1>2, <1>5, CallSlot
<1>7. /\ Late[s] = ((owed[s] \cup {frame[s]}) \ {None, Event}) \ astray[s]
      /\ Late'[s] = ((owed'[s] \cup {frame[s]}) \ {None, Event}) \ astray'[s]
  BY <1>1, <1>3 DEF Late
<1>8. CASE Stage(t)
  <2>1. /\ ch'[s].tx = t /\ ch'[s].pending = issued[s] + 1 /\ (ch'[s].live <=> ch[s].live)
        /\ ~ch'[s].poisoned /\ ~ch'[s].closing
    BY <1>1, <1>8, SMTT(30) DEF TypeOK, Block
  <2>2. /\ issued'[s] = issued[s] + 1 /\ issued[s] \in Nat /\ tok'[t] = issued[s] + 1 /\ pc'[t] = "write"
        /\ owed'[s] = owed[s] /\ astray'[s] = astray[s] /\ Callers[s] = {} /\ Callers'[s] = {t}
        /\ owed[s] \subseteq Nat /\ frame[s] \in Nat
    BY <1>1, <1>6, <1>8 DEF TypeOK
  <2>3. Late[s] = {} /\ InOrder(s)
    BY <1>1, <1>8, <2>2 DEF CallsOK, InOrder
  <2>4. Late'[s] = {}
    BY <1>7, <2>2, <2>3
  <2> HIDE DEF Calling
  <2>5. InOrder(s)'
    BY <1>3, <2>1, <2>2, <2>3, <2>4 DEF InOrder
  <2>6. Numbered(s)'
    BY <1>1, <1>3, <2>2 DEF CallsOK, Numbered
  <2>7. CallsOK(s)'
    BY <1>1, <1>3, <2>1, <2>2, <2>4, <2>5, <2>6 DEF CallsOK
  <2> QED
    BY <1>1, <1>4, <2>7 DEF CInv, Matched
<1>9. CASE Write(t) /\ pc'[t] = "wait"
  <2>1. /\ ch'[s] = ch[s] /\ issued'[s] = issued[s] /\ tok'[t] = tok[t] /\ tok[t] = issued[s]
        /\ owed'[s] = owed[s] \cup {tok[t]} /\ Callers[s] = {t} /\ Callers'[s] = {t}
        /\ pc[t] = "write" /\ issued[s] # 0 /\ astray'[s] = astray[s] /\ issued[s] \in Nat
    BY <1>1, <1>6, <1>9 DEF TypeOK, CallsOK
  <2>2. ch[s].live
    BY <1>1, <2>1, CallersAreInside
  <2> HIDE DEF Calling
  <2>3. ASSUME InOrder(s) PROVE InOrder(s)'
    <3>1. /\ Late[s] = {}
          /\ \/ ch[s].pending = issued[s]
             \/ ch[s].pending = None /\ {ch[s].result, issued[s]} \subseteq astray[s]
      BY <2>1, <2>3 DEF InOrder
    <3>2. Late'[s] \subseteq {issued[s]} \ astray[s]
      BY <1>7, <2>1, <3>1
    <3>3. frame[s] # Event => frame[s] # issued[s]
      BY <1>1, <2>1 DEF CallsOK, Numbered
    <3> QED
      BY <1>3, <1>9, <2>1, <2>3, <3>1, <3>2, <3>3 DEF InOrder
  <2>4. ~ch[s].poisoned
    BY <1>1, <2>1 DEF CallsOK
  <2>5. Numbered(s)'
    BY <1>1, <1>3, <1>9, <2>1 DEF CallsOK, Numbered
  <2>6. CallsOK(s)'
    BY <1>1, <1>3, <2>1, <2>2, <2>3, <2>4, <2>5 DEF CallsOK
  <2> QED
    BY <1>1, <1>4, <2>6 DEF CInv, Matched
<1>10. CASE pc'[t] = "unlock"
  <2>1. /\ issued'[s] = issued[s] /\ tok'[t] = tok[t] /\ owed'[s] = owed[s]
        /\ Callers[s] = {t} /\ Callers'[s] = {t} /\ pc[t] \in {"write", "wait"}
        /\ astray'[s] = astray[s] \cup (IF NoDeadline(t) THEN {issued[s]} ELSE {})
    BY <1>1, <1>6, <1>10 DEF TypeOK, CallsOK
  <2>2. /\ ch'[s].tx = ch[s].tx
        /\ ch'[s].live <=> ch[s].live
        /\ ch'[s].closing <=> ch[s].closing
        /\ ch'[s].poisoned <=> (ch[s].poisoned \/ Timeout(t))
    <3>1. CASE Timeout(t)
      BY <1>1, <3>1 DEF TypeOK, Block
    <3>2. CASE ~Timeout(t)
      <4>1. ch' = [ch EXCEPT ![s].pending = None]
        BY <1>1, <1>10, <3>2 DEF TypeOK
      <4> HIDE DEF Calling, Timeout
      <4> QED
        BY <1>1, <3>2, <4>1 DEF TypeOK, Block
    <3> QED
      BY <3>1, <3>2
  <2>3. ASSUME ~ch[s].closing, InOrder(s), ~Timeout(t)
        PROVE  Late[s] \subseteq {issued[s]} /\ (Late[s] = {} \/ NoDeadline(t))
    <3>1. pc[t] = "write" \/ ch[s].pending = None \/ NoDeadline(t)
      BY <1>10, <2>1, <2>3
    <3>2. issued[s] # 0
      BY <1>1, <2>1 DEF CallsOK
    <3> HIDE DEF Calling, Timeout, NoDeadline
    <3> QED
      BY <2>1, <2>3, <3>1, <3>2 DEF InOrder, None
  <2> HIDE DEF Calling, Timeout, NoDeadline
  <2>4. ASSUME ~ch[s].closing, InOrder(s), ~Timeout(t) PROVE InOrder(s)'
    <3>1. Late'[s] = {}
      BY <1>7, <2>1, <2>3, <2>4
    <3> QED
      BY <1>3, <1>10, <2>1, <2>4, <3>1 DEF InOrder
  <2>5. Numbered(s)'
    BY <1>1, <1>3, <1>10, <2>1 DEF CallsOK, Numbered
  <2>6. Late'[s] \subseteq Late[s]
    BY <1>7, <2>1
  <2>7. CallsOK(s)'
    BY <1>1, <1>3, <1>10, <2>1, <2>2, <2>4, <2>5, <2>6 DEF CallsOK
  <2> QED
    BY <1>1, <1>4, <2>7 DEF CInv, Matched
<1>11. CASE UnlockTx(t)
  <2>1. /\ issued'[s] = issued[s] /\ owed'[s] = owed[s] /\ astray'[s] = astray[s]
        /\ Callers[s] = {t} /\ Callers'[s] = {} /\ pc[t] = "unlock"
    BY <1>1, <1>6, <1>11 DEF TypeOK
  <2>2. /\ ch'[s].live <=> ch[s].live
        /\ ch'[s].closing <=> ch[s].closing
        /\ ch'[s].poisoned <=> ch[s].poisoned
    BY <1>1, <1>11 DEF TypeOK, Block
  <2> HIDE DEF Calling
  <2>3. ASSUME InOrder(s) PROVE InOrder(s)'
    <3>1. Late[s] = {}
      BY <2>1, <2>3 DEF InOrder
    <3>2. Late'[s] = {}
      BY <1>7, <2>1, <3>1
    <3> QED
      BY <1>3, <2>1, <2>3, <3>2 DEF InOrder
  <2>4. Numbered(s)'
    BY <1>1, <1>3, <2>1 DEF CallsOK, Numbered
  <2>5. Late'[s] = Late[s]
    BY <1>7, <2>1
  <2>6. CallsOK(s)'
    BY <1>1, <1>3, <2>1, <2>2, <2>3, <2>4, <2>5 DEF CallsOK
  <2> QED
    BY <1>1, <1>4, <2>6 DEF CInv, Matched
<1>12. Stage(t) \/ (Write(t) /\ pc'[t] = "wait") \/ pc'[t] = "unlock" \/ UnlockTx(t)
  BY <1>1 DEF TypeOK
<1> QED
  BY <1>8, <1>9, <1>10, <1>11, <1>12

\* Steps of a thread that change no call in flight.
Quiet(t) ==
  \/ \E s \in Slots : Claim(t, s) \/ StartClose(t, s) \/ \E o \in Ops : StartOp(t, s, o)
  \/ Bind(t) \/ Spawn(t) \/ Publish(t) \/ Unclaim(t) \/ Enter(t) \/ Register(t) \/ LinkGate(t)
  \/ Send(t) \/ (Stage(t) /\ (ch[at[t]].closing \/ ch[at[t]].poisoned)) \/ Leave(t)
  \/ Elect(t) \/ Shut(t) \/ WakeRx(t) \/ Join(t) \/ Finalize(t)

\* Such a step keeps the replies in order: a block is created and destroyed
\* with nothing in flight, and a shutdown closes the channel for later calls.
LEMMA QuietStep ==
  ASSUME IInv, CInv, NEW t \in Threads, Quiet(t)
  PROVE  CInv'
<1> USE DEF Quiet, Claim, StartClose, StartOp, Bind, Spawn, Publish, Unclaim, Enter, Register, LinkGate,
            Send, Stage, Leave, Elect, Shut, WakeRx, Join, Finalize, Destroy, Unopen, Release,
            Cancel, Goto, RxGoto, peerVars
<1>1. TypeOK /\ at[t] \in Slots
  BY DEF IInv, TypeOK
<1>2. Others(t) /\ UNCHANGED frame
  BY <1>1 DEF Others, TypeOK
<1>3. \A s \in Slots : t \notin Callers[s] /\ t \notin Callers'[s]
  BY <1>1 DEF TypeOK, Callers
<1>4. \/ ch' = ch /\ UNCHANGED peerVars
      \/ ch' = [ch EXCEPT ![at[t]].sub = (op[t] = "subscribe")] /\ UNCHANGED peerVars
      \/ ch' = [ch EXCEPT ![at[t]].rx_run = FALSE] /\ UNCHANGED peerVars
      \/ Spawn(t) /\ pc'[t] = "publish"
      \/ Shut(t)
      \/ pc[t] = "destroy" /\ Finalize(t)
  BY <1>1 DEF TypeOK
<1>5. \A s \in Slots : rx'[s] \in {"route", "lookup"} <=> rx[s] \in {"route", "lookup"}
  <2>1. Spawn(t) => rx[at[t]] = "none"
    <3>1. Spawn(t) => t \in Openers[at[t]]
      BY <1>1 DEF Openers, OpenPc
    <3> QED
      BY <1>1, <3>1 DEF IInv, Good, OwnersOK
  <2> QED
    BY <1>1, <2>1 DEF TypeOK
<1>6. ASSUME NEW s \in Slots,
             \/ s # at[t]
             \/ ch' = ch /\ UNCHANGED peerVars
             \/ ch' = [ch EXCEPT ![at[t]].sub = (op[t] = "subscribe")] /\ UNCHANGED peerVars
             \/ ch' = [ch EXCEPT ![at[t]].rx_run = FALSE] /\ UNCHANGED peerVars
      PROVE  s \in Matched'
  <2>1. owed'[s] = owed[s] /\ issued'[s] = issued[s] /\ astray'[s] = astray[s]
    BY <1>1, <1>4, <1>6 DEF TypeOK
  <2>2. s # at[t] => ch'[s] = ch[s]
    BY <1>1, <1>4 DEF TypeOK
  <2> HIDE DEF Quiet
  <2>3. /\ ch'[s].live <=> ch[s].live
        /\ ch'[s].closing <=> ch[s].closing
        /\ ch'[s].poisoned <=> ch[s].poisoned
        /\ ch'[s].tx = ch[s].tx
        /\ ch'[s].pending = ch[s].pending
        /\ ch'[s].result = ch[s].result
    <3>1. CASE s # at[t]
      BY <2>2, <3>1
    <3>2. CASE ch' = ch
      BY <3>2
    <3>3. CASE ch' = [ch EXCEPT ![at[t]].sub = (op[t] = "subscribe")]
      BY <1>1, <3>3 DEF TypeOK, Block
    <3>4. CASE ch' = [ch EXCEPT ![at[t]].rx_run = FALSE]
      BY <1>1, <3>4 DEF TypeOK, Block
    <3> QED
      BY <1>6, <3>1, <3>2, <3>3, <3>4
  <2> QED
    BY <1>2, <1>3, <1>5, <2>1, <2>3, CallsKept
<1>7. ASSUME NEW s \in Slots, s = at[t], Spawn(t) /\ pc'[t] = "publish" PROVE s \in Matched'
  <2>1. t \in Openers[s]
    BY <1>7 DEF Openers, OpenPc
  <2>2. h[s].lc = "UNOPENED" /\ ~ch[s].live
    BY <1>7, <2>1 DEF IInv, Good, OwnersOK
  <2>3. Callers[s] = {} /\ Callers'[s] = {}
    BY <1>2, <1>3, <2>2, CallersAreInside, SetsSame, ZenonT(40)
  <2>4. Late[s] = {} /\ frame[s] = None /\ frame'[s] = None /\ rx'[s] = "loop" /\ UNCHANGED peerVars
    <3>1. Late[s] = {} /\ frame[s] = None
      <4>1. rx[s] = "none"
        BY <1>7, <2>1 DEF IInv, Good, OwnersOK
      <4> QED
        BY <2>2, <4>1 DEF CInv, Matched, CallsOK
    <3> QED
      BY <1>1, <1>2, <1>7, <3>1 DEF TypeOK
  <2>5. Late'[s] = {}
    BY <2>4 DEF Late
  <2>6. ch'[s] = [NoBlock EXCEPT !.live = TRUE, !.rx_run = TRUE]
    BY <1>1, <1>7 DEF TypeOK
  <2>7. ch'[s].live /\ ~ch'[s].poisoned
    BY <2>6 DEF NoBlock
  <2> HIDE DEF Quiet
  <2>8. InOrder(s)'
    BY <2>3, <2>4, <2>5 DEF InOrder
  <2>9. Numbered(s)'
    BY <2>3, <2>4 DEF CInv, Matched, CallsOK, Numbered
  <2>10. CallsOK(s)'
    BY <2>3, <2>4, <2>5, <2>7, <2>8, <2>9 DEF CallsOK
  <2> QED
    BY <2>10 DEF Matched
<1>8. ASSUME NEW s \in Slots, s = at[t], pc[t] = "destroy" /\ Finalize(t) PROVE s \in Matched'
  <2>1. t \in Closers[s]
    BY <1>8 DEF Closers, Closes
  <2>2. Callers[s] = {} /\ Callers'[s] = {}
    BY <1>2, <1>3, <1>8, <2>1, CallersAreInside, SetsSame
  <2>3. /\ owed'[s] = owed[s] /\ issued'[s] = issued[s] /\ astray'[s] = astray[s] \cup owed[s]
        /\ frame[s] = None /\ frame'[s] = None /\ rx'[s] = "none"
    <3>1. rx[s] = "none"
      BY <1>8, <2>1 DEF IInv, Good, OwnersOK
    <3>2. frame[s] = None
      BY <3>1 DEF CInv, Matched, CallsOK
    <3> QED
      BY <1>1, <1>2, <1>8, <3>1, <3>2 DEF TypeOK
  <2>4. Late'[s] = {}
    BY <2>3 DEF Late
  <2>5. ch'[s] = NoBlock
    BY <1>1, <1>8 DEF TypeOK
  <2>6. ~ch'[s].poisoned
    BY <2>5, NoBlockIsClean
  <2> HIDE DEF Quiet
  <2>7. InOrder(s)'
    BY <2>2, <2>3, <2>4 DEF InOrder
  <2>8. Numbered(s)'
    BY <2>2, <2>3 DEF CInv, Matched, CallsOK, Numbered
  <2>9. CallsOK(s)'
    BY <2>2, <2>3, <2>4, <2>6, <2>7, <2>8 DEF CallsOK
  <2> QED
    BY <2>9 DEF Matched
<1>9. ASSUME NEW s \in Slots, s = at[t], Shut(t) PROVE s \in Matched'
  <2>1. CallsOK(s) /\ Callers'[s] = Callers[s]
    BY <1>2, <1>3, SetsSame DEF CInv, Matched
  <2>2. \A u \in Callers[s] : pc'[u] = pc[u] /\ tok'[u] = tok[u]
    BY <1>2, <1>3, SetsMove DEF Others
  <2>3. /\ ch'[s].closing
        /\ ch'[s].live <=> ch[s].live
        /\ ch'[s].poisoned <=> ch[s].poisoned
        /\ ch'[s].tx = ch[s].tx
    BY <1>1, <1>9 DEF TypeOK, Block
  <2>4. UNCHANGED <<owed, issued, astray, frame, rx>>
    BY <1>9
  <2> HIDE DEF Quiet
  <2>5. Numbered(s)' /\ Late'[s] = Late[s]
    BY <2>1, <2>2, <2>4 DEF CallsOK, Numbered, Late
  <2>6. CallsOK(s)'
    BY <2>1, <2>2, <2>3, <2>4, <2>5 DEF CallsOK
  <2> QED
    BY <2>6 DEF Matched
<1>10. ASSUME NEW s \in Slots PROVE s \in Matched'
  <2> HIDE DEF Quiet
  <2> QED
    BY <1>4, <1>6, <1>7, <1>8, <1>9, Zenon
<1> QED
  BY <1>10 DEF CInv, Matched

\* A step of the worker keeps the replies in order: the frame it delivers is
\* the one the pending call waits for.
LEMMA WorkerCalls ==
  ASSUME IInv, CInv, NEW s \in Slots, RxEnv(s) \/ RxStep(s)
  PROVE  CInv'
<1> USE DEF RxEnv, RxStep, RxFails, SelfClose, RxRead, RxLoop, RxWoken, Route, Lookup, CallbackReturns,
            NotifyLost, SelfShut, Epilogue, RxFinalize, Destroy, Unopen, Release, Cancel,
            RxGoto, threadVars, peerVars
<1>1. TypeOK /\ CallsOK(s)
  BY DEF IInv, CInv, Matched
<1>2. UNCHANGED <<pc, tok, Callers>>
  BY DEF Callers
<1>3. \A d \in Slots : d # s => /\ ch'[d] = ch[d] /\ rx'[d] = rx[d] /\ frame'[d] = frame[d]
                                /\ owed'[d] = owed[d] /\ issued'[d] = issued[d]
                                /\ astray'[d] = astray[d]
  BY <1>1 DEF TypeOK
<1>4. ASSUME NEW d \in Slots, d # s PROVE d \in Matched'
  <2> HIDE DEF RxEnv, RxStep
  <2>1. CallsOK(d) /\ Late'[d] = Late[d]
    BY <1>3, <1>4 DEF CInv, Matched, Late
  <2>2. InOrder(d) => InOrder(d)'
    BY <1>2, <1>3, <1>4, <2>1 DEF InOrder
  <2>3. Numbered(d)'
    BY <1>2, <1>3, <1>4, <2>1 DEF CallsOK, Numbered
  <2>4. CallsOK(d)'
    BY <1>2, <1>3, <1>4, <2>1, <2>2, <2>3 DEF CallsOK
  <2> QED
    BY <2>4 DEF Matched
<1>5. /\ Late[s] = ((owed[s] \cup {frame[s]}) \ {None, Event}) \ astray[s]
      /\ Late'[s] = ((owed'[s] \cup {frame'[s]}) \ {None, Event}) \ astray'[s]
  BY DEF Late
<1>6. ASSUME UNCHANGED <<ch, frame, peerVars>>, rx[s] \notin {"route", "lookup"} \/ rx'[s] = "lookup",
             rx'[s] \notin {"route", "lookup"} \/ rx[s] = "route"
      PROVE  s \in Matched'
  <2> HIDE DEF RxEnv, RxStep
  <2>1. Late'[s] = Late[s]
    BY <1>5, <1>6
  <2>2. InOrder(s) => InOrder(s)'
    BY <1>2, <1>6, <2>1 DEF InOrder
  <2>3. Numbered(s)'
    BY <1>1, <1>2, <1>6 DEF CallsOK, Numbered
  <2>4. CallsOK(s)'
    BY <1>1, <1>2, <1>6, <2>1, <2>2, <2>3 DEF CallsOK
  <2> QED
    BY <2>4 DEF Matched
<1>7. ASSUME NEW f \in Calls \cup {Event}, RxRead(s, f) PROVE s \in Matched'
  <2>1. /\ owed'[s] = owed[s] \ {f} /\ frame'[s] = f /\ rx'[s] = "route" /\ ch'[s] = ch[s]
        /\ issued'[s] = issued[s] /\ f \in owed[s] \cup {Event} /\ astray'[s] = astray[s]
    BY <1>1, <1>7 DEF TypeOK
  <2>2. f # None
    BY DEF Calls, Event, None
  <2> HIDE DEF RxEnv, RxStep
  <2>3. Late'[s] \subseteq Late[s]
    BY <1>5, <2>1
  <2>4. InOrder(s) => InOrder(s)'
    BY <1>2, <2>1, <2>3 DEF InOrder
  <2>5. Numbered(s)'
    BY <1>1, <1>2, <2>1 DEF CallsOK, Numbered
  <2>6. CallsOK(s)'
    BY <1>1, <1>2, <2>1, <2>2, <2>3, <2>4, <2>5 DEF CallsOK
  <2> QED
    BY <2>6 DEF Matched
<1>8. ASSUME Route(s), frame[s] # Event, ch[s].pending # None PROVE s \in Matched'
  <2>1. /\ frame'[s] = None /\ rx'[s] = "loop" /\ owed'[s] = owed[s] /\ issued'[s] = issued[s]
        /\ rx[s] = "route" /\ issued[s] \in Nat
        /\ astray'[s] = IF frame[s] \in astray[s] THEN astray[s] \cup {ch[s].pending} ELSE astray[s]
    BY <1>1, <1>8 DEF TypeOK
  <2>2. /\ ch'[s].pending = None /\ ch'[s].result = frame[s] /\ ch'[s].tx = ch[s].tx
        /\ ch'[s].live <=> ch[s].live
        /\ ch'[s].closing <=> ch[s].closing
        /\ ch'[s].poisoned <=> ch[s].poisoned
    BY <1>1, <1>8 DEF TypeOK, Block
  <2> HIDE DEF RxEnv, RxStep
  <2>3. ASSUME InOrder(s), \A t \in Callers[s] : ch[s].tx = t PROVE InOrder(s)'
    <3>1. frame[s] # None
      BY <1>1, <2>1 DEF CallsOK
    <3>2. \A t \in Callers[s] : t = ch[s].tx
      BY <2>3
    <3>3. CASE frame[s] \in astray[s]
      <4>1. \A t \in Callers[s] : pc[t] \in {"write", "wait"} => ch[s].pending = issued[s]
        BY <1>8, <2>3 DEF InOrder
      <4>2. astray'[s] = astray[s] \cup {ch[s].pending} /\ Late'[s] \subseteq Late[s]
        BY <1>5, <2>1, <3>3
      <4>3. Late'[s] = {}
        BY <1>5, <2>1, <2>3, <4>1, <4>2 DEF InOrder
      <4> QED
        BY <1>2, <2>1, <2>2, <2>3, <3>3, <4>1, <4>2, <4>3 DEF InOrder
    <3>4. CASE frame[s] \notin astray[s]
      <4>1. frame[s] \in Late[s]
        BY <1>5, <1>8, <3>1, <3>4
      <4>2. frame[s] = issued[s] /\ frame[s] \notin owed[s] /\ \E t \in Callers[s] : pc[t] = "wait"
        BY <1>8, <2>3, <3>1, <4>1 DEF InOrder
      <4>3. Late'[s] = {} /\ astray'[s] = astray[s]
        BY <1>5, <2>1, <2>3, <3>4, <4>2 DEF InOrder
      <4>4. \A t \in Callers[s] : pc[t] = "wait"
        BY <3>2, <4>2
      <4> QED
        BY <1>2, <2>1, <2>2, <4>2, <4>3, <4>4 DEF InOrder
    <3> QED
      BY <3>3, <3>4
  <2>4. Numbered(s)'
    BY <1>1, <1>2, <2>1 DEF CallsOK, Numbered, None
  <2>5. Late'[s] \subseteq Late[s]
    BY <1>5, <2>1
  <2>6. CallsOK(s)'
    BY <1>1, <1>2, <2>1, <2>2, <2>3, <2>4, <2>5 DEF CallsOK
  <2> QED
    BY <2>6 DEF Matched
<1>9. ASSUME Lookup(s) PROVE s \in Matched'
  <2>1. /\ frame'[s] = None /\ rx'[s] \in {"cb", "loop"} /\ owed'[s] = owed[s] /\ issued'[s] = issued[s]
        /\ ch'[s] = ch[s] /\ astray'[s] = astray[s] /\ issued[s] \in Nat
    BY <1>1, <1>9 DEF TypeOK
  <2> HIDE DEF RxEnv, RxStep
  <2>2. Late'[s] \subseteq Late[s]
    BY <1>5, <2>1
  <2>3. InOrder(s) => InOrder(s)'
    BY <1>2, <2>1, <2>2 DEF InOrder
  <2>4. Numbered(s)'
    BY <1>1, <1>2, <2>1 DEF CallsOK, Numbered, None
  <2>5. CallsOK(s)'
    BY <1>1, <1>2, <2>1, <2>2, <2>3, <2>4 DEF CallsOK
  <2> QED
    BY <2>5 DEF Matched
<1>10. ASSUME SelfShut(s) PROVE s \in Matched'
  <2>1. /\ ch'[s].closing /\ ch'[s].tx = ch[s].tx
        /\ ch'[s].live <=> ch[s].live
        /\ ch'[s].poisoned <=> ch[s].poisoned
    BY <1>1, <1>10 DEF TypeOK, Block
  <2>2. /\ UNCHANGED <<frame, owed, issued, astray>> /\ rx[s] \notin {"route", "lookup"}
        /\ rx'[s] \notin {"route", "lookup"}
    BY <1>1, <1>10 DEF TypeOK
  <2> HIDE DEF RxEnv, RxStep
  <2>3. Numbered(s)' /\ Late'[s] = Late[s]
    BY <1>1, <1>2, <1>5, <2>2 DEF CallsOK, Numbered
  <2>4. CallsOK(s)'
    BY <1>1, <1>2, <2>1, <2>2, <2>3 DEF CallsOK
  <2> QED
    BY <2>4 DEF Matched
<1>11. ASSUME RxFinalize(s), rx[s] = "destroy" PROVE s \in Matched'
  <2>1. Callers[s] = {}
    BY <1>11, CallersAreInside
  <2>2. /\ ch'[s] = NoBlock /\ owed'[s] = owed[s] /\ astray'[s] = astray[s] \cup owed[s]
        /\ issued'[s] = issued[s] /\ frame'[s] = frame[s] /\ rx'[s] = "unopen"
    BY <1>1, <1>11 DEF TypeOK
  <2>3. frame[s] = None
    BY <1>1, <1>11 DEF CallsOK
  <2>4. ~ch'[s].poisoned
    BY <2>2 DEF NoBlock
  <2>5. Late'[s] = {}
    BY <1>5, <2>2, <2>3
  <2> HIDE DEF RxEnv, RxStep
  <2>6. InOrder(s)'
    BY <1>2, <2>1, <2>2, <2>3, <2>5 DEF InOrder
  <2>7. Numbered(s)'
    BY <1>1, <1>2, <2>1, <2>2 DEF CallsOK, Numbered
  <2>8. CallsOK(s)'
    BY <1>2, <2>1, <2>2, <2>3, <2>4, <2>5, <2>6, <2>7 DEF CallsOK
  <2> QED
    BY <2>8 DEF Matched
<1>12. s \in Matched'
  <2>1. CASE \/ \E f \in Calls \cup {Event} : RxRead(s, f)
             \/ Lookup(s) \/ SelfShut(s) \/ (RxFinalize(s) /\ rx[s] = "destroy")
             \/ (Route(s) /\ frame[s] # Event /\ ch[s].pending # None)
    BY <2>1, <1>7, <1>8, <1>9, <1>10, <1>11, Zenon
  <2>2. CASE /\ ~\E f \in Calls \cup {Event} : RxRead(s, f)
             /\ ~(Lookup(s) \/ SelfShut(s) \/ (RxFinalize(s) /\ rx[s] = "destroy"))
             /\ ~(Route(s) /\ frame[s] # Event /\ ch[s].pending # None)
    <3>1. /\ UNCHANGED <<ch, frame, peerVars>>
          /\ rx[s] \notin {"route", "lookup"} \/ rx'[s] = "lookup"
          /\ rx'[s] \notin {"route", "lookup"} \/ rx[s] = "route"
      BY <1>1, <2>2, ZenonT(40) DEF TypeOK
    <3> QED
      BY <3>1, <1>6
  <2> QED
    BY <2>1, <2>2
<1> QED
  BY <1>4, <1>12 DEF CInv, Matched

\* The reply invariant is inductive.
LEMMA CallsInductive ==
  ASSUME IInv, CInv, [Next]_vars
  PROVE  CInv'
<1>1. CASE UNCHANGED vars
  <2>1. UNCHANGED <<Callers, Late>>
    BY <1>1 DEF vars, Callers, Late
  <2>2. UNCHANGED Matched
    BY <1>1, <2>1 DEF vars, Matched, CallsOK, InOrder, Numbered
  <2> QED
    BY <2>2 DEF CInv
<1>2. ASSUME NEW t \in Threads, Env(t) \/ Step(t) PROVE CInv'
  <2>1. at[t] \in Slots
    BY DEF IInv, TypeOK
  <2>2. Quiet(t) \/ Calling(t)
    BY <1>2 DEF Env, Step, Quiet, Calling
  <2> QED
    BY <2>1, <2>2, QuietStep, CallingStep
<1> QED
  BY <1>1, <1>2, WorkerCalls DEF Next

\* A call that finds itself answered holds the reply to its own request, or one
\* that went astray when a call gave up without a deadline or the channel of its
\* call was closed: the poison of y_call() keeps every other late reply out.
THEOREM RepliesMatchCalls == Spec => []ReplyMatchesCall
<1>1. IInv /\ CInv => ReplyMatchesCall
  <2> SUFFICES ASSUME IInv, CInv, NEW t \in Threads, pc[t] = "wait", ~ch[at[t]].closing,
                      ch[at[t]].pending = None
               PROVE  ch[at[t]].result \in {tok[t]} \cup astray[at[t]]
    BY DEF ReplyMatchesCall
  <2>1. at[t] \in Slots
    BY DEF IInv, TypeOK
  <2>2. CallsOK(at[t]) /\ t \in Callers[at[t]]
    BY <2>1 DEF CInv, Matched, Callers
  <2>3. InOrder(at[t]) /\ tok[t] = issued[at[t]] /\ issued[at[t]] # 0
    BY <2>2 DEF CallsOK
  <2> QED
    BY <2>2, <2>3 DEF InOrder, None
<1> QED
  BY <1>1, InitHolds, Inductive, CallsInductive, PTL DEF Spec
=============================================================================
