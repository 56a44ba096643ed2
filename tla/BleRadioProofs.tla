--------------------------- MODULE BleRadioProofs ---------------------------
(***************************************************************************)
(* The invariants of the BLE dispatcher, for any number of threads,        *)
(* connection slots and references.  A slot that is claimed but has no     *)
(* reference has one owner, whose place says what the lifecycle and the    *)
(* controller are.  That much needs no rule on the callers.  That no op is *)
(* inside while the controller is down needs an exact op counter as well,  *)
(* and so the rule of src/common/alp_slot_claim.h, JoinBeforeReopen: a     *)
(* slot is claimed again only when no call that lost to the last close is  *)
(* still between its count and its check.  Without the rule TLC finds a    *)
(* counterexample (JoinBeforeReopen = FALSE).                              *)
(***************************************************************************)
EXTENDS BleRadio, CountingFacts

-----------------------------------------------------------------------------
\* Places of a thread that enters a connection's op, and that disconnects.
ConnPc == {"conn_add", "conn_chk", "conn_back"}
BreakPc == {"conn_cas", "conn_drain", "unlink", "conn_free"}

\* Places past the check of the radio's op_enter.
OpPc == {"radio_op", "cb_enter", "callback", "scanned", "self_leave", "conn_alloc",
         "conn_zero", "link", "notify"}

\* All places.
Pc == {"idle", "scan", "alloc", "enter", "check", "back_out", "gatt"}
      \cup ConnPc \cup BreakPc \cup OpPc \cup Opening \cup Closing

\* The threads that the radio has let in, and those it has counted.
Admitted == {t \in Threads : \/ pc[t] \in OpPc \/ marker = t
                             \/ pc[t] \in ConnPc /\ want[t] = "notify"}
Counted == Admitted \cup {t \in Threads : pc[t] \in {"check", "back_out"}}
\* The threads that have yet to count, check or back out.
Late == {t \in Threads : pc[t] \in {"enter", "check", "back_out"}}
\* The thread that brings the radio up or takes it down.
Owners == {t \in Threads : pc[t] \in Opening \cup Closing \/ closer[t]}

\* The marker belongs to a thread in its callback, the walk to the closer, and a
\* thread that enters an op knows which.
PcInv ==
  /\ pc \in [Threads -> Pc]
  /\ marker # NoThread => pc[marker] \in {"callback", "elect"}
  /\ \A t \in Threads :
       /\ closer[t] => pc[t] \in {"walk", "down"} \cup BreakPc
       /\ pc[t] \in {"walk", "down"} => closer[t]
       /\ pc[t] \in {"enter", "check"} => want[t] \in {"radio_op", "cb_enter", "conn_alloc", "notify"}
       /\ pc[t] \in ConnPc => want[t] \in {"gatt", "notify"}

\* The radio slot: joinable, free, owned, or left to a scan that has to return.
SlotInv ==
  /\ refcount > 0 => in_use /\ lifecycle = "OPEN" /\ alive /\ ~close_pending /\ Owners = {}
  /\ ~in_use => /\ lifecycle = "UNOPENED" /\ ~alive /\ ~close_pending /\ refcount = 0
                /\ Owners = {}
  /\ (in_use /\ refcount = 0 /\ ~close_pending) => Owners # {}
  /\ close_pending => /\ in_use /\ lifecycle = "CLOSING" /\ alive /\ Owners = {}
                      /\ \E t \in Threads : pc[t] \in {"callback", "scanned"}

\* One owner, whose place gives the lifecycle and the state of the controller.
OwnerInv ==
  /\ \A t, u \in Owners : t = u
  /\ \A t \in Owners :
       /\ alive <=> pc[t] \notin {"zero", "up", "unopen", "free"}
       /\ pc[t] \in {"zero", "up", "publish", "free"} => lifecycle = "UNOPENED"
       /\ pc[t] \in {"first_ref", "elect"} => lifecycle = "OPEN"
       /\ pc[t] \notin {"zero", "up", "publish", "free", "first_ref", "elect"} => lifecycle = "CLOSING"

\* The inductive invariant of the slot.
IInv == TypeOK /\ PcInv /\ SlotInv /\ OwnerInv

\* The counter is exact; no op is inside an unopened radio, nor past the closer's
\* drain; and nobody is late when the slot is cleared.
CountInv == active_ops = Cardinality(Counted)
QuietInv ==
  /\ lifecycle = "UNOPENED" => Admitted = {}
  /\ \A t \in Threads : (pc[t] = "unopen" \/ closer[t]) => Admitted = {}
  /\ \A t \in Threads : pc[t] = "zero" => Late = {}

\* The inductive invariant of the ops.
OpsInv == CountInv /\ QuietInv

USE BleAssumption

-----------------------------------------------------------------------------
\* How a set of threads is counted.
LEMMA Counts ==
  /\ Cardinality(Threads) \in Nat /\ Cardinality({}) = 0
  /\ \A S \in SUBSET Threads :
       /\ Cardinality(S) \in 0..Cardinality(Threads)
       /\ Cardinality(S) = 0 <=> S = {}
       /\ \A t \in Threads \ S : Cardinality(S \cup {t}) = Cardinality(S) + 1
       /\ \A t \in S : Cardinality(S \ {t}) = Cardinality(S) - 1
BY Cardinalities

\* A step counts its thread in, takes it out, or leaves the counter.
CountMove(t) ==
  /\ \A u \in Threads : u # t => (u \in Counted <=> u \in Counted')
  /\ \/ active_ops' = active_ops /\ (t \in Counted <=> t \in Counted')
     \/ active_ops' = active_ops + 1 /\ t \notin Counted /\ t \in Counted'
     \/ active_ops' = active_ops - 1 /\ t \in Counted /\ t \notin Counted'

\* Such a step keeps the counter exact.
LEMMA CountKept ==
  ASSUME CountInv, NEW t \in Threads, CountMove(t)
  PROVE  CountInv'
<1>1. Counted \in SUBSET Threads /\ Counted' \in SUBSET Threads
  BY DEF Counted, Admitted
<1> HIDE DEF Counted
<1>2. \/ active_ops' = active_ops /\ Counted' = Counted
      \/ active_ops' = active_ops + 1 /\ t \notin Counted /\ Counted' = Counted \cup {t}
      \/ active_ops' = active_ops - 1 /\ t \in Counted /\ Counted' = Counted \ {t}
  BY <1>1 DEF CountMove
<1> QED
  BY <1>1, <1>2, Counts DEF CountInv

\* _alloc_conn() finds the first free slot.
LEMMA FirstFreeConn ==
  ASSUME \E c \in Conns : ~conn[c].in_use
  PROVE  (CHOOSE i \in Conns : ~conn[i].in_use /\ \A j \in 1..(i - 1) : conn[j].in_use) \in Conns
<1> DEFINE F == {i \in Conns : ~conn[i].in_use}
<1>1. F # {} /\ F \in SUBSET Nat
  BY DEF Conns
<1> HIDE DEF F
<1>2. PICK x \in F : \A y \in F : x <= y
  BY <1>1, LeastNatural
<1>3. x \in Conns /\ ~conn[x].in_use
  BY <1>2 DEF F
<1>4. ASSUME NEW j \in 1..(x - 1) PROVE conn[j].in_use
  <2>1. j \in Conns /\ ~(x <= j)
    BY <1>3 DEF Conns
  <2> QED
    BY <1>2, <2>1 DEF F
<1> QED
  BY <1>3, <1>4

\* A step of thread t leaves the others where they are.
Others(t) ==
  \A u \in Threads : u # t => pc'[u] = pc[u] /\ want'[u] = want[u] /\ closer'[u] = closer[u]

LEMMA StepOfOne ==
  ASSUME IInv, NEW t \in Threads, Call(t) \/ Step(t)
  PROVE  Others(t)
BY DEF IInv, TypeOK, PcInv, Others, Call, Step, StartOpen, StartClose, StartRadioOp, StartScan,
       StartConnect, StartGatt, StartNotify, StartDisconnect, Scan, ClaimRadio, ZeroRadio,
       BackendOpen, Publish, FirstReference, Elect, Drain, Walk, BackendClose, Unopen, FreeRadio,
       CountOp, Check, BackOut, LeaveRadio, CbEnter, CbLeave, TakeDeferredClose, LeaveSelfClosed,
       ClaimConn, ZeroConn, Link, CountConnOp, CheckConn, BackOutConn, LeaveGatt, LeaveNotify,
       DisconnectElect, ConnDrain, Unlink, FreeConnSlot, CallRadio, CallConn, OnConn, Move, Goto,
       Return, NextConn, Disconnected

\* What a connection slot holds, and what writing one of its fields leaves.
ConnSlot == [in_use : BOOLEAN, lifecycle : {"UNOPENED", "OPEN", "CLOSING"}, active_ops : Int]

LEMMA SlotFields ==
  ASSUME NEW r \in ConnSlot
  PROVE  /\ [r EXCEPT !.in_use = TRUE] \in ConnSlot /\ [r EXCEPT !.in_use = FALSE] \in ConnSlot
         /\ \A l \in {"UNOPENED", "OPEN", "CLOSING"} : [r EXCEPT !.lifecycle = l] \in ConnSlot
         /\ \A n \in Int : [r EXCEPT !.active_ops = n] \in ConnSlot
         /\ r.active_ops \in Int /\ FreeConn \in ConnSlot
<1>1. [r EXCEPT !.in_use = TRUE] \in ConnSlot /\ [r EXCEPT !.in_use = FALSE] \in ConnSlot
  BY Zenon DEF ConnSlot
<1>2. \A l \in {"UNOPENED", "OPEN", "CLOSING"} : [r EXCEPT !.lifecycle = l] \in ConnSlot
  BY DEF ConnSlot
<1>3. \A n \in Int : [r EXCEPT !.active_ops = n] \in ConnSlot
  BY DEF ConnSlot
<1>4. r.active_ops \in Int /\ FreeConn \in ConnSlot
  BY DEF ConnSlot, FreeConn
<1> QED
  BY <1>1, <1>2, <1>3, <1>4

\* A step keeps the types of the connections: it writes one field of one slot, or
\* clears a slot.
LEMMA ConnTypeStep ==
  ASSUME TypeOK, NEW t \in Threads, Call(t) \/ Step(t)
  PROVE  conn' \in [Conns -> ConnSlot] /\ at' \in [Threads -> Conns]
<1>1. /\ conn \in [Conns -> ConnSlot] /\ at \in [Threads -> Conns] /\ at[t] \in Conns
      /\ 1 \in Conns /\ (at[t] # MaxConns => at[t] + 1 \in Conns)
  BY DEF TypeOK, ConnSlot, Conns
<1> HIDE DEF ConnSlot
<1>2. ASSUME NEW c \in Conns, \E r \in ConnSlot : conn' = [conn EXCEPT ![c] = r]
      PROVE  conn' \in [Conns -> ConnSlot]
  BY <1>1, <1>2
<1>3. CASE ClaimConn(t)
  <2>1. CASE \A c \in Conns : conn[c].in_use
    BY <1>1, <1>3, <2>1, Zenon DEF ClaimConn
  <2>2. CASE ~\A c \in Conns : conn[c].in_use
    <3> DEFINE c == CHOOSE i \in Conns : ~conn[i].in_use /\ \A j \in 1..(i - 1) : conn[j].in_use
    <3>1. c \in Conns
      BY <2>2, FirstFreeConn
    <3>2. /\ conn' = [conn EXCEPT ![c] = [conn[c] EXCEPT !.in_use = TRUE]]
          /\ at' = [at EXCEPT ![t] = c]
      BY <1>3, <2>2, Zenon DEF ClaimConn
    <3> HIDE DEF c
    <3> QED
      BY <1>1, <1>2, <3>1, <3>2, SlotFields
  <2> QED
    BY <2>1, <2>2
<1>4. CASE ZeroConn(t)
  <2>1. conn' = [conn EXCEPT ![at[t]] = [FreeConn EXCEPT !.in_use = TRUE]] /\ at' = at
    BY <1>4 DEF ZeroConn
  <2>2. FreeConn \in ConnSlot
    BY <1>1, SlotFields
  <2> QED
    BY <1>1, <1>2, <2>1, <2>2, SlotFields
<1>5. CASE CountConnOp(t) \/ BackOutConn(t) \/ LeaveGatt(t) \/ LeaveNotify(t)
  <2>1. conn[at[t]] \in ConnSlot /\ conn[at[t]].active_ops \in Int
    BY <1>1, SlotFields
  <2>2. /\ at' = at
        /\ \/ conn' = [conn EXCEPT ![at[t]].active_ops = @ + 1]
           \/ conn' = [conn EXCEPT ![at[t]].active_ops = @ - 1]
    BY <1>5 DEF CountConnOp, BackOutConn, LeaveGatt, LeaveNotify
  <2>3. PICK n \in Int : conn' = [conn EXCEPT ![at[t]] = [conn[at[t]] EXCEPT !.active_ops = n]]
    BY <1>1, <2>1, <2>2
  <2> QED
    BY <1>1, <1>2, <2>1, <2>2, <2>3, SlotFields
<1>6. CASE Link(t) \/ DisconnectElect(t) \/ Unlink(t) \/ FreeConnSlot(t)
  <2>1. \/ conn' = conn \/ conn' = [conn EXCEPT ![at[t]] = [conn[at[t]] EXCEPT !.in_use = FALSE]]
        \/ \E l \in {"UNOPENED", "OPEN", "CLOSING"} :
             conn' = [conn EXCEPT ![at[t]] = [conn[at[t]] EXCEPT !.lifecycle = l]]
    BY <1>1, <1>6 DEF Link, DisconnectElect, Unlink, FreeConnSlot
  <2>2. at' = at \/ (at[t] # MaxConns /\ at' = [at EXCEPT ![t] = at[t] + 1])
    BY <1>6 DEF Link, DisconnectElect, Unlink, FreeConnSlot, Disconnected, NextConn
  <2>3. at' \in [Threads -> Conns]
    BY <1>1, <2>2
  <2> QED
    BY <1>1, <1>2, <2>1, <2>3, SlotFields
<1>7. CASE /\ ~ClaimConn(t) /\ ~ZeroConn(t) /\ ~CountConnOp(t) /\ ~BackOutConn(t) /\ ~LeaveGatt(t)
           /\ ~LeaveNotify(t) /\ ~Link(t) /\ ~DisconnectElect(t) /\ ~Unlink(t) /\ ~FreeConnSlot(t)
  <2>1. conn' = conn /\ (at' = at \/ \E c \in Conns : at' = [at EXCEPT ![t] = c])
    BY <1>1, <1>7
       DEF Call, Step, StartOpen, StartClose, StartRadioOp, StartScan, StartConnect, StartGatt,
           StartNotify, StartDisconnect, Scan, ClaimRadio, ZeroRadio,
           BackendOpen, Publish, FirstReference, Elect, Drain, Walk,
           BackendClose, Unopen, FreeRadio, CountOp, Check, BackOut,
           LeaveRadio, CbEnter, CbLeave, TakeDeferredClose, LeaveSelfClosed,
           CheckConn, ConnDrain, CallRadio, CallConn, OnConn, NextConn
  <2> QED
    BY <1>1, <2>1
<1> QED
  BY <1>3, <1>4, <1>5, <1>6, <1>7

\* Every step keeps the types.
LEMMA TypeStep ==
  ASSUME TypeOK, NEW t \in Threads, Call(t) \/ Step(t)
  PROVE  TypeOK'
<1> USE DEF Call, Step, StartOpen, StartClose, StartRadioOp, StartScan, StartConnect, StartGatt,
            StartNotify, StartDisconnect, Scan, ClaimRadio, ZeroRadio,
            BackendOpen, Publish, FirstReference, Elect, Drain, Walk,
            BackendClose, Unopen, FreeRadio, CountOp, Check, BackOut,
            LeaveRadio, CbEnter, CbLeave, TakeDeferredClose,
            LeaveSelfClosed, ClaimConn, ZeroConn, Link, CountConnOp,
            CheckConn, BackOutConn, LeaveGatt, LeaveNotify, DisconnectElect,
            ConnDrain, Unlink, FreeConnSlot, CallRadio, CallConn,
            slot
<1>1. in_use' \in BOOLEAN /\ alive' \in BOOLEAN /\ close_pending' \in BOOLEAN
  <2>1. /\ in_use' = in_use \/ in_use' = TRUE \/ in_use' = FALSE
        /\ alive' = alive \/ alive' = TRUE \/ alive' = FALSE
        /\ close_pending' = close_pending \/ close_pending' = TRUE \/ close_pending' = FALSE
    OBVIOUS
  <2> QED
    BY <2>1, Zenon DEF TypeOK
<1>2. lifecycle' \in {"UNOPENED", "OPEN", "CLOSING"} /\ marker' \in Threads \cup {NoThread}
  BY DEF TypeOK
<1>3. refcount' \in 0..MaxRefs /\ active_ops' \in Int
  BY DEF TypeOK
<1>4. closer' \in [Threads -> BOOLEAN]
  <2>1. \/ closer' = closer \/ closer' = [closer EXCEPT ![t] = TRUE]
        \/ closer' = [closer EXCEPT ![t] = FALSE]
    OBVIOUS
  <2> QED
    BY <2>1, Zenon DEF TypeOK
<1>5. want' \in [Threads -> {"none", "radio_op", "cb_enter", "conn_alloc", "gatt", "notify"}]
  BY DEF TypeOK
<1> QED
  BY <1>1, <1>2, <1>3, <1>4, <1>5, ConnTypeStep, Zenon DEF TypeOK, ConnSlot

-----------------------------------------------------------------------------
\* Every call and every step keeps the invariant of the slot, whoever is late.
LEMMA SlotStep ==
  ASSUME IInv, TypeOK', NEW t \in Threads, Call(t) \/ Step(t)
  PROVE  IInv'
<1> USE DEF IInv, Goto, slot
<1>1. TypeOK /\ pc \in [Threads -> Pc] /\ Others(t)
  BY StepOfOne DEF PcInv
<1>2. CASE StartOpen(t)
  <2>1. PcInv'
    BY <1>1, <1>2 DEF StartOpen, Move, TypeOK, PcInv, Pc, OpPc, ConnPc, BreakPc, Opening, Closing
  <2>2. SlotInv'
    BY <1>1, <1>2, <2>1
       DEF StartOpen, Move, TypeOK, PcInv, SlotInv, OwnerInv, Owners, Others, Opening, Closing,
           BreakPc
  <2>3. OwnerInv'
    BY <1>1, <1>2, <2>1
       DEF StartOpen, Move, TypeOK, PcInv, SlotInv, OwnerInv, Owners, Others, Opening, Closing,
           BreakPc
  <2> QED
    BY <2>1, <2>2, <2>3
<1>3. CASE StartClose(t)
  <2>1. PcInv'
    BY <1>1, <1>3 DEF StartClose, TypeOK, PcInv, Pc, OpPc, ConnPc, BreakPc, Opening, Closing
  <2>2. SlotInv'
    BY <1>1, <1>3, <2>1
       DEF StartClose, TypeOK, PcInv, SlotInv, OwnerInv, Owners, Others, Opening, Closing, BreakPc
  <2>3. OwnerInv'
    BY <1>1, <1>3, <2>1
       DEF StartClose, TypeOK, PcInv, SlotInv, OwnerInv, Owners, Others, Opening, Closing, BreakPc
  <2> QED
    BY <2>1, <2>2, <2>3
<1>4. CASE StartRadioOp(t)
  <2>1. PcInv'
    BY <1>1, <1>4
       DEF StartRadioOp, CallRadio, Move, TypeOK, PcInv, Pc, OpPc, ConnPc, BreakPc, Opening, Closing
  <2>2. SlotInv'
    BY <1>1, <1>4, <2>1
       DEF StartRadioOp, CallRadio, Move, TypeOK, PcInv, SlotInv, OwnerInv, Owners, Others, Opening,
           Closing, BreakPc
  <2>3. OwnerInv'
    BY <1>1, <1>4, <2>1
       DEF StartRadioOp, CallRadio, Move, TypeOK, PcInv, SlotInv, OwnerInv, Owners, Others, Opening,
           Closing, BreakPc
  <2> QED
    BY <2>1, <2>2, <2>3
<1>5. CASE StartScan(t)
  <2>1. PcInv'
    BY <1>1, <1>5
       DEF StartScan, CallRadio, Move, TypeOK, PcInv, Pc, OpPc, ConnPc, BreakPc, Opening, Closing
  <2>2. SlotInv'
    BY <1>1, <1>5, <2>1
       DEF StartScan, CallRadio, Move, TypeOK, PcInv, SlotInv, OwnerInv, Owners, Others, Opening,
           Closing, BreakPc
  <2>3. OwnerInv'
    BY <1>1, <1>5, <2>1
       DEF StartScan, CallRadio, Move, TypeOK, PcInv, SlotInv, OwnerInv, Owners, Others, Opening,
           Closing, BreakPc
  <2> QED
    BY <2>1, <2>2, <2>3
<1>6. CASE StartConnect(t)
  <2>1. PcInv'
    BY <1>1, <1>6
       DEF StartConnect, CallRadio, Move, TypeOK, PcInv, Pc, OpPc, ConnPc, BreakPc, Opening, Closing
  <2>2. SlotInv'
    BY <1>1, <1>6, <2>1
       DEF StartConnect, CallRadio, Move, TypeOK, PcInv, SlotInv, OwnerInv, Owners, Others, Opening,
           Closing, BreakPc
  <2>3. OwnerInv'
    BY <1>1, <1>6, <2>1
       DEF StartConnect, CallRadio, Move, TypeOK, PcInv, SlotInv, OwnerInv, Owners, Others, Opening,
           Closing, BreakPc
  <2> QED
    BY <2>1, <2>2, <2>3
<1>7. ASSUME NEW c \in Conns, StartGatt(t, c) PROVE IInv'
  <2>1. PcInv'
    BY <1>1, <1>7
       DEF StartGatt, CallConn, OnConn, Move, TypeOK, PcInv, Pc, OpPc, ConnPc, BreakPc, Opening,
           Closing
  <2>2. SlotInv'
    BY <1>1, <1>7, <2>1
       DEF StartGatt, CallConn, OnConn, Move, TypeOK, PcInv, SlotInv, OwnerInv, Owners, Others,
           Opening, Closing, BreakPc
  <2>3. OwnerInv'
    BY <1>1, <1>7, <2>1
       DEF StartGatt, CallConn, OnConn, Move, TypeOK, PcInv, SlotInv, OwnerInv, Owners, Others,
           Opening, Closing, BreakPc
  <2> QED
    BY <2>1, <2>2, <2>3
<1>8. ASSUME NEW c \in Conns, StartNotify(t, c) PROVE IInv'
  <2>1. PcInv'
    BY <1>1, <1>8
       DEF StartNotify, CallRadio, OnConn, Move, TypeOK, PcInv, Pc, OpPc, ConnPc, BreakPc, Opening,
           Closing
  <2>2. SlotInv'
    BY <1>1, <1>8, <2>1
       DEF StartNotify, CallRadio, OnConn, Move, TypeOK, PcInv, SlotInv, OwnerInv, Owners, Others,
           Opening, Closing, BreakPc
  <2>3. OwnerInv'
    BY <1>1, <1>8, <2>1
       DEF StartNotify, CallRadio, OnConn, Move, TypeOK, PcInv, SlotInv, OwnerInv, Owners, Others,
           Opening, Closing, BreakPc
  <2> QED
    BY <2>1, <2>2, <2>3
<1>9. ASSUME NEW c \in Conns, StartDisconnect(t, c) PROVE IInv'
  <2>1. PcInv'
    BY <1>1, <1>9
       DEF StartDisconnect, CallConn, OnConn, Move, TypeOK, PcInv, Pc, OpPc, ConnPc, BreakPc,
           Opening, Closing
  <2>2. SlotInv'
    BY <1>1, <1>9, <2>1
       DEF StartDisconnect, CallConn, OnConn, Move, TypeOK, PcInv, SlotInv, OwnerInv, Owners,
           Others, Opening, Closing, BreakPc
  <2>3. OwnerInv'
    BY <1>1, <1>9, <2>1
       DEF StartDisconnect, CallConn, OnConn, Move, TypeOK, PcInv, SlotInv, OwnerInv, Owners,
           Others, Opening, Closing, BreakPc
  <2> QED
    BY <2>1, <2>2, <2>3
<1>10. CASE Scan(t)
  <2>1. PcInv'
    BY <1>1, <1>10 DEF Scan, TypeOK, PcInv, Pc, OpPc, ConnPc, BreakPc, Opening, Closing
  <2>2. SlotInv'
    BY <1>1, <1>10, <2>1
       DEF Scan, TypeOK, PcInv, SlotInv, OwnerInv, Owners, Others, Opening, Closing, BreakPc
  <2>3. OwnerInv'
    BY <1>1, <1>10, <2>1
       DEF Scan, TypeOK, PcInv, SlotInv, OwnerInv, Owners, Others, Opening, Closing, BreakPc
  <2> QED
    BY <2>1, <2>2, <2>3
<1>11. CASE ClaimRadio(t)
  <2>1. PcInv'
    BY <1>1, <1>11 DEF ClaimRadio, TypeOK, PcInv, Pc, OpPc, ConnPc, BreakPc, Opening, Closing
  <2>2. SlotInv'
    BY <1>1, <1>11, <2>1
       DEF ClaimRadio, TypeOK, PcInv, SlotInv, OwnerInv, Owners, Others, Opening, Closing, BreakPc
  <2>3. OwnerInv'
    BY <1>1, <1>11, <2>1
       DEF ClaimRadio, TypeOK, PcInv, SlotInv, OwnerInv, Owners, Others, Opening, Closing, BreakPc
  <2> QED
    BY <2>1, <2>2, <2>3
<1>12. CASE ZeroRadio(t)
  <2>1. PcInv'
    BY <1>1, <1>12 DEF ZeroRadio, Move, TypeOK, PcInv, Pc, OpPc, ConnPc, BreakPc, Opening, Closing
  <2>2. SlotInv'
    BY <1>1, <1>12, <2>1
       DEF ZeroRadio, Move, TypeOK, PcInv, SlotInv, OwnerInv, Owners, Others, Opening, Closing,
           BreakPc
  <2>3. OwnerInv'
    BY <1>1, <1>12, <2>1
       DEF ZeroRadio, Move, TypeOK, PcInv, SlotInv, OwnerInv, Owners, Others, Opening, Closing,
           BreakPc
  <2> QED
    BY <2>1, <2>2, <2>3
<1>13. CASE BackendOpen(t)
  <2>1. PcInv'
    BY <1>1, <1>13 DEF BackendOpen, TypeOK, PcInv, Pc, OpPc, ConnPc, BreakPc, Opening, Closing
  <2>2. SlotInv'
    BY <1>1, <1>13, <2>1
       DEF BackendOpen, TypeOK, PcInv, SlotInv, OwnerInv, Owners, Others, Opening, Closing, BreakPc
  <2>3. OwnerInv'
    BY <1>1, <1>13, <2>1
       DEF BackendOpen, TypeOK, PcInv, SlotInv, OwnerInv, Owners, Others, Opening, Closing, BreakPc
  <2> QED
    BY <2>1, <2>2, <2>3
<1>14. CASE Publish(t)
  <2>1. PcInv'
    BY <1>1, <1>14 DEF Publish, Move, TypeOK, PcInv, Pc, OpPc, ConnPc, BreakPc, Opening, Closing
  <2>2. SlotInv'
    BY <1>1, <1>14, <2>1
       DEF Publish, Move, TypeOK, PcInv, SlotInv, OwnerInv, Owners, Others, Opening, Closing,
           BreakPc
  <2>3. OwnerInv'
    BY <1>1, <1>14, <2>1
       DEF Publish, Move, TypeOK, PcInv, SlotInv, OwnerInv, Owners, Others, Opening, Closing,
           BreakPc
  <2> QED
    BY <2>1, <2>2, <2>3
<1>15. CASE FirstReference(t)
  <2>1. PcInv'
    BY <1>1, <1>15
       DEF FirstReference, Move, TypeOK, PcInv, Pc, OpPc, ConnPc, BreakPc, Opening, Closing
  <2>2. SlotInv'
    BY <1>1, <1>15, <2>1
       DEF FirstReference, Move, TypeOK, PcInv, SlotInv, OwnerInv, Owners, Others, Opening, Closing,
           BreakPc
  <2>3. OwnerInv'
    BY <1>1, <1>15, <2>1
       DEF FirstReference, Move, TypeOK, PcInv, SlotInv, OwnerInv, Owners, Others, Opening, Closing,
           BreakPc
  <2> QED
    BY <2>1, <2>2, <2>3
<1>16. CASE Elect(t)
  <2>1. PcInv'
    <3>1. lifecycle = "OPEN"
      BY <1>1, <1>16 DEF Elect, OwnerInv, Owners, Closing
    <3>2. /\ pc' = [pc EXCEPT ![t] = IF marker = t THEN "callback" ELSE "drain"]
          /\ pc[t] = "elect" /\ UNCHANGED <<marker, closer, want>>
      BY <1>16, <3>1 DEF Elect, Return
    <3> QED
      BY <1>1, <3>2 DEF TypeOK, PcInv, Pc, OpPc, ConnPc, BreakPc, Opening, Closing
  <2>2. SlotInv'
    BY <1>1, <1>16, <2>1
       DEF Elect, Return, TypeOK, PcInv, SlotInv, OwnerInv, Owners, Others, Opening, Closing,
           BreakPc
  <2>3. OwnerInv'
    BY <1>1, <1>16, <2>1
       DEF Elect, Return, TypeOK, PcInv, SlotInv, OwnerInv, Owners, Others, Opening, Closing,
           BreakPc
  <2> QED
    BY <2>1, <2>2, <2>3
<1>17. CASE Drain(t)
  <2>1. PcInv'
    BY <1>1, <1>17 DEF Drain, Move, TypeOK, PcInv, Pc, OpPc, ConnPc, BreakPc, Opening, Closing
  <2>2. SlotInv'
    BY <1>1, <1>17, <2>1
       DEF Drain, Move, TypeOK, PcInv, SlotInv, OwnerInv, Owners, Others, Opening, Closing, BreakPc
  <2>3. OwnerInv'
    BY <1>1, <1>17, <2>1
       DEF Drain, Move, TypeOK, PcInv, SlotInv, OwnerInv, Owners, Others, Opening, Closing, BreakPc
  <2> QED
    BY <2>1, <2>2, <2>3
<1>18. CASE Walk(t)
  <2>1. PcInv'
    <3>1. /\ pc[t] = "walk" /\ UNCHANGED <<slot, want, closer>>
          /\ \E l \in {"conn_cas", "down", "walk"} : pc' = [pc EXCEPT ![t] = l]
      BY <1>18 DEF Walk, NextConn
    <3> QED
      BY <1>1, <3>1 DEF PcInv, Pc, OpPc, ConnPc, BreakPc, Closing
  <2>2. SlotInv'
    BY <1>1, <1>18, <2>1
       DEF Walk, NextConn, TypeOK, PcInv, SlotInv, OwnerInv, Owners, Others, Opening, Closing,
           BreakPc
  <2>3. OwnerInv'
    BY <1>1, <1>18, <2>1
       DEF Walk, NextConn, TypeOK, PcInv, SlotInv, OwnerInv, Owners, Others, Opening, Closing,
           BreakPc
  <2> QED
    BY <2>1, <2>2, <2>3
<1>19. CASE BackendClose(t)
  <2>1. PcInv'
    BY <1>1, <1>19
       DEF BackendClose, Move, TypeOK, PcInv, Pc, OpPc, ConnPc, BreakPc, Opening, Closing
  <2>2. SlotInv'
    BY <1>1, <1>19, <2>1
       DEF BackendClose, Move, TypeOK, PcInv, SlotInv, OwnerInv, Owners, Others, Opening, Closing,
           BreakPc
  <2>3. OwnerInv'
    BY <1>1, <1>19, <2>1
       DEF BackendClose, Move, TypeOK, PcInv, SlotInv, OwnerInv, Owners, Others, Opening, Closing,
           BreakPc
  <2> QED
    BY <2>1, <2>2, <2>3
<1>20. CASE Unopen(t)
  <2>1. PcInv'
    BY <1>1, <1>20 DEF Unopen, Move, TypeOK, PcInv, Pc, OpPc, ConnPc, BreakPc, Opening, Closing
  <2>2. SlotInv'
    BY <1>1, <1>20, <2>1
       DEF Unopen, Move, TypeOK, PcInv, SlotInv, OwnerInv, Owners, Others, Opening, Closing, BreakPc
  <2>3. OwnerInv'
    BY <1>1, <1>20, <2>1
       DEF Unopen, Move, TypeOK, PcInv, SlotInv, OwnerInv, Owners, Others, Opening, Closing, BreakPc
  <2> QED
    BY <2>1, <2>2, <2>3
<1>21. CASE FreeRadio(t)
  <2>1. PcInv'
    BY <1>1, <1>21 DEF FreeRadio, Move, TypeOK, PcInv, Pc, OpPc, ConnPc, BreakPc, Opening, Closing
  <2>2. SlotInv'
    BY <1>1, <1>21, <2>1
       DEF FreeRadio, Move, TypeOK, PcInv, SlotInv, OwnerInv, Owners, Others, Opening, Closing,
           BreakPc
  <2>3. OwnerInv'
    BY <1>1, <1>21, <2>1
       DEF FreeRadio, Move, TypeOK, PcInv, SlotInv, OwnerInv, Owners, Others, Opening, Closing,
           BreakPc
  <2> QED
    BY <2>1, <2>2, <2>3
<1>22. CASE CountOp(t)
  <2>1. PcInv'
    BY <1>1, <1>22 DEF CountOp, Move, TypeOK, PcInv, Pc, OpPc, ConnPc, BreakPc, Opening, Closing
  <2>2. SlotInv'
    BY <1>1, <1>22, <2>1
       DEF CountOp, Move, TypeOK, PcInv, SlotInv, OwnerInv, Owners, Others, Opening, Closing,
           BreakPc
  <2>3. OwnerInv'
    BY <1>1, <1>22, <2>1
       DEF CountOp, Move, TypeOK, PcInv, SlotInv, OwnerInv, Owners, Others, Opening, Closing,
           BreakPc
  <2> QED
    BY <2>1, <2>2, <2>3
<1>23. CASE Check(t)
  <2>1. PcInv'
    <3>1. pc[t] = "check" /\ want[t] \in {"radio_op", "cb_enter", "conn_alloc", "notify"}
      BY <1>23 DEF Check, PcInv
    <3>2. /\ UNCHANGED <<slot, closer>>
          /\ \/ pc' = [pc EXCEPT ![t] = "conn_add"] /\ want[t] = "notify" /\ UNCHANGED want
             \/ \E l \in {"radio_op", "cb_enter", "conn_alloc", "back_out"} : pc' = [pc EXCEPT ![t] = l]
      BY <1>23, <3>1 DEF Check
    <3>3. \A u \in Threads : u # t => pc'[u] = pc[u] /\ want'[u] = want[u]
      BY <1>1 DEF Others
    <3>4. pc' \in [Threads -> Pc]
      BY <1>1, <3>2 DEF Pc, OpPc, ConnPc
    <3>5. marker' # NoThread => pc'[marker'] \in {"callback", "elect"}
      BY <1>1, <3>1, <3>2, <3>3 DEF TypeOK, PcInv
    <3>6. ~closer'[t] /\ UNCHANGED closer
      BY <3>1, <3>2 DEF PcInv, BreakPc
    <3>7. /\ pc'[t] \notin {"walk", "down", "enter", "check"}
          /\ pc'[t] \in ConnPc => want'[t] \in {"gatt", "notify"}
      BY <1>1, <3>1, <3>2 DEF ConnPc
    <3> QED
      BY <3>3, <3>4, <3>5, <3>6, <3>7 DEF PcInv
  <2>2. SlotInv'
    BY <1>1, <1>23, <2>1
       DEF Check, TypeOK, PcInv, SlotInv, OwnerInv, Owners, Others, Opening, Closing, BreakPc
  <2>3. OwnerInv'
    BY <1>1, <1>23, <2>1
       DEF Check, TypeOK, PcInv, SlotInv, OwnerInv, Owners, Others, Opening, Closing, BreakPc
  <2> QED
    BY <2>1, <2>2, <2>3
<1>24. CASE BackOut(t)
  <2>1. PcInv'
    BY <1>1, <1>24 DEF BackOut, Move, TypeOK, PcInv, Pc, OpPc, ConnPc, BreakPc, Opening, Closing
  <2>2. SlotInv'
    BY <1>1, <1>24, <2>1
       DEF BackOut, Move, TypeOK, PcInv, SlotInv, OwnerInv, Owners, Others, Opening, Closing,
           BreakPc
  <2>3. OwnerInv'
    BY <1>1, <1>24, <2>1
       DEF BackOut, Move, TypeOK, PcInv, SlotInv, OwnerInv, Owners, Others, Opening, Closing,
           BreakPc
  <2> QED
    BY <2>1, <2>2, <2>3
<1>25. CASE LeaveRadio(t)
  <2>1. PcInv'
    BY <1>1, <1>25 DEF LeaveRadio, Move, TypeOK, PcInv, Pc, OpPc, ConnPc, BreakPc, Opening, Closing
  <2>2. SlotInv'
    BY <1>1, <1>25, <2>1
       DEF LeaveRadio, Move, TypeOK, PcInv, SlotInv, OwnerInv, Owners, Others, Opening, Closing,
           BreakPc
  <2>3. OwnerInv'
    BY <1>1, <1>25, <2>1
       DEF LeaveRadio, Move, TypeOK, PcInv, SlotInv, OwnerInv, Owners, Others, Opening, Closing,
           BreakPc
  <2> QED
    BY <2>1, <2>2, <2>3
<1>26. CASE CbEnter(t)
  <2>1. PcInv'
    BY <1>1, <1>26 DEF CbEnter, Move, TypeOK, PcInv, Pc, OpPc, ConnPc, BreakPc, Opening, Closing
  <2>2. SlotInv'
    BY <1>1, <1>26, <2>1
       DEF CbEnter, Move, TypeOK, PcInv, SlotInv, OwnerInv, Owners, Others, Opening, Closing,
           BreakPc
  <2>3. OwnerInv'
    BY <1>1, <1>26, <2>1
       DEF CbEnter, Move, TypeOK, PcInv, SlotInv, OwnerInv, Owners, Others, Opening, Closing,
           BreakPc
  <2> QED
    BY <2>1, <2>2, <2>3
<1>27. CASE CbLeave(t)
  <2>1. PcInv'
    BY <1>1, <1>27 DEF CbLeave, Move, TypeOK, PcInv, Pc, OpPc, ConnPc, BreakPc, Opening, Closing
  <2>2. SlotInv'
    BY <1>1, <1>27, <2>1
       DEF CbLeave, Move, TypeOK, PcInv, SlotInv, OwnerInv, Owners, Others, Opening, Closing,
           BreakPc
  <2>3. OwnerInv'
    BY <1>1, <1>27, <2>1
       DEF CbLeave, Move, TypeOK, PcInv, SlotInv, OwnerInv, Owners, Others, Opening, Closing,
           BreakPc
  <2> QED
    BY <2>1, <2>2, <2>3
<1>28. CASE TakeDeferredClose(t)
  <2>1. PcInv'
    BY <1>1, <1>28 DEF TakeDeferredClose, TypeOK, PcInv, Pc, OpPc, ConnPc, BreakPc, Opening, Closing
  <2>2. SlotInv'
    BY <1>1, <1>28, <2>1
       DEF TakeDeferredClose, TypeOK, PcInv, SlotInv, OwnerInv, Owners, Others, Opening, Closing,
           BreakPc
  <2>3. OwnerInv'
    BY <1>1, <1>28, <2>1
       DEF TakeDeferredClose, TypeOK, PcInv, SlotInv, OwnerInv, Owners, Others, Opening, Closing,
           BreakPc
  <2> QED
    BY <2>1, <2>2, <2>3
<1>29. CASE LeaveSelfClosed(t)
  <2>1. PcInv'
    BY <1>1, <1>29
       DEF LeaveSelfClosed, Move, TypeOK, PcInv, Pc, OpPc, ConnPc, BreakPc, Opening, Closing
  <2>2. SlotInv'
    BY <1>1, <1>29, <2>1
       DEF LeaveSelfClosed, Move, TypeOK, PcInv, SlotInv, OwnerInv, Owners, Others, Opening,
           Closing, BreakPc
  <2>3. OwnerInv'
    BY <1>1, <1>29, <2>1
       DEF LeaveSelfClosed, Move, TypeOK, PcInv, SlotInv, OwnerInv, Owners, Others, Opening,
           Closing, BreakPc
  <2> QED
    BY <2>1, <2>2, <2>3
<1>30. CASE ClaimConn(t)
  <2>1. /\ pc[t] = "conn_alloc" /\ UNCHANGED <<slot, alive, want, closer>>
        /\ pc' = [pc EXCEPT ![t] = "radio_op"] \/ pc' = [pc EXCEPT ![t] = "conn_zero"]
    BY <1>30, Zenon DEF ClaimConn
  <2>2. PcInv'
    BY <1>1, <2>1 DEF TypeOK, PcInv, Pc, OpPc, ConnPc, BreakPc, Opening, Closing
  <2>3. SlotInv' /\ OwnerInv'
    BY <1>1, <2>1, <2>2
       DEF TypeOK, PcInv, SlotInv, OwnerInv, Owners, Others, Opening, Closing, BreakPc
  <2> QED
    BY <2>2, <2>3
<1>31. CASE ZeroConn(t)
  <2>1. PcInv'
    BY <1>1, <1>31 DEF ZeroConn, Move, TypeOK, PcInv, Pc, OpPc, ConnPc, BreakPc, Opening, Closing
  <2>2. SlotInv'
    BY <1>1, <1>31, <2>1
       DEF ZeroConn, Move, TypeOK, PcInv, SlotInv, OwnerInv, Owners, Others, Opening, Closing,
           BreakPc
  <2>3. OwnerInv'
    BY <1>1, <1>31, <2>1
       DEF ZeroConn, Move, TypeOK, PcInv, SlotInv, OwnerInv, Owners, Others, Opening, Closing,
           BreakPc
  <2> QED
    BY <2>1, <2>2, <2>3
<1>32. CASE Link(t)
  <2>1. PcInv'
    BY <1>1, <1>32 DEF Link, Move, TypeOK, PcInv, Pc, OpPc, ConnPc, BreakPc, Opening, Closing
  <2>2. SlotInv'
    BY <1>1, <1>32, <2>1
       DEF Link, Move, TypeOK, PcInv, SlotInv, OwnerInv, Owners, Others, Opening, Closing, BreakPc
  <2>3. OwnerInv'
    BY <1>1, <1>32, <2>1
       DEF Link, Move, TypeOK, PcInv, SlotInv, OwnerInv, Owners, Others, Opening, Closing, BreakPc
  <2> QED
    BY <2>1, <2>2, <2>3
<1>33. CASE CountConnOp(t)
  <2>1. PcInv'
    BY <1>1, <1>33 DEF CountConnOp, Move, TypeOK, PcInv, Pc, OpPc, ConnPc, BreakPc, Opening, Closing
  <2>2. SlotInv'
    BY <1>1, <1>33, <2>1
       DEF CountConnOp, Move, TypeOK, PcInv, SlotInv, OwnerInv, Owners, Others, Opening, Closing,
           BreakPc
  <2>3. OwnerInv'
    BY <1>1, <1>33, <2>1
       DEF CountConnOp, Move, TypeOK, PcInv, SlotInv, OwnerInv, Owners, Others, Opening, Closing,
           BreakPc
  <2> QED
    BY <2>1, <2>2, <2>3
<1>34. CASE CheckConn(t)
  <2>1. PcInv'
    <3>1. pc[t] = "conn_chk" /\ want[t] \in {"gatt", "notify"}
      BY <1>34 DEF CheckConn, PcInv, ConnPc
    <3>2. /\ UNCHANGED <<slot, closer>>
          /\ \/ pc' = [pc EXCEPT ![t] = "gatt"] \/ pc' = [pc EXCEPT ![t] = "notify"]
             \/ pc' = [pc EXCEPT ![t] = "conn_back"] /\ UNCHANGED want
      BY <1>34, <3>1 DEF CheckConn
    <3>3. \A u \in Threads : u # t => pc'[u] = pc[u] /\ want'[u] = want[u]
      BY <1>1 DEF Others
    <3>4. pc' \in [Threads -> Pc]
      BY <1>1, <3>2 DEF Pc, OpPc, ConnPc
    <3>5. marker' # NoThread => pc'[marker'] \in {"callback", "elect"}
      BY <1>1, <3>1, <3>2, <3>3 DEF TypeOK, PcInv
    <3>6. ~closer'[t] /\ UNCHANGED closer
      BY <3>1, <3>2 DEF PcInv, BreakPc
    <3>7. /\ pc'[t] \notin {"walk", "down", "enter", "check"}
          /\ pc'[t] \in ConnPc => want'[t] \in {"gatt", "notify"}
      BY <1>1, <3>1, <3>2 DEF ConnPc
    <3> QED
      BY <3>3, <3>4, <3>5, <3>6, <3>7 DEF PcInv
  <2>2. SlotInv'
    BY <1>1, <1>34, <2>1
       DEF CheckConn, TypeOK, PcInv, SlotInv, OwnerInv, Owners, Others, Opening, Closing, BreakPc
  <2>3. OwnerInv'
    BY <1>1, <1>34, <2>1
       DEF CheckConn, TypeOK, PcInv, SlotInv, OwnerInv, Owners, Others, Opening, Closing, BreakPc
  <2> QED
    BY <2>1, <2>2, <2>3
<1>35. CASE BackOutConn(t)
  <2>1. PcInv'
    BY <1>1, <1>35 DEF BackOutConn, Move, TypeOK, PcInv, Pc, OpPc, ConnPc, BreakPc, Opening, Closing
  <2>2. SlotInv'
    BY <1>1, <1>35, <2>1
       DEF BackOutConn, Move, TypeOK, PcInv, SlotInv, OwnerInv, Owners, Others, Opening, Closing,
           BreakPc
  <2>3. OwnerInv'
    BY <1>1, <1>35, <2>1
       DEF BackOutConn, Move, TypeOK, PcInv, SlotInv, OwnerInv, Owners, Others, Opening, Closing,
           BreakPc
  <2> QED
    BY <2>1, <2>2, <2>3
<1>36. CASE LeaveGatt(t)
  <2>1. PcInv'
    BY <1>1, <1>36 DEF LeaveGatt, Move, TypeOK, PcInv, Pc, OpPc, ConnPc, BreakPc, Opening, Closing
  <2>2. SlotInv'
    BY <1>1, <1>36, <2>1
       DEF LeaveGatt, Move, TypeOK, PcInv, SlotInv, OwnerInv, Owners, Others, Opening, Closing,
           BreakPc
  <2>3. OwnerInv'
    BY <1>1, <1>36, <2>1
       DEF LeaveGatt, Move, TypeOK, PcInv, SlotInv, OwnerInv, Owners, Others, Opening, Closing,
           BreakPc
  <2> QED
    BY <2>1, <2>2, <2>3
<1>37. CASE LeaveNotify(t)
  <2>1. PcInv'
    BY <1>1, <1>37 DEF LeaveNotify, Move, TypeOK, PcInv, Pc, OpPc, ConnPc, BreakPc, Opening, Closing
  <2>2. SlotInv'
    BY <1>1, <1>37, <2>1
       DEF LeaveNotify, Move, TypeOK, PcInv, SlotInv, OwnerInv, Owners, Others, Opening, Closing,
           BreakPc
  <2>3. OwnerInv'
    BY <1>1, <1>37, <2>1
       DEF LeaveNotify, Move, TypeOK, PcInv, SlotInv, OwnerInv, Owners, Others, Opening, Closing,
           BreakPc
  <2> QED
    BY <2>1, <2>2, <2>3
<1>38. CASE DisconnectElect(t)
  <2>1. /\ pc[t] = "conn_cas" /\ UNCHANGED <<slot, alive, want, closer>>
        /\ \/ pc' = [pc EXCEPT ![t] = "conn_drain"]
           \/ closer[t] /\ (pc' = [pc EXCEPT ![t] = "down"] \/ pc' = [pc EXCEPT ![t] = "walk"])
           \/ ~closer[t] /\ pc' = [pc EXCEPT ![t] = "idle"]
    BY <1>38, Zenon DEF DisconnectElect, Disconnected, NextConn
  <2>2. PcInv'
    BY <1>1, <2>1 DEF TypeOK, PcInv, Pc, OpPc, ConnPc, BreakPc, Opening, Closing
  <2>3. t \in Owners <=> t \in Owners'
    BY <1>1, <2>1 DEF Owners, Opening, Closing
  <2>4. Owners' = Owners
    BY <1>1, <2>3 DEF Owners, Others
  <2>5. SlotInv'
    BY <1>1, <2>1, <2>4 DEF SlotInv, Others
  <2>6. pc'[t] \in {"conn_drain", "down", "walk", "idle"}
    BY <1>1, <2>1
  <2>7. OwnerInv'
    <3>1. lifecycle' = lifecycle /\ (alive' <=> alive)
      BY <2>1
    <3>2. ASSUME NEW u \in Owners
          PROVE  LET early == {"zero", "up", "publish", "free"}  down == {"zero", "up", "unopen", "free"}
                     open == {"first_ref", "elect"}
                 IN  /\ pc'[u] \in early <=> pc[u] \in early
                     /\ pc'[u] \in open <=> pc[u] \in open
                     /\ pc'[u] \in down <=> pc[u] \in down
      BY <1>1, <2>1, <2>6 DEF Others, Owners
    <3> QED
      BY <2>4, <3>1, <3>2 DEF OwnerInv
  <2> QED
    BY <2>2, <2>5, <2>7
<1>39. CASE ConnDrain(t)
  <2>1. PcInv'
    BY <1>1, <1>39 DEF ConnDrain, Move, TypeOK, PcInv, Pc, OpPc, ConnPc, BreakPc, Opening, Closing
  <2>2. SlotInv'
    BY <1>1, <1>39, <2>1
       DEF ConnDrain, Move, TypeOK, PcInv, SlotInv, OwnerInv, Owners, Others, Opening, Closing,
           BreakPc
  <2>3. OwnerInv'
    BY <1>1, <1>39, <2>1
       DEF ConnDrain, Move, TypeOK, PcInv, SlotInv, OwnerInv, Owners, Others, Opening, Closing,
           BreakPc
  <2> QED
    BY <2>1, <2>2, <2>3
<1>40. CASE Unlink(t)
  <2>1. PcInv'
    BY <1>1, <1>40 DEF Unlink, Move, TypeOK, PcInv, Pc, OpPc, ConnPc, BreakPc, Opening, Closing
  <2>2. SlotInv'
    BY <1>1, <1>40, <2>1
       DEF Unlink, Move, TypeOK, PcInv, SlotInv, OwnerInv, Owners, Others, Opening, Closing, BreakPc
  <2>3. OwnerInv'
    BY <1>1, <1>40, <2>1
       DEF Unlink, Move, TypeOK, PcInv, SlotInv, OwnerInv, Owners, Others, Opening, Closing, BreakPc
  <2> QED
    BY <2>1, <2>2, <2>3
<1>41. CASE FreeConnSlot(t)
  <2>1. /\ pc[t] = "conn_free" /\ UNCHANGED <<slot, alive, want, closer>>
        /\ \/ closer[t] /\ (pc' = [pc EXCEPT ![t] = "down"] \/ pc' = [pc EXCEPT ![t] = "walk"])
           \/ ~closer[t] /\ pc' = [pc EXCEPT ![t] = "idle"]
    BY <1>41, Zenon DEF FreeConnSlot, Disconnected, NextConn
  <2>2. PcInv'
    BY <1>1, <2>1 DEF TypeOK, PcInv, Pc, OpPc, ConnPc, BreakPc, Opening, Closing
  <2>3. t \in Owners <=> t \in Owners'
    BY <1>1, <2>1 DEF Owners, Opening, Closing
  <2>4. Owners' = Owners
    BY <1>1, <2>3 DEF Owners, Others
  <2>5. SlotInv'
    BY <1>1, <2>1, <2>4 DEF SlotInv, Others
  <2>6. pc'[t] \in {"conn_drain", "down", "walk", "idle"}
    BY <1>1, <2>1
  <2>7. OwnerInv'
    <3>1. lifecycle' = lifecycle /\ (alive' <=> alive)
      BY <2>1
    <3>2. ASSUME NEW u \in Owners
          PROVE  LET early == {"zero", "up", "publish", "free"}  down == {"zero", "up", "unopen", "free"}
                     open == {"first_ref", "elect"}
                 IN  /\ pc'[u] \in early <=> pc[u] \in early
                     /\ pc'[u] \in open <=> pc[u] \in open
                     /\ pc'[u] \in down <=> pc[u] \in down
      BY <1>1, <2>1, <2>6 DEF Others, Owners
    <3> QED
      BY <2>4, <3>1, <3>2 DEF OwnerInv
  <2> QED
    BY <2>2, <2>5, <2>7
<1> QED
  BY <1>2, <1>3, <1>4, <1>5, <1>6, <1>7, <1>8, <1>9, <1>10, <1>11, <1>12, <1>13, <1>14, <1>15,
     <1>16, <1>17, <1>18, <1>19, <1>20, <1>21, <1>22, <1>23, <1>24, <1>25, <1>26, <1>27, <1>28,
     <1>29, <1>30, <1>31, <1>32, <1>33, <1>34, <1>35, <1>36, <1>37, <1>38, <1>39, <1>40, <1>41 DEF
     Call, Step

\* And the counter stays exact and the drained radio quiet, if nobody is late
\* when the slot is claimed again.
LEMMA OpsStep ==
  ASSUME IInv, IInv', OpsInv, JoinBeforeReopen, NEW t \in Threads, Call(t) \/ Step(t)
  PROVE  OpsInv'
<1> USE DEF IInv, Goto, slot
<1>1. TypeOK /\ pc \in [Threads -> Pc] /\ Others(t) /\ CountInv /\ QuietInv
  BY StepOfOne DEF PcInv, OpsInv
<1>2. CASE StartOpen(t)
  <2>1. CountMove(t)
    BY <1>1, <1>2
       DEF StartOpen, Move, TypeOK, PcInv, Others, CountMove, Counted, Admitted, OpPc, ConnPc
  <2>2. QuietInv'
    BY <1>1, <1>2
       DEF StartOpen, Move, TypeOK, PcInv, SlotInv, OwnerInv, QuietInv, Owners, Others, Opening,
           Closing, BreakPc, Late, Admitted, OpPc, ConnPc, StragglesOnRadio
  <2> QED
    BY <1>1, <2>1, <2>2, CountKept DEF OpsInv
<1>3. CASE StartClose(t)
  <2>1. CountMove(t)
    BY <1>1, <1>3 DEF StartClose, TypeOK, PcInv, Others, CountMove, Counted, Admitted, OpPc, ConnPc
  <2>2. QuietInv'
    BY <1>1, <1>3
       DEF StartClose, TypeOK, PcInv, SlotInv, OwnerInv, QuietInv, Owners, Others, Opening, Closing,
           BreakPc, Late, Admitted, OpPc, ConnPc, StragglesOnRadio
  <2> QED
    BY <1>1, <2>1, <2>2, CountKept DEF OpsInv
<1>4. CASE StartRadioOp(t)
  <2>1. CountMove(t)
    BY <1>1, <1>4
       DEF StartRadioOp, CallRadio, Move, TypeOK, PcInv, Others, CountMove, Counted, Admitted, OpPc,
           ConnPc
  <2>2. QuietInv'
    BY <1>1, <1>4
       DEF StartRadioOp, CallRadio, Move, TypeOK, PcInv, SlotInv, OwnerInv, QuietInv, Owners,
           Others, Opening, Closing, BreakPc, Late, Admitted, OpPc, ConnPc, StragglesOnRadio
  <2> QED
    BY <1>1, <2>1, <2>2, CountKept DEF OpsInv
<1>5. CASE StartScan(t)
  <2>1. CountMove(t)
    BY <1>1, <1>5
       DEF StartScan, CallRadio, Move, TypeOK, PcInv, Others, CountMove, Counted, Admitted, OpPc,
           ConnPc
  <2>2. QuietInv'
    BY <1>1, <1>5
       DEF StartScan, CallRadio, Move, TypeOK, PcInv, SlotInv, OwnerInv, QuietInv, Owners, Others,
           Opening, Closing, BreakPc, Late, Admitted, OpPc, ConnPc, StragglesOnRadio
  <2> QED
    BY <1>1, <2>1, <2>2, CountKept DEF OpsInv
<1>6. CASE StartConnect(t)
  <2>1. CountMove(t)
    BY <1>1, <1>6
       DEF StartConnect, CallRadio, Move, TypeOK, PcInv, Others, CountMove, Counted, Admitted, OpPc,
           ConnPc
  <2>2. QuietInv'
    BY <1>1, <1>6
       DEF StartConnect, CallRadio, Move, TypeOK, PcInv, SlotInv, OwnerInv, QuietInv, Owners,
           Others, Opening, Closing, BreakPc, Late, Admitted, OpPc, ConnPc, StragglesOnRadio
  <2> QED
    BY <1>1, <2>1, <2>2, CountKept DEF OpsInv
<1>7. ASSUME NEW c \in Conns, StartGatt(t, c) PROVE OpsInv'
  <2>1. CountMove(t)
    BY <1>1, <1>7
       DEF StartGatt, CallConn, OnConn, Move, TypeOK, PcInv, Others, CountMove, Counted, Admitted,
           OpPc, ConnPc
  <2>2. QuietInv'
    BY <1>1, <1>7
       DEF StartGatt, CallConn, OnConn, Move, TypeOK, PcInv, SlotInv, OwnerInv, QuietInv, Owners,
           Others, Opening, Closing, BreakPc, Late, Admitted, OpPc, ConnPc, StragglesOnRadio
  <2> QED
    BY <1>1, <2>1, <2>2, CountKept DEF OpsInv
<1>8. ASSUME NEW c \in Conns, StartNotify(t, c) PROVE OpsInv'
  <2>1. CountMove(t)
    BY <1>1, <1>8
       DEF StartNotify, CallRadio, OnConn, Move, TypeOK, PcInv, Others, CountMove, Counted,
           Admitted, OpPc, ConnPc
  <2>2. QuietInv'
    BY <1>1, <1>8
       DEF StartNotify, CallRadio, OnConn, Move, TypeOK, PcInv, SlotInv, OwnerInv, QuietInv, Owners,
           Others, Opening, Closing, BreakPc, Late, Admitted, OpPc, ConnPc, StragglesOnRadio
  <2> QED
    BY <1>1, <2>1, <2>2, CountKept DEF OpsInv
<1>9. ASSUME NEW c \in Conns, StartDisconnect(t, c) PROVE OpsInv'
  <2>1. CountMove(t)
    BY <1>1, <1>9
       DEF StartDisconnect, CallConn, OnConn, Move, TypeOK, PcInv, Others, CountMove, Counted,
           Admitted, OpPc, ConnPc
  <2>2. QuietInv'
    BY <1>1, <1>9
       DEF StartDisconnect, CallConn, OnConn, Move, TypeOK, PcInv, SlotInv, OwnerInv, QuietInv,
           Owners, Others, Opening, Closing, BreakPc, Late, Admitted, OpPc, ConnPc, StragglesOnRadio
  <2> QED
    BY <1>1, <2>1, <2>2, CountKept DEF OpsInv
<1>10. CASE Scan(t)
  <2>1. CountMove(t)
    BY <1>1, <1>10 DEF Scan, TypeOK, PcInv, Others, CountMove, Counted, Admitted, OpPc, ConnPc
  <2>2. QuietInv'
    BY <1>1, <1>10
       DEF Scan, TypeOK, PcInv, SlotInv, OwnerInv, QuietInv, Owners, Others, Opening, Closing,
           BreakPc, Late, Admitted, OpPc, ConnPc, StragglesOnRadio
  <2> QED
    BY <1>1, <2>1, <2>2, CountKept DEF OpsInv
<1>11. CASE ClaimRadio(t)
  <2>1. CountMove(t)
    BY <1>1, <1>11 DEF ClaimRadio, TypeOK, PcInv, Others, CountMove, Counted, Admitted, OpPc, ConnPc
  <2>2. QuietInv'
    BY <1>1, <1>11
       DEF ClaimRadio, TypeOK, PcInv, SlotInv, OwnerInv, QuietInv, Owners, Others, Opening, Closing,
           BreakPc, Late, Admitted, OpPc, ConnPc, StragglesOnRadio
  <2> QED
    BY <1>1, <2>1, <2>2, CountKept DEF OpsInv
<1>12. CASE ZeroRadio(t)
  <2>1. Admitted = {} /\ Late = {}
    BY <1>1, <1>12 DEF ZeroRadio, Move, QuietInv, OwnerInv, Owners, Opening
  <2>2. Counted' = {} /\ Admitted' = {} /\ Late' = {}
    BY <1>1, <1>12, <2>1 DEF ZeroRadio, Move, Others, Counted, Admitted, Late, TypeOK, PcInv, OpPc, ConnPc
  <2>3. CountInv'
    BY <1>12, <2>2, Counts DEF ZeroRadio, CountInv
  <2> QED
    BY <2>2, <2>3 DEF OpsInv, QuietInv
<1>13. CASE BackendOpen(t)
  <2>1. CountMove(t)
    BY <1>1, <1>13
       DEF BackendOpen, TypeOK, PcInv, Others, CountMove, Counted, Admitted, OpPc, ConnPc
  <2>2. QuietInv'
    BY <1>1, <1>13
       DEF BackendOpen, TypeOK, PcInv, SlotInv, OwnerInv, QuietInv, Owners, Others, Opening,
           Closing, BreakPc, Late, Admitted, OpPc, ConnPc, StragglesOnRadio
  <2> QED
    BY <1>1, <2>1, <2>2, CountKept DEF OpsInv
<1>14. CASE Publish(t)
  <2>1. CountMove(t)
    BY <1>1, <1>14
       DEF Publish, Move, TypeOK, PcInv, Others, CountMove, Counted, Admitted, OpPc, ConnPc
  <2>2. QuietInv'
    BY <1>1, <1>14
       DEF Publish, Move, TypeOK, PcInv, SlotInv, OwnerInv, QuietInv, Owners, Others, Opening,
           Closing, BreakPc, Late, Admitted, OpPc, ConnPc, StragglesOnRadio
  <2> QED
    BY <1>1, <2>1, <2>2, CountKept DEF OpsInv
<1>15. CASE FirstReference(t)
  <2>1. CountMove(t)
    BY <1>1, <1>15
       DEF FirstReference, Move, TypeOK, PcInv, Others, CountMove, Counted, Admitted, OpPc, ConnPc
  <2>2. QuietInv'
    BY <1>1, <1>15
       DEF FirstReference, Move, TypeOK, PcInv, SlotInv, OwnerInv, QuietInv, Owners, Others,
           Opening, Closing, BreakPc, Late, Admitted, OpPc, ConnPc, StragglesOnRadio
  <2> QED
    BY <1>1, <2>1, <2>2, CountKept DEF OpsInv
<1>16. CASE Elect(t)
  <2>1. CountMove(t)
    BY <1>1, <1>16
       DEF Elect, Return, TypeOK, PcInv, Others, CountMove, Counted, Admitted, OpPc, ConnPc
  <2>2. QuietInv'
    BY <1>1, <1>16
       DEF Elect, Return, TypeOK, PcInv, SlotInv, OwnerInv, QuietInv, Owners, Others, Opening,
           Closing, BreakPc, Late, Admitted, OpPc, ConnPc, StragglesOnRadio
  <2> QED
    BY <1>1, <2>1, <2>2, CountKept DEF OpsInv
<1>17. CASE Drain(t)
  <2>1. CountMove(t)
    BY <1>1, <1>17
       DEF Drain, Move, TypeOK, PcInv, Others, CountMove, Counted, Admitted, OpPc, ConnPc
  <2>2. QuietInv'
    <3>1. Admitted = {}
      BY <1>1, <1>17, Counts DEF Drain, CountInv, Counted, Admitted
    <3>2. Admitted' = {}
      BY <1>1, <1>17, <3>1 DEF Drain, Move, Others, Admitted, OpPc, ConnPc
    <3> QED
      BY <1>1, <1>17, <3>2 DEF Drain, Move, Others, QuietInv, OwnerInv, Owners, Closing, Opening, PcInv
  <2> QED
    BY <1>1, <2>1, <2>2, CountKept DEF OpsInv
<1>18. CASE Walk(t)
  <2>1. CountMove(t)
    BY <1>1, <1>18
       DEF Walk, NextConn, TypeOK, PcInv, Others, CountMove, Counted, Admitted, OpPc, ConnPc
  <2>2. QuietInv'
    BY <1>1, <1>18
       DEF Walk, NextConn, TypeOK, PcInv, SlotInv, OwnerInv, QuietInv, Owners, Others, Opening,
           Closing, BreakPc, Late, Admitted, OpPc, ConnPc, StragglesOnRadio
  <2> QED
    BY <1>1, <2>1, <2>2, CountKept DEF OpsInv
<1>19. CASE BackendClose(t)
  <2>1. CountMove(t)
    BY <1>1, <1>19
       DEF BackendClose, Move, TypeOK, PcInv, Others, CountMove, Counted, Admitted, OpPc, ConnPc
  <2>2. QuietInv'
    BY <1>1, <1>19
       DEF BackendClose, Move, TypeOK, PcInv, SlotInv, OwnerInv, QuietInv, Owners, Others, Opening,
           Closing, BreakPc, Late, Admitted, OpPc, ConnPc, StragglesOnRadio
  <2> QED
    BY <1>1, <2>1, <2>2, CountKept DEF OpsInv
<1>20. CASE Unopen(t)
  <2>1. CountMove(t)
    BY <1>1, <1>20
       DEF Unopen, Move, TypeOK, PcInv, Others, CountMove, Counted, Admitted, OpPc, ConnPc
  <2>2. QuietInv'
    BY <1>1, <1>20
       DEF Unopen, Move, TypeOK, PcInv, SlotInv, OwnerInv, QuietInv, Owners, Others, Opening,
           Closing, BreakPc, Late, Admitted, OpPc, ConnPc, StragglesOnRadio
  <2> QED
    BY <1>1, <2>1, <2>2, CountKept DEF OpsInv
<1>21. CASE FreeRadio(t)
  <2>1. CountMove(t)
    BY <1>1, <1>21
       DEF FreeRadio, Move, TypeOK, PcInv, Others, CountMove, Counted, Admitted, OpPc, ConnPc
  <2>2. QuietInv'
    BY <1>1, <1>21
       DEF FreeRadio, Move, TypeOK, PcInv, SlotInv, OwnerInv, QuietInv, Owners, Others, Opening,
           Closing, BreakPc, Late, Admitted, OpPc, ConnPc, StragglesOnRadio
  <2> QED
    BY <1>1, <2>1, <2>2, CountKept DEF OpsInv
<1>22. CASE CountOp(t)
  <2>1. CountMove(t)
    BY <1>1, <1>22
       DEF CountOp, Move, TypeOK, PcInv, Others, CountMove, Counted, Admitted, OpPc, ConnPc
  <2>2. QuietInv'
    BY <1>1, <1>22
       DEF CountOp, Move, TypeOK, PcInv, SlotInv, OwnerInv, QuietInv, Owners, Others, Opening,
           Closing, BreakPc, Late, Admitted, OpPc, ConnPc, StragglesOnRadio
  <2> QED
    BY <1>1, <2>1, <2>2, CountKept DEF OpsInv
<1>23. CASE Check(t)
  <2>1. CountMove(t)
    BY <1>1, <1>23 DEF Check, TypeOK, PcInv, Others, CountMove, Counted, Admitted, OpPc, ConnPc
  <2>2. QuietInv'
    <3>1. CASE lifecycle = "OPEN"
      <4>1. \A u \in Threads : ~closer[u] /\ pc[u] \notin {"unopen", "zero"}
        BY <3>1 DEF OwnerInv, Owners, Opening, Closing, PcInv, BreakPc
      <4>2. pc'[t] \notin {"unopen", "zero"} /\ UNCHANGED <<lifecycle, closer>>
        BY <1>1, <1>23, <3>1 DEF Check, PcInv
      <4> QED
        BY <1>1, <3>1, <4>1, <4>2 DEF QuietInv, Others
    <3>2. CASE lifecycle # "OPEN"
      <4>1. pc[t] = "check" /\ pc' = [pc EXCEPT ![t] = "back_out"] /\ UNCHANGED <<slot, closer>>
        BY <1>23, <3>2 DEF Check
      <4>2. Admitted' = Admitted /\ Late' = Late
        BY <1>1, <4>1 DEF Admitted, Late, Others, OpPc, ConnPc
      <4> QED
        BY <1>1, <4>1, <4>2 DEF QuietInv
    <3> QED
      BY <3>1, <3>2
  <2> QED
    BY <1>1, <2>1, <2>2, CountKept DEF OpsInv
<1>24. CASE BackOut(t)
  <2>1. CountMove(t)
    BY <1>1, <1>24
       DEF BackOut, Move, TypeOK, PcInv, Others, CountMove, Counted, Admitted, OpPc, ConnPc
  <2>2. QuietInv'
    BY <1>1, <1>24
       DEF BackOut, Move, TypeOK, PcInv, SlotInv, OwnerInv, QuietInv, Owners, Others, Opening,
           Closing, BreakPc, Late, Admitted, OpPc, ConnPc, StragglesOnRadio
  <2> QED
    BY <1>1, <2>1, <2>2, CountKept DEF OpsInv
<1>25. CASE LeaveRadio(t)
  <2>1. CountMove(t)
    BY <1>1, <1>25
       DEF LeaveRadio, Move, TypeOK, PcInv, Others, CountMove, Counted, Admitted, OpPc, ConnPc
  <2>2. QuietInv'
    BY <1>1, <1>25
       DEF LeaveRadio, Move, TypeOK, PcInv, SlotInv, OwnerInv, QuietInv, Owners, Others, Opening,
           Closing, BreakPc, Late, Admitted, OpPc, ConnPc, StragglesOnRadio
  <2> QED
    BY <1>1, <2>1, <2>2, CountKept DEF OpsInv
<1>26. CASE CbEnter(t)
  <2>1. CountMove(t)
    BY <1>1, <1>26
       DEF CbEnter, Move, TypeOK, PcInv, Others, CountMove, Counted, Admitted, OpPc, ConnPc
  <2>2. QuietInv'
    BY <1>1, <1>26
       DEF CbEnter, Move, TypeOK, PcInv, SlotInv, OwnerInv, QuietInv, Owners, Others, Opening,
           Closing, BreakPc, Late, Admitted, OpPc, ConnPc, StragglesOnRadio
  <2> QED
    BY <1>1, <2>1, <2>2, CountKept DEF OpsInv
<1>27. CASE CbLeave(t)
  <2>1. CountMove(t)
    BY <1>1, <1>27
       DEF CbLeave, Move, TypeOK, PcInv, Others, CountMove, Counted, Admitted, OpPc, ConnPc
  <2>2. QuietInv'
    BY <1>1, <1>27
       DEF CbLeave, Move, TypeOK, PcInv, SlotInv, OwnerInv, QuietInv, Owners, Others, Opening,
           Closing, BreakPc, Late, Admitted, OpPc, ConnPc, StragglesOnRadio
  <2> QED
    BY <1>1, <2>1, <2>2, CountKept DEF OpsInv
<1>28. CASE TakeDeferredClose(t)
  <2>1. CountMove(t)
    BY <1>1, <1>28
       DEF TakeDeferredClose, TypeOK, PcInv, Others, CountMove, Counted, Admitted, OpPc, ConnPc
  <2>2. QuietInv'
    BY <1>1, <1>28
       DEF TakeDeferredClose, TypeOK, PcInv, SlotInv, OwnerInv, QuietInv, Owners, Others, Opening,
           Closing, BreakPc, Late, Admitted, OpPc, ConnPc, StragglesOnRadio
  <2> QED
    BY <1>1, <2>1, <2>2, CountKept DEF OpsInv
<1>29. CASE LeaveSelfClosed(t)
  <2>1. CountMove(t)
    BY <1>1, <1>29
       DEF LeaveSelfClosed, Move, TypeOK, PcInv, Others, CountMove, Counted, Admitted, OpPc, ConnPc
  <2>2. QuietInv'
    BY <1>1, <1>29
       DEF LeaveSelfClosed, Move, TypeOK, PcInv, SlotInv, OwnerInv, QuietInv, Owners, Others,
           Opening, Closing, BreakPc, Late, Admitted, OpPc, ConnPc, StragglesOnRadio
  <2> QED
    BY <1>1, <2>1, <2>2, CountKept DEF OpsInv
<1>30. CASE ClaimConn(t)
  <2>1. CountMove(t)
    BY <1>1, <1>30 DEF ClaimConn, TypeOK, PcInv, Others, CountMove, Counted, Admitted, OpPc, ConnPc
  <2>2. QuietInv'
    BY <1>1, <1>30
       DEF ClaimConn, TypeOK, PcInv, SlotInv, OwnerInv, QuietInv, Owners, Others, Opening, Closing,
           BreakPc, Late, Admitted, OpPc, ConnPc, StragglesOnRadio
  <2> QED
    BY <1>1, <2>1, <2>2, CountKept DEF OpsInv
<1>31. CASE ZeroConn(t)
  <2>1. CountMove(t)
    BY <1>1, <1>31
       DEF ZeroConn, Move, TypeOK, PcInv, Others, CountMove, Counted, Admitted, OpPc, ConnPc
  <2>2. QuietInv'
    BY <1>1, <1>31
       DEF ZeroConn, Move, TypeOK, PcInv, SlotInv, OwnerInv, QuietInv, Owners, Others, Opening,
           Closing, BreakPc, Late, Admitted, OpPc, ConnPc, StragglesOnRadio
  <2> QED
    BY <1>1, <2>1, <2>2, CountKept DEF OpsInv
<1>32. CASE Link(t)
  <2>1. CountMove(t)
    BY <1>1, <1>32 DEF Link, Move, TypeOK, PcInv, Others, CountMove, Counted, Admitted, OpPc, ConnPc
  <2>2. QuietInv'
    BY <1>1, <1>32
       DEF Link, Move, TypeOK, PcInv, SlotInv, OwnerInv, QuietInv, Owners, Others, Opening, Closing,
           BreakPc, Late, Admitted, OpPc, ConnPc, StragglesOnRadio
  <2> QED
    BY <1>1, <2>1, <2>2, CountKept DEF OpsInv
<1>33. CASE CountConnOp(t)
  <2>1. CountMove(t)
    BY <1>1, <1>33
       DEF CountConnOp, Move, TypeOK, PcInv, Others, CountMove, Counted, Admitted, OpPc, ConnPc
  <2>2. QuietInv'
    BY <1>1, <1>33
       DEF CountConnOp, Move, TypeOK, PcInv, SlotInv, OwnerInv, QuietInv, Owners, Others, Opening,
           Closing, BreakPc, Late, Admitted, OpPc, ConnPc, StragglesOnRadio
  <2> QED
    BY <1>1, <2>1, <2>2, CountKept DEF OpsInv
<1>34. CASE CheckConn(t)
  <2>1. CountMove(t)
    BY <1>1, <1>34 DEF CheckConn, TypeOK, PcInv, Others, CountMove, Counted, Admitted, OpPc, ConnPc
  <2>2. QuietInv'
    <3>1. pc[t] = "conn_chk" /\ want[t] \in {"gatt", "notify"}
      BY <1>34 DEF CheckConn, PcInv, ConnPc
    <3>2. /\ UNCHANGED <<slot, closer>>
          /\ \/ pc' = [pc EXCEPT ![t] = want[t]]
             \/ pc' = [pc EXCEPT ![t] = "conn_back"] /\ UNCHANGED want
      BY <1>34 DEF CheckConn
    <3>3. Admitted' = Admitted /\ Late' = Late
      BY <1>1, <3>1, <3>2 DEF Admitted, Late, Others, OpPc, ConnPc, TypeOK
    <3> QED
      BY <1>1, <3>1, <3>2, <3>3 DEF QuietInv
  <2> QED
    BY <1>1, <2>1, <2>2, CountKept DEF OpsInv
<1>35. CASE BackOutConn(t)
  <2>1. CountMove(t)
    BY <1>1, <1>35
       DEF BackOutConn, Move, TypeOK, PcInv, Others, CountMove, Counted, Admitted, OpPc, ConnPc
  <2>2. QuietInv'
    BY <1>1, <1>35
       DEF BackOutConn, Move, TypeOK, PcInv, SlotInv, OwnerInv, QuietInv, Owners, Others, Opening,
           Closing, BreakPc, Late, Admitted, OpPc, ConnPc, StragglesOnRadio
  <2> QED
    BY <1>1, <2>1, <2>2, CountKept DEF OpsInv
<1>36. CASE LeaveGatt(t)
  <2>1. CountMove(t)
    BY <1>1, <1>36
       DEF LeaveGatt, Move, TypeOK, PcInv, Others, CountMove, Counted, Admitted, OpPc, ConnPc
  <2>2. QuietInv'
    BY <1>1, <1>36
       DEF LeaveGatt, Move, TypeOK, PcInv, SlotInv, OwnerInv, QuietInv, Owners, Others, Opening,
           Closing, BreakPc, Late, Admitted, OpPc, ConnPc, StragglesOnRadio
  <2> QED
    BY <1>1, <2>1, <2>2, CountKept DEF OpsInv
<1>37. CASE LeaveNotify(t)
  <2>1. CountMove(t)
    BY <1>1, <1>37
       DEF LeaveNotify, Move, TypeOK, PcInv, Others, CountMove, Counted, Admitted, OpPc, ConnPc
  <2>2. QuietInv'
    BY <1>1, <1>37
       DEF LeaveNotify, Move, TypeOK, PcInv, SlotInv, OwnerInv, QuietInv, Owners, Others, Opening,
           Closing, BreakPc, Late, Admitted, OpPc, ConnPc, StragglesOnRadio
  <2> QED
    BY <1>1, <2>1, <2>2, CountKept DEF OpsInv
<1>38. CASE DisconnectElect(t)
  <2>1. CountMove(t)
    BY <1>1, <1>38
       DEF DisconnectElect, Disconnected, NextConn, TypeOK, PcInv, Others, CountMove, Counted,
           Admitted, OpPc, ConnPc
  <2>2. QuietInv'
    BY <1>1, <1>38
       DEF DisconnectElect, Disconnected, NextConn, TypeOK, PcInv, SlotInv, OwnerInv, QuietInv,
           Owners, Others, Opening, Closing, BreakPc, Late, Admitted, OpPc, ConnPc, StragglesOnRadio
  <2> QED
    BY <1>1, <2>1, <2>2, CountKept DEF OpsInv
<1>39. CASE ConnDrain(t)
  <2>1. CountMove(t)
    BY <1>1, <1>39
       DEF ConnDrain, Move, TypeOK, PcInv, Others, CountMove, Counted, Admitted, OpPc, ConnPc
  <2>2. QuietInv'
    BY <1>1, <1>39
       DEF ConnDrain, Move, TypeOK, PcInv, SlotInv, OwnerInv, QuietInv, Owners, Others, Opening,
           Closing, BreakPc, Late, Admitted, OpPc, ConnPc, StragglesOnRadio
  <2> QED
    BY <1>1, <2>1, <2>2, CountKept DEF OpsInv
<1>40. CASE Unlink(t)
  <2>1. CountMove(t)
    BY <1>1, <1>40
       DEF Unlink, Move, TypeOK, PcInv, Others, CountMove, Counted, Admitted, OpPc, ConnPc
  <2>2. QuietInv'
    BY <1>1, <1>40
       DEF Unlink, Move, TypeOK, PcInv, SlotInv, OwnerInv, QuietInv, Owners, Others, Opening,
           Closing, BreakPc, Late, Admitted, OpPc, ConnPc, StragglesOnRadio
  <2> QED
    BY <1>1, <2>1, <2>2, CountKept DEF OpsInv
<1>41. CASE FreeConnSlot(t)
  <2>1. CountMove(t)
    BY <1>1, <1>41
       DEF FreeConnSlot, Disconnected, NextConn, TypeOK, PcInv, Others, CountMove, Counted,
           Admitted, OpPc, ConnPc
  <2>2. QuietInv'
    BY <1>1, <1>41
       DEF FreeConnSlot, Disconnected, NextConn, TypeOK, PcInv, SlotInv, OwnerInv, QuietInv, Owners,
           Others, Opening, Closing, BreakPc, Late, Admitted, OpPc, ConnPc, StragglesOnRadio
  <2> QED
    BY <1>1, <2>1, <2>2, CountKept DEF OpsInv
<1> QED
  BY <1>2, <1>3, <1>4, <1>5, <1>6, <1>7, <1>8, <1>9, <1>10, <1>11, <1>12, <1>13, <1>14, <1>15,
     <1>16, <1>17, <1>18, <1>19, <1>20, <1>21, <1>22, <1>23, <1>24, <1>25, <1>26, <1>27, <1>28,
     <1>29, <1>30, <1>31, <1>32, <1>33, <1>34, <1>35, <1>36, <1>37, <1>38, <1>39, <1>40, <1>41 DEF
     Call, Step

-----------------------------------------------------------------------------
\* The initial state satisfies both.
LEMMA InitHolds == Init => IInv /\ OpsInv
<1> SUFFICES ASSUME Init PROVE IInv /\ OpsInv
  OBVIOUS
<1>1. Owners = {} /\ Counted = {} /\ Admitted = {} /\ Late = {}
  BY DEF Init, Owners, Counted, Admitted, Late, OpPc, ConnPc, Opening, Closing
<1>2. TypeOK
  <2>1. 0 \in 0..MaxRefs /\ 1 \in Conns
    BY DEF Conns
  <2>2. FreeConn \in [in_use : BOOLEAN, lifecycle : {"UNOPENED", "OPEN", "CLOSING"},
                      active_ops : Int]
    BY DEF FreeConn
  <2>3. closer \in [Threads -> BOOLEAN]
    BY DEF Init
  <2>4. in_use \in BOOLEAN /\ alive \in BOOLEAN /\ close_pending \in BOOLEAN
    BY DEF Init
  <2>5. /\ refcount \in 0..MaxRefs /\ active_ops \in Int /\ at \in [Threads -> Conns]
        /\ want \in [Threads -> {"none", "radio_op", "cb_enter", "conn_alloc", "gatt", "notify"}]
    BY <2>1 DEF Init
  <2> QED
    BY <2>2, <2>3, <2>4, <2>5, Zenon DEF Init, TypeOK
<1>3. PcInv /\ SlotInv /\ OwnerInv
  BY <1>1 DEF Init, PcInv, SlotInv, OwnerInv, Pc, ConnPc, BreakPc
<1>4. OpsInv
  BY <1>1, Counts DEF Init, OpsInv, CountInv, QuietInv
<1> QED
  BY <1>2, <1>3, <1>4 DEF IInv

\* Every step preserves the slot's, and with the rule on late callers the ops'.
LEMMA Inductive ==
  ASSUME IInv, [Next]_vars
  PROVE  IInv' /\ (JoinBeforeReopen /\ OpsInv => OpsInv')
<1>1. CASE UNCHANGED vars
  <2>1. Owners' = Owners /\ Counted' = Counted /\ Admitted' = Admitted /\ Late' = Late
    BY <1>1 DEF vars, slot, Owners, Counted, Admitted, Late
  <2> QED
    BY <1>1, <2>1 DEF vars, slot, IInv, TypeOK, PcInv, SlotInv, OwnerInv, OpsInv, CountInv, QuietInv
<1>2. ASSUME NEW t \in Threads, Call(t) \/ Step(t)
      PROVE  IInv' /\ (JoinBeforeReopen /\ OpsInv => OpsInv')
  <2>1. TypeOK'
    BY <1>2, TypeStep DEF IInv
  <2>2. IInv'
    BY <1>2, <2>1, SlotStep
  <2> QED
    BY <1>2, <2>2, OpsStep
<1> QED
  BY <1>1, <1>2 DEF Next

\* So the first always holds, and the second under the rule.
LEMMA Invariance == Spec => []IInv
<1>1. Init => IInv
  BY InitHolds
<1>2. IInv /\ [Next]_vars => IInv'
  BY Inductive
<1> QED
  BY <1>1, <1>2, PTL DEF Spec

LEMMA OpsInvariance ==
  ASSUME JoinBeforeReopen
  PROVE  Spec => [](IInv /\ OpsInv)
<1>1. Init => IInv /\ OpsInv
  BY InitHolds
<1>2. IInv /\ OpsInv /\ [Next]_vars => (IInv /\ OpsInv)'
  BY Inductive
<1> QED
  BY <1>1, <1>2, PTL DEF Spec

-----------------------------------------------------------------------------
\* The state of ble_dispatch.c stays well-typed: no close, however many race or
\* come twice, takes the reference count below zero or past what was opened.
THEOREM TypeCorrect == Spec => []TypeOK
<1>1. IInv => TypeOK
  BY DEF IInv
<1> QED
  BY <1>1, Invariance, PTL

\* For any number of openers and closers of ble_dispatch.c, "refcount > 0 always
\* implies the handle is fully populated AND OPEN", whoever is late.
THEOREM ReferencesMeanOpen == Spec => []ReferenceMeansOpen
<1>1. IInv => ReferenceMeansOpen
  BY DEF IInv, SlotInv, ReferenceMeansOpen
<1> QED
  BY <1>1, Invariance, PTL

\* A radio slot that openers wait for always has one thread that will publish or
\* free it, also while a close out of a scan callback is pending.
THEOREM PendingSlotsHaveOwners == Spec => []PendingHasOwner
<1>1. ASSUME IInv PROVE PendingHasOwner
  <2>1. \A t, u \in Owners : t = u
    BY <1>1 DEF IInv, OwnerInv
  <2>2. Cardinality(Owners) = IF Owners = {} THEN 0 ELSE 1
    BY <2>1, AtMostOne
  <2> QED
    BY <1>1, <2>2 DEF IInv, SlotInv, PendingHasOwner, Owners
<1> QED
  BY <1>1, Invariance, PTL

\* No op that alp_handle_op_enter() lets in, however its count and its check fall
\* between the steps of closes and opens, runs on a controller that ops->close()
\* has taken down, if the application joins its late callers before it reopens.
THEOREM NoOpsOnADeadRadio ==
  ASSUME JoinBeforeReopen
  PROVE  Spec => []NoOpOnDeadRadio
<1>1. ASSUME IInv, OpsInv PROVE NoOpOnDeadRadio
  <2>1. Admitted # {} => alive
    BY <1>1 DEF IInv, OpsInv, QuietInv, TypeOK, SlotInv, OwnerInv, Owners, Opening, Closing
  <2> QED
    BY <2>1 DEF NoOpOnDeadRadio, Admitted, OpPc
<1>2. IInv /\ OpsInv => NoOpOnDeadRadio
  BY <1>1
<1> QED
  BY <1>2, OpsInvariance, PTL
=============================================================================
