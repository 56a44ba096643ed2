------------------------------ MODULE BleRadio ------------------------------
(***************************************************************************)
(* The dispatcher of <alp/ble.h> (src/ble_dispatch.c): one radio, shared   *)
(* by reference count, and a pool of connections that point back at it.    *)
(* open() joins the radio or brings it up; the close() that drops the last *)
(* reference drains the ops, disconnects what is left and takes the        *)
(* controller down, unless it is made from inside a scan callback: then it *)
(* is deferred to the scan_start() the callback runs in.                   *)
(*                                                                         *)
(* alp_handle_op_enter() counts in one step and checks in the next, on the *)
(* radio and on a connection, and a slot is claimed and cleared in two: a  *)
(* handle is a raw pointer, so a late caller may meet the slot's next use. *)
(* A counter erased under a late caller goes below 0, where the code's     *)
(* wraps; neither is 0, and nothing else is asked of it.                   *)
(***************************************************************************)
EXTENDS Integers, FiniteSets

CONSTANTS
  Threads, NoThread,
  Scanners,   \* the threads that may run alp_ble_scan_start()
  MaxConns,   \* CONFIG_ALP_SDK_MAX_BLE_CONN_HANDLES
  MaxRefs,    \* bound on the references taken
  JoinBeforeReopen,  \* no call that lost to a close overlaps the slot's reuse
  CallsWhileClosing  \* the application keeps calling a handle it is closing

ASSUME BleAssumption ==
  /\ IsFiniteSet(Threads) /\ Scanners \subseteq Threads /\ NoThread \notin Threads
  /\ MaxConns \in Nat \ {0} /\ MaxRefs \in Nat \ {0}
  /\ JoinBeforeReopen \in BOOLEAN /\ CallsWhileClosing \in BOOLEAN

Conns == 1..MaxConns

VARIABLES
  in_use, lifecycle, refcount, active_ops, \* the radio slot
  marker,        \* cb_active and cb_thread: the thread inside the callback op
  close_pending,
  conn,          \* the connection slots
  alive,         \* the backend's controller is up
  pc, at,        \* per thread: its next step and the connection it works on
  want,          \* per thread: the op it is entering
  closer         \* per thread: it disconnects on behalf of alp_ble_close()

slot == <<in_use, lifecycle, refcount, active_ops, marker, close_pending>>
vars == <<slot, conn, alive, pc, at, want, closer>>

FreeConn == [in_use |-> FALSE, lifecycle |-> "UNOPENED", active_ops |-> 0]

Init ==
  /\ in_use = FALSE /\ lifecycle = "UNOPENED" /\ refcount = 0 /\ active_ops = 0
  /\ marker = NoThread /\ close_pending = FALSE
  /\ conn = [c \in Conns |-> FreeConn]
  /\ alive = FALSE
  /\ pc = [t \in Threads |-> "idle"]
  /\ at = [t \in Threads |-> 1]
  /\ want = [t \in Threads |-> "none"]
  /\ closer = [t \in Threads |-> FALSE]

Goto(t, l) == pc' = [pc EXCEPT ![t] = l]
Move(t, from, to) == pc[t] = from /\ Goto(t, to)

\* Back to the application: out of the SDK, or into the callback it came from.
Return(t) == Goto(t, IF marker = t THEN "callback" ELSE "idle")

-----------------------------------------------------------------------------
(* alp_ble_open()                                                          *)

StartOpen(t) ==
  /\ Move(t, "idle", "scan")
  /\ UNCHANGED <<slot, conn, alive, at, want, closer>>

\* One pass of the scan: join a radio with references, allocate when there is
\* no radio, else (the slot is coming up or going down) sleep and look again.
Scan(t) ==
  /\ pc[t] = "scan"
  /\ \/ /\ in_use /\ refcount \in 1..(MaxRefs - 1)
        /\ refcount' = refcount + 1 /\ Goto(t, "idle")
     \/ ~in_use /\ Goto(t, "alloc") /\ UNCHANGED refcount
  /\ UNCHANGED <<in_use, lifecycle, active_ops, marker, close_pending, conn, alive, at, want, closer>>

\* A thread that has still to count, check or back out, on the radio or on c.
StragglesOnRadio(t) == pc[t] \in {"enter", "check", "back_out"}
StragglesOn(t, c) ==
  /\ at[t] = c
  /\ \/ pc[t] \in {"conn_add", "conn_chk", "conn_back", "conn_cas"}
     \/ pc[t] \in {"enter", "check"} /\ want[t] = "notify"

\* _alloc_radio(): claim the slot; the loser of a race gets NOMEM ...
ClaimRadio(t) ==
  /\ pc[t] = "alloc"
  /\ \/ in_use /\ Goto(t, "idle") /\ UNCHANGED in_use
     \/ /\ ~in_use /\ (JoinBeforeReopen => \A u \in Threads : ~StragglesOnRadio(u))
        /\ in_use' = TRUE /\ Goto(t, "zero")
  /\ UNCHANGED <<lifecycle, refcount, active_ops, marker, close_pending, conn, alive, at, want, closer>>

\* ... and the winner clears every field before in_use.
ZeroRadio(t) ==
  /\ Move(t, "zero", "up")
  /\ lifecycle' = "UNOPENED" /\ refcount' = 0 /\ active_ops' = 0
  /\ marker' = NoThread /\ close_pending' = FALSE
  /\ UNCHANGED <<in_use, conn, alive, at, want, closer>>

\* ops->open() brings the controller up, or fails.
BackendOpen(t) ==
  /\ pc[t] = "up"
  /\ \/ alive' = TRUE /\ Goto(t, "publish") /\ UNCHANGED slot
     \/ /\ in_use' = FALSE /\ Goto(t, "idle")
        /\ UNCHANGED <<lifecycle, refcount, active_ops, marker, close_pending, alive>>
  /\ UNCHANGED <<conn, at, want, closer>>

\* Mutant: the reference is published before the lifecycle.
PublishRefFirst(t) ==
  /\ Move(t, "publish", "first_ref")
  /\ refcount' = 1
  /\ UNCHANGED <<in_use, lifecycle, active_ops, marker, close_pending, conn, alive, at, want, closer>>

\* The handle is OPEN before anyone can join it ...
Publish(t) ==
  /\ Move(t, "publish", "first_ref")
  /\ lifecycle' = "OPEN"
  /\ UNCHANGED <<in_use, refcount, active_ops, marker, close_pending, conn, alive, at, want, closer>>

\* ... which the first reference allows.
FirstReference(t) ==
  /\ Move(t, "first_ref", "idle")
  /\ refcount' = 1
  /\ UNCHANGED <<in_use, lifecycle, active_ops, marker, close_pending, conn, alive, at, want, closer>>

-----------------------------------------------------------------------------
(* alp_ble_close() and the close deferred out of a callback.               *)

\* Mutant: the count is decremented without looking at it.
StartCloseUnchecked(t) ==
  /\ pc[t] = "idle" \/ (pc[t] = "callback" /\ marker = t)
  /\ refcount' = refcount - 1
  /\ IF refcount = 1 THEN Goto(t, "elect") ELSE UNCHANGED pc
  /\ UNCHANGED <<in_use, lifecycle, active_ops, marker, close_pending, conn, alive, at, want, closer>>

\* _radio_try_leave(): drop a reference; only the last one goes on.  A scan
\* callback may close too, if its thread owns the marker: the callback of a
\* second, concurrent scan would wait for its own op for ever.
StartClose(t) ==
  /\ pc[t] = "idle" \/ (pc[t] = "callback" /\ marker = t)
  /\ refcount > 0
  /\ refcount' = refcount - 1
  /\ IF refcount = 1 THEN Goto(t, "elect") ELSE UNCHANGED pc
  /\ UNCHANGED <<in_use, lifecycle, active_ops, marker, close_pending, conn, alive, at, want, closer>>

\* Mutant: a close from inside the callback drains like any other.
ElectNeverDefers(t) ==
  /\ pc[t] = "elect"
  /\ IF lifecycle = "OPEN"
       THEN lifecycle' = "CLOSING" /\ Goto(t, "drain") /\ UNCHANGED close_pending
       ELSE Return(t) /\ UNCHANGED <<lifecycle, close_pending>>
  /\ UNCHANGED <<in_use, refcount, active_ops, marker, conn, alive, at, want, closer>>

\* alp_handle_begin_close_selfaware(): win the close, or return.
Elect(t) ==
  /\ pc[t] = "elect"
  /\ IF lifecycle = "OPEN"
       THEN /\ lifecycle' = "CLOSING"
            /\ IF marker = t
                 THEN close_pending' = TRUE /\ Return(t)
                 ELSE Goto(t, "drain") /\ UNCHANGED close_pending
       ELSE Return(t) /\ UNCHANGED <<lifecycle, close_pending>>
  /\ UNCHANGED <<in_use, refcount, active_ops, marker, conn, alive, at, want, closer>>

\* Mutant: the ops on the radio are not waited for.
DrainSkipped(t) ==
  /\ Move(t, "drain", "walk")
  /\ at' = [at EXCEPT ![t] = 1]
  /\ closer' = [closer EXCEPT ![t] = TRUE]
  /\ UNCHANGED <<slot, conn, alive, want>>

Drain(t) ==
  /\ active_ops = 0
  /\ Move(t, "drain", "walk")
  /\ at' = [at EXCEPT ![t] = 1]
  /\ closer' = [closer EXCEPT ![t] = TRUE]
  /\ UNCHANGED <<slot, conn, alive, want>>

NextConn(t) ==
  IF at[t] = MaxConns THEN Goto(t, "down") /\ UNCHANGED at
  ELSE Goto(t, "walk") /\ at' = [at EXCEPT ![t] = @ + 1]

\* _disconnect_radio_conns(): alp_ble_disconnect() on each connection in use.
Walk(t) ==
  /\ pc[t] = "walk"
  /\ IF conn[at[t]].in_use THEN Goto(t, "conn_cas") /\ UNCHANGED at ELSE NextConn(t)
  /\ UNCHANGED <<slot, conn, alive, want, closer>>

\* ops->close() takes the controller down.
BackendClose(t) ==
  /\ Move(t, "down", "unopen")
  /\ alive' = FALSE
  /\ closer' = [closer EXCEPT ![t] = FALSE]
  /\ UNCHANGED <<slot, conn, at, want>>

Unopen(t) ==
  /\ Move(t, "unopen", "free")
  /\ lifecycle' = "UNOPENED"
  /\ UNCHANGED <<in_use, refcount, active_ops, marker, close_pending, conn, alive, at, want, closer>>

FreeRadio(t) ==
  /\ Move(t, "free", "idle")
  /\ in_use' = FALSE
  /\ UNCHANGED <<lifecycle, refcount, active_ops, marker, close_pending, conn, alive, at, want, closer>>

-----------------------------------------------------------------------------
(* The ops counted on the radio.                                           *)

\* An op is called: it will be counted in, and l is where it goes from there.
\* The application calls only on handles whose close has not yet completed.
CallRadio(t, l) ==
  /\ Move(t, "idle", "enter")
  /\ lifecycle = "OPEN" \/ (CallsWhileClosing /\ lifecycle = "CLOSING")
  /\ want' = [want EXCEPT ![t] = l]
  /\ UNCHANGED <<slot, conn, alive, closer>>

\* alp_handle_op_enter() counts the op ...
CountOp(t) ==
  /\ Move(t, "enter", "check")
  /\ active_ops' = active_ops + 1
  /\ UNCHANGED <<in_use, lifecycle, refcount, marker, close_pending, conn, alive, at, want, closer>>

\* Mutant: the lifecycle is not looked at again after the op is counted.
CheckSkipped(t) ==
  /\ pc[t] = "check"
  /\ IF want[t] = "notify"
       THEN Goto(t, "conn_add") /\ UNCHANGED want
       ELSE Goto(t, want[t]) /\ want' = [want EXCEPT ![t] = "none"]
  /\ UNCHANGED <<slot, conn, alive, at, closer>>

\* ... checks that the handle is open, gatt_notify going on to the connection ...
Check(t) ==
  /\ pc[t] = "check"
  /\ IF lifecycle = "OPEN" /\ want[t] = "notify"
       THEN Goto(t, "conn_add") /\ UNCHANGED want
       ELSE /\ Goto(t, IF lifecycle = "OPEN" THEN want[t] ELSE "back_out")
            /\ want' = [want EXCEPT ![t] = "none"]
  /\ UNCHANGED <<slot, conn, alive, at, closer>>

\* ... or takes the count back.
BackOut(t) ==
  /\ Move(t, "back_out", "idle")
  /\ active_ops' = active_ops - 1
  /\ UNCHANGED <<in_use, lifecycle, refcount, marker, close_pending, conn, alive, at, want, closer>>

\* advertise_start, advertise_stop, gatt_register_service and scan_stop.
StartRadioOp(t) == CallRadio(t, "radio_op") /\ UNCHANGED at

LeaveRadio(t) ==
  /\ Move(t, "radio_op", "idle")
  /\ active_ops' = active_ops - 1
  /\ UNCHANGED <<in_use, lifecycle, refcount, marker, close_pending, conn, alive, at, want, closer>>

StartScan(t) == t \in Scanners /\ CallRadio(t, "cb_enter") /\ UNCHANGED at

\* alp_handle_cb_enter(): the first thread in owns the marker.
CbEnter(t) ==
  /\ Move(t, "cb_enter", "callback")
  /\ marker' = IF marker = NoThread THEN t ELSE marker
  /\ UNCHANGED <<in_use, lifecycle, refcount, active_ops, close_pending, conn, alive, at, want, closer>>

\* The scan returns; the marker is given back.
CbLeave(t) ==
  /\ Move(t, "callback", "scanned")
  /\ marker' = IF marker = t THEN NoThread ELSE marker
  /\ UNCHANGED <<in_use, lifecycle, refcount, active_ops, close_pending, conn, alive, at, want, closer>>

\* Mutant: nobody looks for a deferred close.
DeferredCloseIgnored(t) ==
  /\ Move(t, "scanned", "radio_op")
  /\ UNCHANGED <<slot, conn, alive, at, want, closer>>

\* A deferred close is taken over before the op leaves ...
TakeDeferredClose(t) ==
  /\ pc[t] = "scanned"
  /\ close_pending' = FALSE
  /\ Goto(t, IF close_pending THEN "self_leave" ELSE "radio_op")
  /\ UNCHANGED <<in_use, lifecycle, refcount, active_ops, marker, conn, alive, at, want, closer>>

\* ... and carried out after.
LeaveSelfClosed(t) ==
  /\ Move(t, "self_leave", "drain")
  /\ active_ops' = active_ops - 1
  /\ UNCHANGED <<in_use, lifecycle, refcount, marker, close_pending, conn, alive, at, want, closer>>

\* alp_ble_connect() claims a connection slot, or returns NOMEM ...
StartConnect(t) == CallRadio(t, "conn_alloc") /\ UNCHANGED at

ClaimConn(t) ==
  /\ pc[t] = "conn_alloc"
  /\ IF \A c \in Conns : conn[c].in_use
       THEN Goto(t, "radio_op") /\ UNCHANGED <<conn, at>>
       ELSE LET c == CHOOSE i \in Conns :
                       ~conn[i].in_use /\ \A j \in 1..(i - 1) : conn[j].in_use
            IN  /\ JoinBeforeReopen => \A u \in Threads : ~StragglesOn(u, c)
                /\ conn' = [conn EXCEPT ![c].in_use = TRUE]
                /\ at' = [at EXCEPT ![t] = c]
                /\ Goto(t, "conn_zero")
  /\ UNCHANGED <<slot, alive, want, closer>>

\* ... and clears it.
ZeroConn(t) ==
  /\ Move(t, "conn_zero", "link")
  /\ conn' = [conn EXCEPT ![at[t]] = [FreeConn EXCEPT !.in_use = TRUE]]
  /\ UNCHANGED <<slot, alive, at, want, closer>>

\* ops->connect() makes the link and the connection is OPEN, or it is freed.
Link(t) ==
  /\ Move(t, "link", "radio_op")
  /\ \/ conn' = [conn EXCEPT ![at[t]].lifecycle = "OPEN"]
     \/ conn' = [conn EXCEPT ![at[t]].in_use = FALSE]
  /\ UNCHANGED <<slot, alive, at, want, closer>>

-----------------------------------------------------------------------------
(* The ops counted on a connection.                                        *)

\* Connection handles are called like the radio's, until their close completes.
OnConn(t, c) ==
  /\ conn[c].lifecycle = "OPEN" \/ (CallsWhileClosing /\ conn[c].lifecycle = "CLOSING")
  /\ at' = [at EXCEPT ![t] = c]

CallConn(t, c, l) ==
  /\ Move(t, "idle", l)
  /\ OnConn(t, c)
  /\ UNCHANGED <<slot, conn, alive, closer>>

\* gatt_read and gatt_write count on the connection; gatt_notify on the radio
\* first, then on the connection.
StartGatt(t, c) == CallConn(t, c, "conn_add") /\ want' = [want EXCEPT ![t] = "gatt"]
StartNotify(t, c) == CallRadio(t, "notify") /\ OnConn(t, c)

CountConnOp(t) ==
  /\ Move(t, "conn_add", "conn_chk")
  /\ conn' = [conn EXCEPT ![at[t]].active_ops = @ + 1]
  /\ UNCHANGED <<slot, alive, at, want, closer>>

CheckConn(t) ==
  /\ pc[t] = "conn_chk"
  /\ IF conn[at[t]].lifecycle = "OPEN"
       THEN Goto(t, want[t]) /\ want' = [want EXCEPT ![t] = "none"]
       ELSE Goto(t, "conn_back") /\ UNCHANGED want
  /\ UNCHANGED <<slot, conn, alive, at, closer>>

BackOutConn(t) ==
  /\ Move(t, "conn_back", IF want[t] = "notify" THEN "radio_op" ELSE "idle")
  /\ conn' = [conn EXCEPT ![at[t]].active_ops = @ - 1]
  /\ want' = [want EXCEPT ![t] = "none"]
  /\ UNCHANGED <<slot, alive, at, closer>>

LeaveGatt(t) ==
  /\ Move(t, "gatt", "idle")
  /\ conn' = [conn EXCEPT ![at[t]].active_ops = @ - 1]
  /\ UNCHANGED <<slot, alive, at, want, closer>>

LeaveNotify(t) ==
  /\ Move(t, "notify", "radio_op")
  /\ conn' = [conn EXCEPT ![at[t]].active_ops = @ - 1]
  /\ UNCHANGED <<slot, alive, at, want, closer>>

\* alp_ble_disconnect(), called by the application or for it by close().
StartDisconnect(t, c) == CallConn(t, c, "conn_cas") /\ UNCHANGED want

\* The walk of close() goes on; an application's call returns.
Disconnected(t) == IF closer[t] THEN NextConn(t) ELSE Goto(t, "idle") /\ UNCHANGED at

\* One thread wins the connection's close; the others return NOT_READY, and
\* close() passes over a connection that someone else is disconnecting.
DisconnectElect(t) ==
  /\ pc[t] = "conn_cas"
  /\ IF conn[at[t]].lifecycle = "OPEN"
       THEN /\ conn' = [conn EXCEPT ![at[t]].lifecycle = "CLOSING"]
            /\ Goto(t, "conn_drain") /\ UNCHANGED at
       ELSE Disconnected(t) /\ UNCHANGED conn
  /\ UNCHANGED <<slot, alive, want, closer>>

ConnDrain(t) ==
  /\ conn[at[t]].active_ops = 0
  /\ Move(t, "conn_drain", "unlink")
  /\ UNCHANGED <<slot, conn, alive, at, want, closer>>

\* ops->disconnect(), then the lifecycle is reset ...
Unlink(t) ==
  /\ Move(t, "unlink", "conn_free")
  /\ conn' = [conn EXCEPT ![at[t]].lifecycle = "UNOPENED"]
  /\ UNCHANGED <<slot, alive, at, want, closer>>

\* ... and the slot is free.
FreeConnSlot(t) ==
  /\ pc[t] = "conn_free"
  /\ conn' = [conn EXCEPT ![at[t]].in_use = FALSE]
  /\ Disconnected(t)
  /\ UNCHANGED <<slot, alive, want, closer>>

-----------------------------------------------------------------------------
Call(t) ==
  \/ StartOpen(t) \/ StartClose(t) \/ StartRadioOp(t) \/ StartScan(t) \/ StartConnect(t)
  \/ \E c \in Conns : StartGatt(t, c) \/ StartNotify(t, c) \/ StartDisconnect(t, c)

Step(t) ==
  \/ Scan(t) \/ ClaimRadio(t) \/ ZeroRadio(t) \/ BackendOpen(t) \/ Publish(t)
  \/ FirstReference(t) \/ Elect(t) \/ Drain(t) \/ Walk(t) \/ BackendClose(t) \/ Unopen(t)
  \/ FreeRadio(t) \/ CountOp(t) \/ Check(t) \/ BackOut(t) \/ LeaveRadio(t) \/ CbEnter(t)
  \/ CbLeave(t) \/ TakeDeferredClose(t) \/ LeaveSelfClosed(t) \/ ClaimConn(t) \/ ZeroConn(t)
  \/ Link(t) \/ CountConnOp(t) \/ CheckConn(t) \/ BackOutConn(t) \/ LeaveGatt(t)
  \/ LeaveNotify(t) \/ DisconnectElect(t) \/ ConnDrain(t) \/ Unlink(t) \/ FreeConnSlot(t)

Next == \E t \in Threads : Call(t) \/ Step(t)

Spec == Init /\ [][Next]_vars

\* Threads inside the dispatcher go on and backend ops and callbacks return.
FairSpec == Spec /\ \A t \in Threads : WF_vars(Step(t))

-----------------------------------------------------------------------------
Opening == {"zero", "up", "publish", "first_ref"}
Closing == {"elect", "self_leave", "drain", "walk", "down", "unopen", "free"}

TypeOK ==
  /\ in_use \in BOOLEAN /\ alive \in BOOLEAN /\ close_pending \in BOOLEAN
  /\ lifecycle \in {"UNOPENED", "OPEN", "CLOSING"}
  /\ refcount \in 0..MaxRefs /\ active_ops \in Int
  /\ marker \in Threads \cup {NoThread}
  /\ conn \in [Conns -> [in_use : BOOLEAN, lifecycle : {"UNOPENED", "OPEN", "CLOSING"},
                         active_ops : Int]]
  /\ at \in [Threads -> Conns] /\ closer \in [Threads -> BOOLEAN]
  /\ want \in [Threads -> {"none", "radio_op", "cb_enter", "conn_alloc", "gatt", "notify"}]

\* "refcount > 0 always implies the handle is fully populated AND OPEN": no
\* thread joins a radio that is coming up or going down.
ReferenceMeansOpen == refcount > 0 => in_use /\ lifecycle = "OPEN" /\ alive

\* A slot that is claimed but cannot be joined, which makes every opener wait,
\* has exactly one thread that will publish or free it: the opener or the
\* closer, or, while a close out of a scan callback is pending and nobody has
\* taken it yet, some scan_start() that has still to return.
PendingHasOwner ==
  LET owners == {t \in Threads : pc[t] \in Opening \cup Closing \/ closer[t]}
  IN  (in_use /\ refcount = 0) =>
        IF close_pending
          THEN owners = {} /\ \E t \in Threads : pc[t] \in {"callback", "scanned"}
          ELSE Cardinality(owners) = 1

\* No op counted on the radio runs while the controller is down: a late caller
\* is turned away, wherever close() and the next open() find it.
NoOpOnDeadRadio ==
  \A t \in Threads :
    pc[t] \in {"radio_op", "cb_enter", "callback", "conn_alloc", "link", "notify"} => alive

\* "tear down every surviving connection on radio `h` BEFORE the controller goes
\* away ... because the backend disconnect needs a live controller" (the comment
\* on _disconnect_radio_conns()).
ConnectionsTornDownFirst == \A c \in Conns : conn[c].lifecycle # "UNOPENED" => alive

\* A radio that is being closed is freed, also when a callback has closed it.
ClosingRadioIsFreed == (lifecycle = "CLOSING") ~> ~in_use
=============================================================================
