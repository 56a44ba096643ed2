# A verification of the alp-sdk core

alp-sdk is a C SDK whose public API (`include/alp/*.h`) is served by one
*dispatcher* per class (`src/*_dispatch.c`).  A dispatcher keeps a static pool
of handles, elects a *backend* from a linker section of registered rows, and
puts a lock-free guard between the application's threads and the backend's
state.  Two classes carry real protocols of their own: the **update log** (an
append-only, hash-chained audit log that must survive power loss at any write,
on one core or shared between two) and **RPC** (synchronous calls,
subscriptions and link supervision over a message endpoint with its own receive
thread).  **BLE** shares one radio by reference count, and the driver of the
**CC3501E** coprocessor updates that device's firmware over a link that loses
frames.  These parts hold the concurrency, crash and ordering logic of the SDK,
and they are what this project models; the register-level chip drivers,
examples, ports and generated tables around them are not.

Paths below are relative to the repository root.

## 1. Inventory

| Component | State | Operations | Interacts with | What makes it correct |
|---|---|---|---|---|
| Handle guard `src/common/alp_slot_claim.{h,c}` | per slot: `in_use`, `lifecycle`, `active_ops`, `cb_active`, `cb_thread`, `close_pending` | try_claim, op_enter/leave, begin_close (blocking, self-aware), drain, cb_enter/leave, take_deferred_close | every dispatcher embeds it | no op on torn-down state; exact count; one teardown; close ends; no deadlock on a self-close |
| MQTT dispatcher `src/mqtt_dispatch.c` | pool of handles | open, connect, publish, subscribe, loop (runs callbacks), close | handle guard; backend vtable; callbacks re-enter `close` | as above, with `loop()` consuming the deferred close |
| Backend registry `src/backend.c` | none (a link-time section) | select, select_next | all dispatchers | a total, link-order independent ranking; the walk descends and misses nothing |
| Update-log dispatcher `src/update_log_dispatch.c` | singleton `g_log` (lifecycle, ops, assurance) | open (election, ranked walk), five guarded ops, close | registry, handle guard, tiers | one initializer; best ready tier; no fall-through on a fault; hardware requirement kept |
| Update-log engine `src/update_log/engine.c` | entries, meta cache, monotonic counter, anchor floor; `g_engine_lock` | append, verify, count, get, recovery, anchor sync | store/counter/anchor seams of a tier | acknowledged means durable; no false alarm; no wedge; tampering stays visible |
| RPC dispatcher `src/rpc_dispatch.c` | per channel: `chan_word` (lifecycle and count in one word), link state, link callback | open, subscribe, unsubscribe, send, call, close, deferred finalize, notify_link | backend; worker calls back into it | freed once, after the last user; LOST is final |
| RPC chardev backend `src/backends/rpc/yocto_drv.c` | `struct rpc_be`: call slot, poison flag, tx/call/sub mutexes, wake pipe, worker thread | open, ops, shutdown, destroy, `rpc_rx_main` | peer over an endpoint; dispatcher | replies reach their own call; close cancels and completes |
| Update-log mailbox `src/backends/update_log/aen_m55_owner.c` | request and reply slots in retained SRAM; each core's last sequence number | client call with timeout, owner service loop, reset of either core | the log on the owner core | a request runs at most once; a reply is its own call's; what a call is told is true; a call returns |
| BLE dispatcher `src/ble_dispatch.c` | reference-counted radio slot, pool of connections that point at it | open (join or bring up), close, connect, disconnect, scan with callbacks, GATT ops | handle guard; backend vtable; callbacks re-enter `close` | no join of a radio coming up or going down; no op or connection outlives the controller; close ends |
| CC3501E firmware update `chips/cc3501e/cc3501e_ota.c` | `g_peer_polled`, the open session, the stream's offset and stall count | update mode, begin, write, finish, promote, abort, update; hard, cold and soft reset, recover | device over a lossy link; recovery by nRESET | stream and device slot agree; a failed update backs out; success means a swap; calls return |
| RPC UIO and Zephyr backends | as chardev with other transports | same vtable | RPC dispatcher | same contract (planned) |
| Update-log tiers `sw_tier.c`, `tfm_psa.c` | store, counter | put, get, increment | engine | write-once, atomic single writes (assumed) |
| CAN, I2C, SPI, mproc dispatchers | handle pools | as MQTT with variants | handle guard | variants of the guard (planned in part) |
| CC3501E byte-level resync, sockets, events; GD32G553 bridge | link sequence, ring buffers | request/reply, retry ladder | bus | retry and reboot safety (planned) |
| Remaining dispatchers, chip drivers, DSP/AHRS/PID, model loader, ports, tools | little or none | register I/O, numerics, parsing | -- | not modelled, section 8 |

The hard behaviours, each listed with its line under `hazards` in
`PROJECT.json`:

* *Interleaving*: op against close, close against close, open against the late
  calls of the previous occupant, external close against a self-close from a
  callback, unsubscribe against a running callback.
* *Crash and partial failure*: power loss between the four durable writes of an
  append, again during recovery; a write that takes effect and reports failure;
  one core of two resetting over a retained mailbox, inside a call too; an update that fails at any
  of its steps and leaves the device in a boot without radio.
* *Timeouts and lost messages*: a reply after its call gave up; a deadline that
  cannot be computed; a chunk whose reply was lost and may or may not be in.
* *Everyone waiting*: a callback closing the handle whose op runs it; close
  joining the worker that is inside the callback; calls without a timeout.
* *Ordering*: the UP report against the worker's first LOST; anchor against
  counter; equal-ranked rows against link order.

## 2. Modules

| Module | Models | Granularity of a step |
|---|---|---|
| `HandleGuard` | `alp_slot_claim.h/.c` as `mqtt_dispatch.c` uses them | one atomic access (compare-exchange, fetch-add, load, store) or one backend call |
| `AuditLog` | nothing of the code: what the update log promises | one change a caller can tell |
| `UpdateLog` | `update_log/engine.c`; implements `AuditLog` | one durable write with the reads before it under the lock |
| `BackendRank` | the ranking and the scan of `backend.c` | pure operators |
| `UpdateLogOpen` | `update_log_dispatch.c`; extends `BackendRank` | one atomic access, one row of the walk |
| `UpdateMailbox` | `aen_m55_owner.c`; composes client and owner with `AuditLog` | one word or payload of the mailbox, one step of the log |
| `BleRadio` | `ble_dispatch.c` | one atomic access or one backend call, as in `HandleGuard` |
| `RpcChannel` | `rpc_dispatch.c` composed with `yocto_drv.c` | one mutex section, one change of `chan_word`, one system call |
| `Cc3501eOta` | `cc3501e_ota.c` composed with the device | one frame and its reply, one poll |
| `MC*` | instances for TLC: symmetry sets, views, linked sections | |
| `*Proofs` | -- | theorems about the module they are named after (`UpdateLogOpenProofs` about `BackendRank` too) |
| `CountingFacts` | -- | lemmas they share: finite sets that gain or lose one element, least natural numbers |

Names follow the source.  `map` in `PROJECT.json` gives, for every definition,
the lines it stands for.  Definitions whose comment begins with "Mutant:" are
not part of any specification: each is a plausible mistake in one of the mapped
definitions, and every property has been seen to fail when the definition is
replaced by its mutant.

How they fit: `UpdateLogOpen` elects the tier whose engine `UpdateLog` models;
`UpdateLog` implements `AuditLog`; `UpdateMailbox` puts the two-core protocol in
front of that abstract log, so what it shows rests on the refinement and not on
the details of the engine.  `BleRadio` uses the guard of `HandleGuard` twice, on
the radio and on each connection, at the same granularity.

### HandleGuard

`in_use`, `lifecycle`, `active_ops`, `cb_active`, `cb_thread` and
`close_pending` are the fields of `struct alp_mqtt`; `backend` says whether the
backend state behind the handle is live.  `pc`, `at`, `tgt`, `in_cb`,
`cb_owner` and `self_closed` are a thread's position and the locals of
`alp_mqtt_loop()`.  A handle is a raw pointer: `at` and `tgt` are slot numbers
and nothing distinguishes two occupants of a slot, exactly as in C.  `active_ops`
wraps modulo `CounterMod`.  The `memset` of `_alloc_mqtt()` is one step.  A
thread in `LoopThreads` enters ops through `alp_mqtt_loop()`, the others
through connect/publish/subscribe, which share one shape.

Three constants say what the application does:

* `JoinBeforeReopen`: a call that is still on its way into a handle that was
  closed does not overlap the next open of that slot.  This is what an
  application must ensure for raw-pointer handles (section 4 says what happens
  otherwise).
* `CrossClose`: callbacks also close handles other than their own.
* `CallsWhileClosing`: new calls keep arriving on a handle that is closing.

### AuditLog and UpdateLog

`AuditLog` is a list that grows at its end.  At most one entry is in doubt,
durable but not counted, which is what an interrupted append leaves; it is
settled before the log answers about its length or integrity and before it
takes another entry.  A call may always fail.

In `UpdateLog`, `entry`, `meta`, `counter` and `floor` are durable; everything
else is lost by `Crash`.  `acked` and `tampered` are history variables no action
of the engine reads.  A hash is the tuple of what was hashed, so equal hashes
mean equal contents.  Each write either succeeds, fails without effect
(`AccessFails`), or takes effect and still reports an error (the second disjunct
of `Continue`); a single write is atomic against power loss, as `engine.c`
states of the NVS and PSA layers.  `HasAnchor` selects the tier, and
`writeOnce`, chosen once in `Init`, says whether its store refuses to overwrite
an entry: on one that does not, only the engine keeps the log append-only.
`MaxSeq` is `ULOG_SEQ_MAX`; the model keeps its boundary behaviour (the last
append succeeds, the next is refused with `ALP_ERR_NOMEM`).

The refinement maps `log` to the payloads of the stored entries (`Contents`),
`settled` to the counter, and `answer` to what the returning call was told
(`Told`).  Writing the entry is `Commit`, incrementing the counter is `Settle`,
whether append or recovery does it; all else, the crash included, is `Answer`
or a stutter.

`TamperSpec` adds one offline change of the persisted image -- a committed
entry altered, made undecodable or deleted, the cached head hash altered, or
store and counter taken back together below the anchor; the properties that
assume an honest image are stated for states before it.  `RegressSpec` adds a
counter that goes back by two or more on its own.

### BackendRank and UpdateLogOpen

`candidate_beats_best` and `select_in_range` keep their C names.  Vendors are
numbered in `strcmp` order, `NullVendor` is a NULL pointer.

`lifecycle`, `active_ops`, `ops` and `assurance` are the fields of `g_log`.
`section` (what was linked, and in which order) and `RequireHw` (the build
option) are chosen once in `Init`.  `TryRow` is one iteration of
`_elect_backend()` for each answer `ready()` may give.  The guarded ops share
one shape.  Calls may come at any time, also on a handle that was never opened
or is closed: the handle is a static singleton.

### UpdateMailbox

`reqSeq`, `req`, `rspSeq`, `rsp` are the two slots in SRAM0, `ready` and
`clientSeq` the client's statics, `lastSeq` and `logOpen` the owner's locals.  A
call stands for the entry it carries.  Op, entry and number are written by
separate steps, in the code's order, and the owner reads op and entry in place
when it executes, not when it picks the request up, as the code does.  The
deadline of a call may pass at any time, whatever the owner is doing
(`Timeout`), and the next call overwrites the request; an append that reads the
entry while the client copies another over it may store neither (`Blank`).
Either core may reset at any step; SRAM and the log stay.

Three history variables, which no step of either core reads, say what went on:
`serving` and the `for` field of a reply name the call whose request was
executed; `torn` records that the client overwrote a request the owner had still
to read; `misseeded` that it took its first number after a restart from a reply
slot that was behind a request still on its way.

### BleRadio

`in_use`, `lifecycle`, `refcount`, `active_ops`, `close_pending` are the radio
slot and `marker` its `cb_active` and `cb_thread`; `conn` is the pool of
connections; `alive` says whether the backend's controller is up.  `closer`
marks a thread that disconnects on behalf of `alp_ble_close()`, `want` is the op a
thread is entering.  Entering counts in one step and checks in the next, and a
slot is claimed and cleared in two, so a late caller can meet the `memset` of
the slot's next use; `JoinBeforeReopen` and `CallsWhileClosing` are those of
`HandleGuard`.  A scan callback
may close the radio if its thread owns the marker; the callback of a second,
concurrent scan would wait for its own op for ever, as with the guard.

### RpcChannel

`h` is `struct alp_rpc_channel`, `ch` is `struct rpc_be`, `rx` is the worker's
position in `rpc_rx_main()`, `frame` the frame it has read, `owed` the requests
the peer has and has not answered.  A call is named by the request it wrote;
the wire carries only a method name, so `Route` gives a reply to whichever call
is pending, as the code does.  One method name for calls and one for events is
the worst case for mix-ups: different names can only separate them.  The peer
may answer late, never, or vanish (`RxFails`).  `ClockFails` says whether
computing a deadline may fail.  Closing a channel does not make the peer forget:
a channel opened again under its name has the same endpoint address, and what the
peer still owes reaches it.  `astray` is history: the calls whose reply nothing
keeps from a later call.

### Cc3501eOta

`peer_polled` and `ota_session_active` are the driver's statics, `image`, `off`,
`stall`, `waited`, `want` and `s` locals of the functions `pc` and `call` name.
`dev` is the device, an external component taken from what the driver and its
header say of it: each `Serve*` operator gives the answers a command may get.
`Exchange` loses the frame, or the reply of an executed frame, or neither.  The
device reboots, erases, flushes and fails by itself (`DeviceJob`).  An image is a sequence of chunks, one frame each; a budget in
milliseconds is a number of polls.  `ChunkSpec` adds an application that
drives single `cc3501e_ota_write()` calls.  `HasResetPin` says whether the board
wires nRESET, the driver's last means when the device no longer answers.

The entry points are the update, the console's begin and abort, single calls of
begin, promote and update mode, and the resets an application may make
(`HardReset`, `ColdReset`, `SoftReset`, `Recover`), none of which touches
`g_peer_polled`; `cc3501e_power_off()` is taken together with the
`cc3501e_reset()` that ends it.  `rebooted` is history: such a reset, or a promote
outside an update, has rebooted the device since the host last learnt its mode.

## 3. Runs

| Run | Question | Distinct states |
|---|---|---|
| `guard` | Can an op outlive the backend state, or a close have two owners or none?  Is every closing slot freed, also when a callback closes it? | 346 020 |
| `log` | What can crashes and failing accesses at every write, and one offline change, do to the log?  Does the engine implement the abstract log? | 146 466 |
| `log_regress` | (violation) Is a regressed counter always visible? | finding 1 |
| `log_open` | Three threads opening, using and closing the singleton over every small section: one initializer, the best ready tier, whatever the link order? | 763 872 |
| `mailbox` | With resets and deadlines at any step, when can a request be replayed or damaged, or a stale reply taken?  Is what a call is told true? | 923 562 |
| `mailbox_restart` | (violation) Is a restart of the client always safe? | finding 4 |
| `ble` | Can anybody join or use a radio that is coming up or going down?  Does every close end? | 105 166 |
| `ble_teardown` | (violation) Are all connections gone before the controller is? | finding 5 |
| `rpc` | Can the block be used after it is freed, or be freed twice?  When can a reply reach the wrong call?  Does every close complete and cancel its calls, with a silent peer and unbounded calls? | 480 267 |
| `rpc_unsub` | (violation) Does unsubscribe wait for the running callback? | finding 2 |
| `ota` | Any sequence of update calls and resets over a lossy link: when can the device be wedged, do stream and slot agree, does failure back out, does success mean a swap? | 16 768 |
| `ota_splice` | (violation) Is another image refused on a session in progress? | finding 3 |

**Properties.**  *HandleGuard*: `NoOpAfterTeardown`, `OneTeardownOwner`,
`ClosingSlotIsFreed`.  *UpdateLog*: `AckedIsDurable`, `NoFalseAlarm`, `NoWedge`,
`AnchorLag`, `AppendOnly`, `ImplementsAuditLog`, and under tampering
`VerifiedMeansAppendable`, `EvidenceKept`.  *UpdateLogOpen*: `OpsStable`,
`OneInitializer`, `LinkOrderIndependent`, `BestReadyTier` (which includes that a
faulting tier is not skipped and that a hardware requirement is kept).
*UpdateMailbox*: `LogFollowsCalls`, `ReplyIsMine`, `AnswerIsTrue`,
`CallReturns`.  *BleRadio*: `ReferenceMeansOpen`, `PendingHasOwner`,
`NoOpOnDeadRadio`, `ClosingRadioIsFreed`.  *RpcChannel*:
`NoUseAfterFree`, `OneFinalizer`, `ReplyMatchesCall`, `LostIsFinal`,
`CloseCompletes`, `CallReturnsOnClose`.  *Cc3501eOta*: `WedgedOnlyAfterReset`,
`StreamMatchesSlot`, `FailedUpdateBacksOut`, `SuccessMeansSwap`, `CallReturns`.
Most modules also have a `TypeOK`.  Each is stated in words above its definition.

Four of them describe behaviour that a comment or header rules out and the code
has: `LogFollowsCalls`, `ReplyIsMine`, `ReplyMatchesCall` and
`WedgedOnlyAfterReset` hold with an exception, stated through a history variable,
and so say that there is no other way for it to go wrong.  `RestartSafe` is
`ReplyIsMine` without its exception.  Section 4 describes what the exceptions are.

### Bounds, and why they are enough

* *Guard*: the races need an op, a closer and a third party (a second closer or
  the next opener): three threads.  With two slots an opener finds a free one
  while another is being closed.  `CounterMod = 8` exceeds the number of threads,
  so a count below zero would be seen as a wrap.  One thread runs `loop()` and
  callbacks close their own handle, which is where the guard promises that a close
  ends; with more loops and callbacks that close other handles safety still holds
  (section 5), but not that.
* *Engine*: `MaxSeq = 2` gives three entries, so there is a first entry (zero
  `prev_hash`), an inner one, a last one, and the exhausted state; crashes are
  not bounded.  Two callers suffice for a lock that admits one at a time.  Two
  payloads tell an altered entry from the original.  The view `LiveState` leaves
  out only the locals of a caller outside the engine, which nothing reads.
* *Log dispatcher*: three threads (initializer, waiting opener, closer).  The
  sections are all of up to two rows over two priorities, exact or wildcard
  silicon and two vendors plus NULL; all of three rows of one priority; and every
  ordering of every subset of the rows the repository registers.
  Together they hold every pair and chain of the three-level order.
* *Mailbox*: three calls, so that a call may follow one that was cut off and one
  that was served; two places in the log, so that it fills; a reset of each core
  at any step; numbers up to 7 from 6 at power-on, so that the number wraps within
  the run.
* *BLE*: three threads (joiner, closer, op), of which two scan; three references;
  one connection, which is enough for a disconnect to race the walk and another op
  (with two, 1 236 535 states, the properties hold as well).
* *RPC*: two calls in the life of a slot, across reopens, since a reply can only
  be mistaken for that of an earlier call; two threads, a caller and a closer or a
  second caller, next to the worker.  Reopening is not bounded.
* *OTA*: three chunks (first, inner, last), a stall limit of three, two polls per
  budget, so that a wait can end early, late or not at all; two images.  The
  number of calls is not bounded.

Deadlock is not checked in two passing runs.  In `ble` all threads may wait in
`open` once the bound on references is reached.  In `mailbox` the client stops
after its last call.

### Fairness

* `HandleGuard`: weak fairness of each thread's SDK steps (the drain sleeps
  between polls, so no thread starves another) and strong fairness of the
  return of a backend op (`loop()` has a timeout, however often its callback
  runs meanwhile).  The application is never obliged to call.  The run
  sets `CallsWhileClosing` to FALSE: an application that keeps calling a
  closing handle can keep the polled count above zero for ever.  With several
  `loop()` threads on one handle a self-close from the one that does not own
  the callback marker waits for itself (documented), so one thread loops.
* `BleRadio`: weak fairness of each thread's steps inside the dispatcher;
  backend ops and callbacks return.  `CallsWhileClosing` is FALSE for the reason
  given for the guard.
* `UpdateMailbox`: weak fairness of the client's and of the owner's steps, since both
  cores poll.  Calls, resets and the owner's start are up to others.
* `RpcChannel`: weak fairness of each thread's and each worker's steps.
  Callbacks return.  No fairness is given to the peer, to timeouts or to the
  application: close must complete without them.
* `Cc3501eOta`: weak fairness of the calling thread alone; nothing is asked of
  the device or the link.
* No liveness is claimed for `UpdateLogOpen`: an opener can be overtaken for
  ever by others that open and close.

## 4. Findings

1. `log_regress` -- recovery adopts at most one entry *per call* so as not to
   launder a rollback, but nothing remembers the verdict: with the counter
   regressed by two, the first `verify()` reports ROLLED_BACK and the second
   VERIFY_OK.
2. `rpc_unsub` -- `alp/rpc.h` promises that unsubscribe waits for the running
   callback; the chardev backend returns while it runs.
3. `ota_splice` -- `alp/chips/cc3501e/ota.h` promises that a BEGIN for another
   image on a session in progress is rejected, "because merging it would splice
   the two".  The device rejects it, but `cc3501e_ota_begin()` judges by the
   status alone, sees the WRITING of the old session and returns ALP_OK; with
   one chunk of the old image in the slot the resync takes it for the new
   image's.
4. `mailbox_restart` -- the comment on restart safety in `aen_m55_owner.c` lets
   either core reset alone and says that a restarted client's request "never matches
   the stale RSP".  A client that resets inside a call seeds its number from the
   reply slot, which is behind the request in flight; its next call takes that
   request's number and accepts its reply.
5. `ble_teardown` -- `ble_dispatch.c` says that close tears down every surviving
   connection before `ops->close()`, "because the backend disconnect needs a live
   controller".  A connection that an application thread is already disconnecting
   is passed over, and the controller goes down under that thread.

The passing runs and the theorems delimit three more disagreements; each is an
exception that a property names, and removing the exception makes it fail:

6. `ReplyMatchesCall` -- poisoning does not keep every late reply from a later call.
   A call whose deadline cannot be computed after its request went out
   (`yocto_drv.c:1107`) returns without poisoning, against `alp/rpc.h:574-578`; and
   the poison goes with the block, while a channel opened again has the same
   address.  After a timeout alone no late reply gets through.
7. `WedgedOnlyAfterReset` -- `cc3501e_ota_begin()` refuses when `g_peer_polled` is
   clear, so as not to wedge a device on the normal bridge.  The public resets and
   a promote reboot the device and leave the flag set, and a single begin after
   `update_mode(true)` and one of these wedges it.  The update itself never does.
   `cc3501e_soft_reset()` leaves `ota_session_active` set too, which switches
   automatic recovery off.
8. `LogFollowsCalls` -- Kconfig says that a timeout means an owner that is absent or
   not serving.  It may as well be slow, and a client that calls again overwrites the
   request under it: the owner runs the new request under the old number and again
   under the new one, or appends an entry that is a mixture of two.

**Settings under which a passing property fails.**  Three constants name an
assumption; with the other value the model shows what it is worth.  The theorems
about the safety properties have the same hypotheses (section 5).

* `JoinBeforeReopen = FALSE` breaks `NoOpAfterTeardown` and `OneTeardownOwner` of
  the guard and `NoOpOnDeadRadio` of BLE: a call that adds its count to a closed
  slot just before the `memset` of the next open (`mqtt_dispatch.c:87`,
  `ble_dispatch.c:114`) loses the count, observes the new occupant's OPEN, and is
  not waited for by that occupant's close.
* `CallsWhileClosing = TRUE` breaks `ClosingSlotIsFreed` and
  `ClosingRadioIsFreed`: see fairness.  The safety properties hold.
* `HasResetPin = FALSE` breaks `StreamMatchesSlot`, `FailedUpdateBacksOut` and
  `SuccessMeansSwap`: an update given up on a device that does not answer returns
  with the device still polled, its session open and chunks in its slot, and the
  next update finds them there -- the merge of finding 3, without an application
  that drives single chunks.  `WedgedOnlyAfterReset` and `CallReturns` hold
  (84 660 states).

**Also met**, without a run of their own: the comment "`ulog_sync_anchor()` runs
on EVERY recover (append / verify / count)" in `engine.c` is not what `count()`
does (`AnchorLag` holds all the same, and the proof shows why: `count()` never
appends).  The comment at `cc3501e_ota.c:526-530` says the bail-out is
"Deliberately NOT used on the FINISH path", and lines 802-805 use it there.  Of
two threads that make the first BLE open at once, one may be told NOMEM, although
`alp/ble.h:75-82` promises the singleton.  A `cc3501e_recover()` that has passed
its check (`cc3501e_core.c:208`) before another thread opens an update session resets
the device under that session; `Cc3501eOta` has one thread.

## 5. What is proved

Every safety property that a passing run checks -- all invariants, the action
properties and the refinement -- is also a theorem, checked by TLAPS, for every
value of the constants that meets the hypothesis below: any number of threads,
slots, calls, entries, chunks or polls.  The runs check the properties on small
instances; the inductive invariants were checked by TLC on such instances before
they were proved, and have no run of their own.

| Theorems in | State | Hypothesis |
|---|---|---|
| `UpdateLogProofs` | `TypeOK`, `AckedIsDurable`, `NoFalseAlarm`, `NoWedge`, `AnchorLag`, `AppendOnly`, `ImplementsAuditLog`, `EvidenceKept`, `VerifiedMeansAppendable` | none |
| `UpdateLogOpenProofs` | the ranking and the scan; `TypeOK`, `OpsStable`, `OneInitializer`, `LinkOrderIndependent`, `BestReadyTier` | no two rows are full ties |
| `HandleGuardProofs` | `TypeOK` | none |
| | `NoOpAfterTeardown`, `OneTeardownOwner` | `JoinBeforeReopen` |
| `BleRadioProofs` | `TypeOK`, `ReferenceMeansOpen`, `PendingHasOwner` | none |
| | `NoOpOnDeadRadio` | `JoinBeforeReopen` |
| `RpcChannelProofs` | `NoUseAfterFree`, `OneFinalizer`, `LostIsFinal`, `ReplyMatchesCall` | none |
| `UpdateMailboxProofs` | `TypeOK`, `LogFollowsCalls`, `ReplyIsMine`, `AnswerIsTrue` | none |
| `Cc3501eOtaProofs` | `WedgedOnlyAfterReset` | none |
| | `StreamMatchesSlot`, `FailedUpdateBacksOut`, `SuccessMeansSwap` | `HasResetPin` |

The hypotheses on constants are not restrictions of the proof: with the other value of
the constant the property is false, and TLC shows how (section 4).  Beyond them
the theorems rest on the assumptions the modules declare, which TLC evaluates in
every run: sets of threads are finite, the "no thread", "no caller" and "empty
key" values are none of the real ones, bounds are natural numbers, flags are
Booleans; in particular

* `CounterAssumption` (guard): there are fewer threads than values of the op
  counter, a `uint32_t` in C;
* `SectionsAssumption`, `NoDuplicatesAssumption` (log dispatcher): a section is a
  sequence of rows, and rows that are full ties are equal.  The documentation
  forbids registering such duplicates (`src/backend.c:106-110`);
* `MailboxAssumption`: numbers do not wrap all the way round within the calls
  considered (`SeqMax > MaxCalls`; 2^32 - 1 in C).

Each module has one lemma per action, which shows that the action keeps the
inductive invariant; an inductive step puts them together, and the properties
are corollaries.  What each invariant adds:

**Update log.**  What a caller sees follows from how the four writes of an append
can be torn, which is `IInv`:

* `ChainInv`: the committed entries form a chain, followed by at most one more
  entry, the orphan of an interrupted append, which chains too; nothing beyond.
* `MetaInv`: the meta cache describes the committed chain or the chain with the
  orphan, never anything else.
* `AnchorInv`: the floor lags by at most one, and is level whenever there is an
  orphan -- an append only writes after it has brought the floor level.  This
  is what keeps the lag from accumulating over repeated crashes.
* `LockInv`, `CallInv`: what the caller inside the engine may rely on between
  two of its writes (for example, after recovery the frontier slot is empty).

`AppendOnly` follows because the only write of an entry happens at an empty
frontier.  The refinement uses the same invariant: `CommitStep`, `AdoptSettles`
and `IncrementSettles` map the two writes a caller can tell, `AppendAnswers` and
`LookAnswers` show that each answer is true of the abstract log at that moment
(no entry is in doubt, because recovery has run), and `StepRefines` combines
them.  The theorems are about `TamperSpec`, for all four kinds of tier
(write-once or not, with anchor or without; the run has both stores, with an
anchor).  The properties that assume an honest image are about the states
before it is changed.

After the change `IInv` is gone, and `DamageInv` takes its place: the damage is of
one of three kinds, and each keeps the engine from the writes that could undo it.
A `Broken` chain is only ever extended; a `Headless` chain, whose end is not the
one meta names, cannot be extended; a `Rewound` store never gets past the anchor
that shows it.  From this, `EvidenceKept` and `VerifiedMeansAppendable`.

**Registry.**  `candidate_beats_best` is a strict order, its ties are rows equal
in all three criteria, and a row passed over stays beaten by every later best.
`SelectsTheBest`: one pass of `select_in_range` over a section of any length
returns an eligible row that no eligible row beats, and none only if there is
none.  The induction over the section is done by a least counterexample
(`LeastNatural`), since the library's induction theorems cannot be used.

**Log dispatcher.**  `active_ops` counts the threads between their add and their
sub; OPENING and CLOSING each belong to one thread; an op past its check keeps
close() from dropping the ops; and a walk stands at the best row below all that
declined, every other fitting row having had its chance.  The last part,
`WalkInv`, is what a walk of several rows needs: it says of rows already behind
the walk what `BestReadyTier` says when it ends.

**Handle guard.**  A drain that reads zero says nothing unless the counter is
exact.  `IInv` ties the counter of a slot to the set of threads it stands for,
gives every slot at most one thread that opens or closes it, and says which
fields each of its steps has already written.

**BLE.**  `IInv`, which needs no rule on callers: a claimed slot without references
has one owner, whose place says what the lifecycle and the controller are.
`OpsInv`, under `JoinBeforeReopen`: the counter is exact, nobody is let in while the
radio is brought up or once the closer has drained it, and nobody is on its way in
when the slot is cleared.

**RPC.**  `IInv` is about ownership: a slot has at most one thread, or the worker,
that opens or closes it, and how far that party has come decides lifecycle, block
and worker; the count in `chan_word` is the number of threads inside.  `CInv` is
about replies: while a channel is neither closing nor poisoned, whatever the peer
still owes belongs to the call in flight or has gone astray.

**Mailbox.**  A client that was seeded with nothing on its way stays within one turn
of every number in use, so that a new call never has the number of a retained
reply, of a request still to be read, or of the owner's `last_seq`; a request that
is not torn is read once, and its entry is newer than any in the log; and the
owner's work on the number of the call that waits is for that call.

**CC3501E.**  `LinkInv` ties the host's belief in a polled peer to the device, unless
the device was rebooted behind its back, which no update is: it holds with and
without a reset pin, whatever the order of the entry points.
`UpdateInv` follows one update: only an update that streams leaves chunks in an
open session, the cursors differ by at most the frame in flight, and from FINISH
on the staged image is this one.

## 6. What is only model-checked

The liveness properties (`ClosingSlotIsFreed`, `ClosingRadioIsFreed`,
`CloseCompletes`, `CallReturnsOnClose`, and `CallReturns` of the mailbox and of the
update): fairness and ENABLED are outside the prover's reach.  Findings 1 to 5
are counterexamples of TLC.  All models are sequentially consistent.

## 7. Plan

Done: the guard, the engine with its abstract specification and the refinement
proof, the registry, the log's dispatcher, the two-core mailbox, BLE, RPC over one
backend, the CC3501E update, and theorems for all their safety properties.
Next, in order:

1. The mailbox as an implementation of `AuditLog` as the client sees it; the step
   lemmas a liveness argument rests on (what a step of each waiting loop makes
   smaller), which leaves only the fairness to TLC.
2. The UIO and Zephyr RPC backends behind the same dispatcher; two channels
   whose callbacks close each other.
3. The CAN shutdown/destroy variant; the busy-refusing target close of I2C/SPI.
4. A store-buffer variant of the guard for weakly ordered memory.
5. The CC3501E resync, events and sockets; the GD32 bridge's retries.

## 8. Not modelled

Register-level chip drivers, display, audio and camera code (I/O without
concurrency of their own); numerics (`ahrs.c`, `pid.c`, decimators); the model
loader and boot-metadata readers (parsing without shared state); the stateless
dispatch caches (one idempotent pointer); the other class dispatchers, which
repeat the shape of `HandleGuard` with a different vtable; build glue,
generated tables, examples and vendored code.  These make up nearly all lines
of the repository, so the modelled share is small by line count: the project
covers the parts whose errors a test hardly reaches.

Within the modelled parts, argument checks that return before touching state,
logging, error-string bookkeeping, the byte layout of entries and frames and
SHA-256 itself are left out; so are, in the mailbox, the magic and version words
and the cache maintenance of builds with the data cache on, and in the CC3501E
update the legacy wire (`fw_proto_major` 3), where an all-zero bus phase reads as a
success.
