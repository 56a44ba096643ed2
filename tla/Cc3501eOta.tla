---------------------------- MODULE Cc3501eOta ----------------------------
(***************************************************************************)
(* The firmware update of the CC3501E coprocessor as the host drives it    *)
(* (chips/cc3501e/cc3501e_ota.c): enter the polled update mode, BEGIN,     *)
(* stream the image, FINISH, PROMOTE, and on failure ABORT and leave the   *)
(* update mode again.  Every frame, and every reply, may be lost; the      *)
(* device (external, `dev`) reboots, erases and flushes in between.        *)
(*                                                                         *)
(* The image is a sequence of chunks, one frame each.  Polling loops are   *)
(* bounded by a number of polls instead of a budget in milliseconds.  The  *)
(* peer speaks the CRC-checked wire (fw_proto_major 4), so a dead bus      *)
(* phase is an error and never an all-zero success.                        *)
(***************************************************************************)
EXTENDS Naturals, Sequences

CONSTANTS
  Images,       \* the firmware images; all have the same length
  Chunks,       \* ... in chunks of CC3501E_POLLED_OTA_CHUNK bytes
  StallMax,     \* CC3501E_OTA_STALL_MAX
  MaxPolls,     \* polls in one budget (UPDATE_MODE, BLACKOUT, FLUSH wait)
  HasResetPin   \* ctx->reset_pin is wired

ASSUME OtaAssumption ==
  /\ Chunks \in Nat \ {0} /\ StallMax \in Nat \ {0} /\ MaxPolls \in Nat
  /\ HasResetPin \in BOOLEAN

VARIABLES
  dev,                \* the device, see below
  peer_polled,        \* g_peer_polled
  ota_session_active,
  pc, call,           \* the host's next step, and the entry point it is in
  image, off, stall, waited, want, \* locals of cc3501e_ota_update() and _mode()
  s,                  \* the status to return
  rebooted            \* a reset or promote outside an update has rebooted the
                      \* device since peer_polled was set (not in the code)

host == <<peer_polled, ota_session_active, pc, call, image, off, stall, waited, want, s, rebooted>>
vars == <<dev, host>>

-----------------------------------------------------------------------------
(* The device: session state and write cursor in RAM, the staged image in  *)
(* flash.  Each command gives the set of <<answer, next device>> pairs.    *)

\*   mode     the bridge it booted: "normal" or "polled"
\*   job      what it is busy with: "flush", "begin", a reboot "to_polled" or
\*            "to_normal", "swap", for ever ("wedged") or "none"
\*   state    of the session: "IDLE", "WRITING", "STAGED", "ERROR"
\*   slot     the chunks written, each <<image, number>>
\*   pending  what the image store holds: "NONE", "STAGED" or "TRIAL"
\*   armed    the swap request that FINISH leaves in RAM
\*   runs     the firmware it runs

\* A reboot keeps only what is in flash.
Booted(d, m) ==
  [d EXCEPT !.mode = m, !.job = "none", !.state = "IDLE", !.slot = <<>>, !.armed = FALSE]

\* WIFI_EN and nRESET; a swap that has begun is the boot loader's and goes on.
PowerCycled(d) == IF d.job = "swap" THEN d ELSE Booted(d, "normal")

\* nRESET alone, which a wedged device survives.
Reset(d) == IF d.job = "wedged" THEN d ELSE PowerCycled(d)

ServeMode(m) ==
  {<<dev.mode, IF dev.mode = m THEN dev
               ELSE [dev EXCEPT !.job = IF m = "polled" THEN "to_polled" ELSE "to_normal"]>>}

\* On the normal bridge the flash calls of BEGIN never return.
ServeBegin ==
  CASE dev.mode = "normal" -> {<<"BUSY", [dev EXCEPT !.job = "wedged"]>>}
    [] dev.mode = "polled" /\ dev.state = "WRITING" ->
         {<<IF dev.slot = <<>> THEN "OK" ELSE "INVAL", dev>>}
    [] dev.mode = "polled" /\ dev.state = "ERROR" -> {<<"INVAL", dev>>}
    [] OTHER -> {"OK", "BUSY"} \X {[dev EXCEPT !.job = "begin"]}

ServeWrite(i, n) ==
  IF dev.job # "none" THEN {<<"BUSY", dev>>}
  ELSE IF dev.state # "WRITING" \/ Len(dev.slot) # n - 1 THEN {<<"INVAL", dev>>}
  ELSE {<<"OK", [dev EXCEPT !.slot = Append(@, <<i, n>>)]>>,
        <<"BUSY", [dev EXCEPT !.job = "flush"]>>,
        <<"NOT_READY", dev>>}

ServeFinish ==
  IF dev.job # "none" THEN {<<"BUSY", dev>>}
  ELSE IF dev.state = "WRITING" /\ Len(dev.slot) = Chunks
    THEN {<<"OK", [dev EXCEPT !.state = "STAGED", !.pending = "STAGED", !.armed = TRUE]>>,
          <<"INVAL", [dev EXCEPT !.state = "ERROR"]>>}
    ELSE {<<IF dev.state = "STAGED" THEN "OK" ELSE "INVAL", dev>>}

ServeAbort ==
  {<<"OK", [dev EXCEPT !.job = "none", !.state = "IDLE", !.slot = <<>>, !.armed = FALSE,
                       !.pending = IF @ = "STAGED" THEN "NONE" ELSE @]>>}

\* PROMOTE is acknowledged also when the swap request was lost in a reboot.
ServePromote ==
  {<<"OK", IF dev.armed THEN [dev EXCEPT !.job = "swap"] ELSE dev>>}

\* CMD_RESET: acknowledged, then the device reboots.
ServeReset == {<<"OK", [dev EXCEPT !.job = "to_normal"]>>}

\* What the device does by itself.
DeviceJob ==
  /\ \/ /\ dev.job = "flush"
        /\ \/ dev' = [dev EXCEPT !.job = "none"]
           \/ dev' = [dev EXCEPT !.job = "none", !.state = "ERROR"]
     \/ /\ dev.job = "begin"
        /\ \/ dev' = [dev EXCEPT !.job = "none", !.state = "WRITING", !.slot = <<>>,
                                 !.pending = "NONE", !.armed = FALSE]
           \/ dev' = [dev EXCEPT !.job = "none", !.state = "ERROR"]
     \/ dev.job = "to_polled" /\ dev' = Booted(dev, "polled")
     \/ dev.job = "to_normal" /\ dev' = Booted(dev, "normal")
     \/ dev.job = "swap" /\ dev' = [Booted(dev, "normal") EXCEPT !.pending = "TRIAL", !.runs = dev.slot[1][1]]
     \/ dev.pending = "TRIAL" /\ dev' = [dev EXCEPT !.pending = "NONE"]
  /\ UNCHANGED host

-----------------------------------------------------------------------------
(* cc3501e_request(): the frame is lost, or its reply is, or all goes well.*)

Deaf == dev.job \in {"to_polled", "to_normal", "swap", "wedged"}

Exchange(served) ==
  {<<"IO", dev>>} \cup
  IF Deaf THEN {} ELSE served \cup {<<"IO", a[2]>> : a \in served}

\* cc3501e_ota_status(): did an answer come back?  It tells dev.state, the
\* cursor Len(dev.slot), whether a flush is pending, and dev.pending.
Answered == {FALSE, ~Deaf}

Init ==
  /\ \E i \in Images :
       dev = [mode |-> "normal", job |-> "none", state |-> "IDLE", slot |-> <<>>,
              pending |-> "NONE", armed |-> FALSE, runs |-> i]
  /\ peer_polled = FALSE /\ ota_session_active = FALSE
  /\ pc = "idle" /\ call = "none" /\ image \in Images /\ want = "normal"
  /\ off = 0 /\ stall = 0 /\ waited = 0
  /\ s = "OK" /\ rebooted = FALSE

flags == <<peer_polled, ota_session_active>>
locals == <<image, off, stall>>

Goto(l) == pc' = l /\ waited' = 0

Return(st) == Goto("idle") /\ s' = st

\* Another poll, while the budget lasts.
Again == waited < MaxPolls /\ waited' = waited + 1 /\ UNCHANGED <<pc, s>>

Start(c, l) ==
  /\ pc = "idle" /\ call' = c /\ Goto(l) /\ off' = 0 /\ stall' = 0
  /\ s' = "OK"
  /\ UNCHANGED <<dev, peer_polled, rebooted>>

\* A failed step.  Who entered the update mode also leaves it (ota_update_bail).
Fail(st) ==
  /\ s' = st
  /\ IF call \in {"update", "console_begin"} THEN Goto("mode") /\ want' = "normal"
     ELSE Goto("idle") /\ UNCHANGED want

\* cc3501e_set_peer_polled()
SetPeerPolled(on) == peer_polled' = on /\ rebooted' = FALSE

NoteReboot ==
  rebooted' = (rebooted \/ /\ pc = "idle" \/ call # "update"
                           /\ dev'.mode # dev.mode \/ dev'.job \in {"to_normal", "swap"})

\* cc3501e_poll_exit(): a call that got no answer at all probes the link, and
\* outside a session a dead link is reset (cc3501e_link_check_and_recover).
PollExit(d) ==
  \/ dev' = d /\ UNCHANGED ota_session_active
  \/ /\ HasResetPin /\ ~ota_session_active
     /\ dev' = Reset(d) /\ ota_session_active' = FALSE

-----------------------------------------------------------------------------
(* The entry points, and cc3501e_ota_update_mode().                        *)

\* The session is marked open before the first frame is sent.
StartUpdate(i) ==
  /\ Start("update", "mode")
  /\ image' = i /\ want' = "polled" /\ ota_session_active' = TRUE

\* `alp companion ota begin`
StartConsoleBegin ==
  /\ Start("console_begin", "mode")
  /\ want' = "polled" /\ ota_session_active' = TRUE /\ UNCHANGED image

\* cc3501e_ota_update_mode() on its own.
StartMode(m) ==
  /\ Start("mode", "mode")
  /\ want' = m /\ ota_session_active' = (ota_session_active \/ m = "polled") /\ UNCHANGED image

StartBegin == Start("begin", "begin") /\ UNCHANGED <<ota_session_active, image, want>>

\* `alp companion ota abort`: the abort, then out of update mode.
StartAbort == Start("abort", "abort") /\ UNCHANGED <<ota_session_active, image, want>>

StartPromote == Start("promote", "confirm") /\ UNCHANGED <<ota_session_active, image, want>>

\* The device reads back the mode that was asked for.
ModeConfirmed ==
  /\ SetPeerPolled(want = "polled")
  /\ Goto(IF want = "polled" /\ call # "mode" THEN "begin" ELSE "idle")
  /\ ota_session_active' = (ota_session_active /\ want = "polled")

\* It never did: reset the device, which always lands in normal mode.
ModeGivenUp ==
  /\ SetPeerPolled(FALSE) /\ ota_session_active' = FALSE
  /\ dev' = IF HasResetPin THEN Reset(dev) ELSE dev
  /\ Return(IF want = "polled" \/ call = "mode" THEN "TIMEOUT" ELSE s)

\* Send the mode once, and poll by sending it again.
UpdateMode ==
  /\ pc = "mode"
  /\ \E r \in Exchange(ServeMode(want)) :
       \/ r[1] = want /\ dev' = r[2] /\ ModeConfirmed /\ UNCHANGED s
       \/ r[1] # want /\ dev' = r[2] /\ Again /\ UNCHANGED <<flags, rebooted>>
       \/ r[1] # want /\ waited = MaxPolls /\ ModeGivenUp
  /\ UNCHANGED <<call, locals, want>>

-----------------------------------------------------------------------------
(* cc3501e_ota_begin()                                                     *)

\* Refused unless the peer is polled; else one frame, whose answer says little.
Begin ==
  /\ pc = "begin"
  /\ IF peer_polled
       THEN \E r \in Exchange(ServeBegin) :
              dev' = r[2] /\ s' = r[1] /\ Goto("begin_settle") /\ UNCHANGED want
       ELSE Fail("NOT_READY") /\ UNCHANGED dev
  /\ UNCHANGED <<flags, call, locals, rebooted>>

\* ota_settled_as(WRITING).  After BUSY the wait is repeated.
BeginSettle ==
  /\ pc = "begin_settle"
  /\ \E answered \in Answered :
       \/ /\ answered /\ dev.state = "WRITING"
          /\ s' = "OK" /\ Goto(IF call = "update" THEN "write" ELSE "idle") /\ UNCHANGED want
       \/ answered /\ dev.state = "ERROR" /\ Fail("IO")
       \/ /\ answered => dev.state \notin {"WRITING", "ERROR"}
          /\ IF waited < (IF s = "BUSY" THEN 2 * MaxPolls + 1 ELSE MaxPolls)
               THEN waited' = waited + 1 /\ UNCHANGED <<pc, s, want>>
               ELSE Fail(IF s = "OK" THEN "TIMEOUT" ELSE s)
  /\ UNCHANGED <<dev, flags, call, locals, rebooted>>

-----------------------------------------------------------------------------
(* The stream.                                                             *)

\* The chunk is in: the next one, or FINISH.
Advance ==
  /\ off' = off + 1 /\ stall' = 0
  /\ Goto(IF off + 1 = Chunks THEN "finish" ELSE "write")
  /\ UNCHANGED s

\* The stream is given up.
GiveUp(st) == Goto("abort") /\ s' = st /\ UNCHANGED <<off, stall>>

\* Each chunk is sent once.
Write ==
  /\ pc = "write"
  /\ \E r \in Exchange(ServeWrite(image, off + 1)) :
       /\ dev' = r[2]
       /\ \/ r[1] = "OK" /\ Advance
          \/ r[1] \in {"BUSY", "IO"} /\ Goto("holdoff") /\ UNCHANGED <<off, stall, s>>
          \/ /\ r[1] \notin {"OK", "BUSY", "IO"} /\ Goto("resync")
             /\ s' = r[1] /\ UNCHANGED <<off, stall>>
  /\ UNCHANGED <<flags, call, image, want, rebooted>>

\* The device is back, still WRITING, but without the chunk.
Retry ==
  IF stall + 1 < StallMax
    THEN Goto("write") /\ stall' = stall + 1 /\ UNCHANGED <<off, s>>
    ELSE GiveUp("IO")

FlushOver ==
  \/ dev.state # "WRITING" /\ GiveUp("IO")
  \/ dev.state = "WRITING" /\ Len(dev.slot) >= off + 1 /\ Advance
  \/ dev.state = "WRITING" /\ Len(dev.slot) < off + 1 /\ Retry

StillFlushing ==
  /\ UNCHANGED <<off, stall>>
  /\ Again \/ (waited = MaxPolls /\ Goto("abort") /\ s' = "TIMEOUT")

HoldOffThen(Over) ==
  /\ pc = "holdoff"
  /\ \E answered \in Answered :
       IF answered /\ dev.job # "flush" THEN Over ELSE StillFlushing
  /\ UNCHANGED <<dev, flags, call, image, want, rebooted>>

\* Mutant: hold-offs that move the cursor nowhere are not counted.
HoldOffForEver ==
  HoldOffThen(
    \/ dev.state # "WRITING" /\ GiveUp("IO")
    \/ dev.state = "WRITING" /\ Len(dev.slot) >= off + 1 /\ Advance
    \/ /\ dev.state = "WRITING" /\ Len(dev.slot) < off + 1
       /\ Goto("write") /\ UNCHANGED <<off, stall, s>>)

\* Mutant: a flush that is over means that the chunk is in.
HoldOffAssumesLanded ==
  HoldOffThen((dev.state # "WRITING" /\ GiveUp("IO")) \/ (dev.state = "WRITING" /\ Advance))

\* No payload while the device flushes: poll the status until it is back, and
\* let its cursor say whether the chunk landed.
HoldOff == HoldOffThen(FlushOver)

\* Any other error: go on only if the cursor shows the chunk.
Resync ==
  /\ pc = "resync"
  /\ \E answered \in Answered :
       IF answered /\ dev.state = "WRITING" /\ Len(dev.slot) = off + 1
         THEN Advance
         ELSE GiveUp(s)
  /\ UNCHANGED <<dev, flags, call, image, want, rebooted>>

\* cc3501e_ota_abort(), whose status is dropped, then out of update mode.
Abort ==
  /\ pc = "abort"
  /\ \E r \in Exchange(ServeAbort) :
       \/ r[1] # "OK" /\ Again /\ dev' = r[2] /\ UNCHANGED <<ota_session_active, want>>
       \/ /\ r[1] = "OK" \/ waited = MaxPolls
          /\ IF r[1] = "OK" THEN dev' = r[2] /\ UNCHANGED ota_session_active
             ELSE PollExit(r[2])
          /\ Goto("mode") /\ want' = "normal" /\ UNCHANGED s
  /\ NoteReboot
  /\ UNCHANGED <<peer_polled, call, locals>>

-----------------------------------------------------------------------------
(* cc3501e_ota_finish() and cc3501e_ota_promote()                          *)

\* Mutant: the host goes on believing in a polled peer.
FinishedForgets ==
  /\ ota_session_active' = FALSE /\ Goto("confirm") /\ s' = "OK"
  /\ UNCHANGED <<peer_polled, want, rebooted>>

Finished ==
  /\ SetPeerPolled(FALSE) /\ ota_session_active' = FALSE
  /\ Goto("confirm") /\ s' = "OK" /\ UNCHANGED want

Finish ==
  /\ pc = "finish"
  /\ \E r \in Exchange(ServeFinish) :
       /\ dev' = r[2]
       /\ \/ r[1] = "OK" /\ Finished
          \/ r[1] \in {"BUSY", "IO"} /\ Again /\ UNCHANGED <<flags, want, rebooted>>
          \/ /\ r[1] = "INVAL" \/ (r[1] \in {"BUSY", "IO"} /\ waited = MaxPolls)
             /\ Goto("finish_settle") /\ s' = (IF r[1] = "INVAL" THEN "INVAL" ELSE "TIMEOUT")
             /\ UNCHANGED <<flags, want, rebooted>>
  /\ UNCHANGED <<call, locals>>

FinishSettleElse(OnError(_)) ==
  /\ pc = "finish_settle"
  /\ \E answered \in Answered :
       \/ answered /\ dev.state = "STAGED" /\ Finished
       \/ answered /\ dev.state = "ERROR" /\ OnError("IO") /\ UNCHANGED <<flags, rebooted>>
       \/ /\ answered => dev.state \notin {"STAGED", "ERROR"}
          /\ UNCHANGED <<flags, rebooted>>
          /\ (Again /\ UNCHANGED want) \/ (waited = MaxPolls /\ OnError(s))
  /\ UNCHANGED <<dev, call, locals>>

\* Mutant: an update whose FINISH fails returns at once.
FinishSettleNoBail == FinishSettleElse(LAMBDA st : Return(st) /\ UNCHANGED want)

\* ota_settled_as(STAGED): the acknowledgement may be lost, the state is not.
FinishSettle == FinishSettleElse(Fail)

\* Promote only what the image store reports as staged.
Confirm ==
  /\ pc = "confirm"
  /\ \E answered \in Answered :
       \/ ~answered /\ PollExit(dev) /\ Return("TIMEOUT")
       \/ /\ answered /\ UNCHANGED <<dev, ota_session_active>>
          /\ \/ dev.pending = "STAGED" /\ Goto("promote") /\ UNCHANGED s
             \/ dev.pending = "TRIAL" /\ Return("OK")
             \/ dev.pending = "NONE" /\ Return("NOT_READY")
  /\ NoteReboot
  /\ UNCHANGED <<peer_polled, call, locals, want>>

PromoteElse(silence) ==
  /\ pc = "promote"
  /\ \E r \in Exchange(ServePromote) :
       \/ r[1] = "OK" /\ dev' = r[2] /\ ota_session_active' = FALSE /\ Return("OK")
       \/ r[1] = "IO" /\ Again /\ dev' = r[2] /\ UNCHANGED ota_session_active
       \/ r[1] = "IO" /\ waited = MaxPolls /\ PollExit(r[2]) /\ Return(silence)
  /\ NoteReboot
  /\ UNCHANGED <<peer_polled, call, locals, want>>

\* Mutant: a device that falls silent is taken to be swapping.
PromoteTrustsSilence == PromoteElse("OK")

Promote == PromoteElse("TIMEOUT")

-----------------------------------------------------------------------------
(* The resets an application may call, none of which touches g_peer_polled.*)

Reboot(d) ==
  /\ pc = "idle" /\ call' = "reset"
  /\ dev' = d /\ NoteReboot
  /\ UNCHANGED <<peer_polled, pc, locals, waited, want>>

\* cc3501e_hard_reset()
HardReset ==
  /\ HasResetPin /\ Reboot(Reset(dev))
  /\ ota_session_active' = FALSE /\ s' = "OK"

\* cc3501e_reset(), on a board where the supply can be switched.
ColdReset ==
  /\ HasResetPin /\ Reboot(PowerCycled(dev))
  /\ ota_session_active' = FALSE /\ s' = "OK"

\* cc3501e_soft_reset(): one frame, and the host's flags stay.
SoftReset ==
  \E r \in Exchange(ServeReset) : Reboot(r[2]) /\ s' = r[1] /\ UNCHANGED ota_session_active

\* cc3501e_recover(): refused through a session, else a reset and a PING.
Recover ==
  /\ IF ota_session_active \/ ~HasResetPin
       THEN Reboot(dev) /\ s' = (IF ota_session_active THEN "BUSY" ELSE "NOSUPPORT")
       ELSE Reboot(Reset(dev)) /\ s' \in {"OK", "IO"}
  /\ UNCHANGED ota_session_active

-----------------------------------------------------------------------------
(* An application that drives single chunks itself.                        *)

\* cc3501e_ota_write() of one frame.
WriteOne(i, n) ==
  /\ pc = "idle"
  /\ \E r \in Exchange(ServeWrite(i, n)) : dev' = r[2] /\ s' = r[1]
  /\ call' = "write"
  /\ UNCHANGED <<flags, pc, locals, waited, want, rebooted>>

-----------------------------------------------------------------------------
Call ==
  \/ \E i \in Images : StartUpdate(i)
  \/ StartConsoleBegin \/ StartBegin \/ StartAbort \/ StartPromote
  \/ \E m \in {"normal", "polled"} : StartMode(m)
  \/ HardReset \/ ColdReset \/ SoftReset \/ Recover

Step ==
  \/ UpdateMode \/ Begin \/ BeginSettle \/ Write \/ HoldOff \/ Resync \/ Abort
  \/ Finish \/ FinishSettle \/ Confirm \/ Promote

Next == Call \/ Step \/ DeviceJob

Spec == Init /\ [][Next]_vars

\* The calling thread runs on; nothing is asked of the device or the link.
FairSpec == Spec /\ WF_vars(Step)

ChunkSpec == Init /\ [][Next \/ \E i \in Images, n \in 1..Chunks : WriteOne(i, n)]_vars

-----------------------------------------------------------------------------
\* "Refuse instead", as far as it goes.  An update never sends BEGIN to a device
\* on the normal bridge, where it would not return until the power is cycled,
\* whatever has been called before; BEGIN on its own does so only when a reset or
\* a promote that is no part of an update has rebooted the device since the host
\* last learnt its mode.
WedgedOnlyAfterReset ==
  [][dev.job # "wedged" /\ dev'.job = "wedged" => call = "begin" /\ rebooted]_vars

\* The host never believes in a chunk the device does not have, never falls
\* more than the frame in flight behind, and what is in the slot is this image:
\* another one "is rejected, because merging it would splice the two".
StreamMatchesSlot ==
  (pc \in {"write", "holdoff", "resync", "finish"} /\ dev.state = "WRITING") =>
    /\ off <= Len(dev.slot) /\ Len(dev.slot) <= off + 1
    /\ \A k \in 1..Len(dev.slot) : dev.slot[k] = <<image, k>>

\* A failed update leaves the session closed, or recovery would be switched off
\* for good, and the device on the normal bridge, on its way there in a swap, or
\* with the image of this very update staged.
FailedUpdateBacksOut ==
  (pc = "idle" /\ call = "update" /\ s # "OK") =>
    /\ ~ota_session_active
    /\ \/ dev.mode = "normal" \/ dev.job = "swap"
       \/ dev.state = "STAGED" /\ dev.slot[1] = <<image, 1>>

\* An update that returns ALP_OK leaves the device swapping, or on the new image.
SuccessMeansSwap ==
  [][(pc # "idle" /\ pc' = "idle" /\ call = "update" /\ s' = "OK") =>
       dev'.job = "swap" \/ dev'.runs = image]_vars

\* Every call returns, whatever the link loses and the device does.
CallReturns == (pc # "idle") ~> (pc = "idle")
=============================================================================
