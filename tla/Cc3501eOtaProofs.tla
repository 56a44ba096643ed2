-------------------------- MODULE Cc3501eOtaProofs --------------------------
(***************************************************************************)
(* The firmware update of the CC3501E, for every image length, every       *)
(* budget, and whatever is lost on the link.                               *)
(*                                                                         *)
(* LinkInv ties the host's belief in a polled peer to the device: it holds *)
(* with and without a reset pin, and keeps BEGIN off the normal bridge     *)
(* until a reset that the belief does not follow.                          *)
(*                                                                         *)
(* UpdateInv follows one update.  Only an update that streams leaves       *)
(* chunks in an open session (SlotInv), the two cursors differ at most by  *)
(* the frame in flight (CursorInv), and from FINISH on the staged image is *)
(* this one (EndInv).  It needs the reset pin: without it a device that    *)
(* does not answer is left in update mode, chunks and all, when the update *)
(* is given up, and the next update finds them.                            *)
(***************************************************************************)
EXTENDS Cc3501eOta, TLAPS

-----------------------------------------------------------------------------
\* The values a device can have.
Modes == {"normal", "polled"}
Jobs == {"none", "flush", "begin", "to_polled", "to_normal", "swap", "wedged"}
Devices ==
  [mode : Modes, job : Jobs, state : {"IDLE", "WRITING", "STAGED", "ERROR"},
   slot : Seq(Images \X (1..Chunks)), pending : {"NONE", "STAGED", "TRIAL"},
   armed : BOOLEAN, runs : Images]

\* What holds of the device whatever the host does: on the normal bridge there
\* is no session, only there is it wedged, and a swap request stands for an
\* image that is staged.
Sane(d) ==
  /\ d \in Devices
  /\ d.mode = "normal" =>
       /\ d.job \in {"none", "to_polled", "to_normal", "wedged"}
       /\ d.state = "IDLE" /\ ~d.armed
  /\ d.job = "wedged" => d.mode = "normal"
  /\ d.state = "IDLE" => d.slot = <<>>
  /\ d.state = "WRITING" => d.pending = "NONE"
  /\ d.job = "begin" => d.state \in {"IDLE", "STAGED"}
  /\ d.job = "flush" => d.state = "WRITING"
  /\ d.armed => d.state \in {"STAGED", "ERROR"} /\ d.pending = "STAGED" /\ d.slot # <<>>
  /\ d.job = "swap" => d.armed

Stream == {"write", "holdoff", "resync"}
Ending == {"finish", "finish_settle"}
Calls == {"none", "update", "console_begin", "begin", "abort", "promote", "mode", "reset"}

\* The places each call goes through.
PlaceInv ==
  /\ call \in Calls /\ want \in Modes
  /\ peer_polled \in BOOLEAN /\ ota_session_active \in BOOLEAN /\ rebooted \in BOOLEAN
  /\ image \in Images /\ off \in 0..Chunks
  /\ \/ pc = "idle"
     \/ pc \in Stream \cup Ending /\ call = "update"
     \/ pc \in {"begin", "begin_settle"} /\ call \in {"update", "console_begin", "begin"}
     \/ pc \in {"confirm", "promote"} /\ call \in {"update", "promote"}
     \/ pc = "abort" /\ call \in {"update", "abort"}
     \/ pc = "mode" /\ call \in {"update", "console_begin", "mode"}
     \/ pc = "mode" /\ call = "abort" /\ want = "normal"
  /\ pc \in {"begin", "begin_settle"} \/ (pc = "mode" /\ want = "polled") => off = 0
  /\ pc \in Stream => off < Chunks
  /\ pc \in Ending => off = Chunks

\* The device answers, on the polled bridge.
Polled(d) == d.mode = "polled" /\ d.job \in {"none", "flush", "begin"}

\* Outside the change of mode, the host believes in a polled peer only while the
\* device is one or has been rebooted behind its back, which no update is.
PeerInv ==
  /\ peer_polled /\ pc # "mode" /\ ~rebooted => Polled(dev)
  /\ call \in {"update", "console_begin"} /\ pc \notin {"idle", "mode"} => ~rebooted
  /\ pc = "begin_settle" => peer_polled
  /\ call = "update" /\ pc \in {"confirm", "promote"} => ~peer_polled

LinkInv == Sane(dev) /\ PlaceInv /\ PeerInv

\* The image of this update is staged and the swap requested.
Staged ==
  /\ dev.state = "STAGED" /\ dev.pending = "STAGED"
  /\ dev.armed /\ dev.slot[1] = <<image, 1>>

\* How a failed update may leave the device.
Leavable(d) ==
  \/ d.mode = "normal" /\ d.job \in {"none", "wedged"}
  \/ d.job = "swap"
  \/ /\ d.state = "STAGED" /\ d.pending = "STAGED" /\ d.slot[1] = <<image, 1>>
     /\ d.job = "none"

\* Only an update that streams leaves chunks in an open session.
SlotInv ==
  dev.state = "WRITING" =>
    \/ dev.slot = <<>>
    \/ pc \in Stream \cup Ending \cup {"abort"}
    \/ pc = "mode" /\ want = "normal"

\* The host's cursor and the device's.
CursorInv ==
  /\ pc \in Stream \cup Ending => dev.job \in {"none", "flush"}
  /\ pc \in Stream => dev.state \in {"WRITING", "ERROR"}
  /\ pc \in Ending => dev.state \in {"WRITING", "ERROR", "STAGED"}
  /\ pc \in Stream \cup Ending /\ dev.state = "WRITING" =>
       /\ Len(dev.slot) = off \/ (pc \in {"holdoff", "resync"} /\ Len(dev.slot) = off + 1)
       /\ \A k \in 1..Len(dev.slot) : dev.slot[k] = <<image, k>>
  /\ pc \in Ending /\ dev.state = "STAGED" => Staged /\ dev.job = "none"

\* The end of an update, and how it is left when it fails.
EndInv ==
  /\ call = "update" /\ pc \in {"confirm", "promote"} => ~ota_session_active
  /\ call = "update" /\ pc = "confirm" => Staged /\ dev.job = "none"
  /\ call = "update" /\ pc = "promote" =>
       \/ Staged /\ dev.job \in {"none", "swap"}
       \/ dev.runs = image /\ dev.mode = "normal" /\ dev.job = "none"
  /\ /\ call = "update"
     /\ pc \in {"abort", "resync", "finish_settle"} \/ (pc = "mode" /\ want = "normal")
     => s # "OK"
  /\ call = "update" /\ pc = "idle" /\ s # "OK" =>
       ~ota_session_active /\ Leavable(dev)

UpdateInv == SlotInv /\ CursorInv /\ EndInv
StreamInv == LinkInv /\ UpdateInv

-----------------------------------------------------------------------------
(* The device.                                                             *)

\* A reboot leaves a device without a session.
LEMMA BootedSane ==
  ASSUME NEW d, Sane(d), NEW m \in Modes
  PROVE  /\ Sane(Booted(d, m))
         /\ Booted(d, m).mode = m /\ Booted(d, m).job = "none" /\ Booted(d, m).state = "IDLE"
         /\ Booted(d, m).slot = <<>> /\ ~Booted(d, m).armed
         /\ Booted(d, m).pending = d.pending /\ Booted(d, m).runs = d.runs
<1>0. d \in Devices
  BY DEF Sane
<1>1. Booted(d, m) \in Devices
  <2>1. <<>> \in Seq(Images \X (1..Chunks)) /\ "none" \in Jobs
    BY DEF Jobs
  <2> QED
    BY <1>0, <2>1, Zenon DEF Booted, Devices
<1>2. /\ Booted(d, m).mode = m /\ Booted(d, m).job = "none" /\ Booted(d, m).state = "IDLE"
      /\ Booted(d, m).slot = <<>>
      /\ Booted(d, m).pending = d.pending /\ Booted(d, m).runs = d.runs
  BY <1>0 DEF Booted, Devices
<1>3. ~Booted(d, m).armed
  BY <1>0, Zenon DEF Booted, Devices
<1> QED
  BY <1>1, <1>2, <1>3 DEF Sane, Modes

\* nRESET leaves a device on the normal bridge, swapping, or wedged; switching
\* the power off frees it from the last.
LEMMA ResetSane ==
  ASSUME NEW d, Sane(d)
  PROVE  /\ Sane(Reset(d))
         /\ \/ Reset(d) = d /\ d.job \in {"swap", "wedged"}
            \/ Reset(d).mode = "normal" /\ Reset(d).job = "none"
         /\ Sane(PowerCycled(d))
         /\ \/ PowerCycled(d) = d /\ d.job = "swap"
            \/ PowerCycled(d).mode = "normal" /\ PowerCycled(d).job = "none"
BY BootedSane DEF Reset, PowerCycled, Modes

\* UPDATE_MODE is confirmed by a device that is in the mode, and reboots another.
LEMMA ServeModeSane ==
  ASSUME Sane(dev), ~Deaf, NEW m \in Modes, NEW a \in ServeMode(m)
  PROVE  /\ Sane(a[2]) /\ a[1] = dev.mode
         /\ a[2].pending = dev.pending /\ a[2].state = dev.state /\ a[2].slot = dev.slot
         /\ dev.mode = m => a[2] = dev
BY DEF ServeMode, Sane, Devices, Modes, Jobs, Deaf

\* BEGIN on the polled bridge starts an erase or leaves the device as it is.
LEMMA ServeBeginSane ==
  ASSUME Sane(dev), ~Deaf, NEW a \in ServeBegin
  PROVE  /\ Sane(a[2]) /\ a[2].slot = dev.slot /\ a[2].state = dev.state
         /\ dev.mode = "polled" => Polled(a[2])
BY DEF Polled, ServeBegin, Sane, Devices, Modes, Jobs, Deaf

\* WRITE adds the chunk, flushes, or leaves the device as it is.
LEMMA ServeWriteSane ==
  ASSUME Sane(dev), ~Deaf, NEW i \in Images, NEW n \in 1..Chunks, NEW a \in ServeWrite(i, n)
  PROVE  /\ Sane(a[2]) /\ a[2].mode = dev.mode /\ a[2].pending = dev.pending
         /\ a[2].state = dev.state /\ a[2].armed = dev.armed
         /\ \/ a[2] = dev /\ a[1] # "OK"
            \/ /\ a[2].slot = dev.slot /\ a[2].job = "flush" /\ a[1] = "BUSY"
               /\ dev.state = "WRITING"
            \/ /\ a[2].slot = Append(dev.slot, <<i, n>>) /\ a[2].job = "none" /\ a[1] = "OK"
               /\ dev.state = "WRITING" /\ Len(dev.slot) = n - 1
<1>0. dev \in Devices /\ n \in Nat /\ a[1] \in {"OK", "BUSY", "INVAL", "NOT_READY"}
  BY DEF Sane, ServeWrite
<1>1. \/ a[2] = dev /\ a[1] # "OK"
      \/ a[2] = [dev EXCEPT !.job = "flush"] /\ a[1] = "BUSY" /\ dev.state = "WRITING"
      \/ /\ a[2] = [dev EXCEPT !.slot = Append(@, <<i, n>>)] /\ a[1] = "OK"
         /\ dev.state = "WRITING" /\ dev.job = "none" /\ Len(dev.slot) = n - 1
  <2> DEFINE flushing == [dev EXCEPT !.job = "flush"]
             written == [dev EXCEPT !.slot = Append(@, <<i, n>>)]
  <2>1. \/ a = <<"BUSY", dev>> \/ a = <<"INVAL", dev>> \/ a = <<"NOT_READY", dev>>
        \/ a = <<"BUSY", flushing>> /\ dev.state = "WRITING"
        \/ /\ a = <<"OK", written>>
           /\ dev.state = "WRITING" /\ dev.job = "none" /\ Len(dev.slot) = n - 1
    BY Zenon DEF ServeWrite
  <2> HIDE DEF flushing, written
  <2>2. \/ a[2] = dev /\ a[1] # "OK"
        \/ a[2] = flushing /\ a[1] = "BUSY" /\ dev.state = "WRITING"
        \/ /\ a[2] = written /\ a[1] = "OK"
           /\ dev.state = "WRITING" /\ dev.job = "none" /\ Len(dev.slot) = n - 1
    BY <2>1
  <2> QED
    BY <2>2 DEF flushing, written
<1>2. CASE a[2] = dev /\ a[1] # "OK"
  BY <1>2
<1>3. CASE a[2] = [dev EXCEPT !.job = "flush"] /\ a[1] = "BUSY" /\ dev.state = "WRITING"
  BY <1>3 DEF Sane, Devices, Jobs
<1>4. CASE /\ a[2] = [dev EXCEPT !.slot = Append(@, <<i, n>>)] /\ a[1] = "OK"
           /\ dev.state = "WRITING" /\ dev.job = "none" /\ Len(dev.slot) = n - 1
  <2>1. Append(dev.slot, <<i, n>>) \in Seq(Images \X (1..Chunks))
    BY <1>0 DEF Devices
  <2>2. a[2] \in Devices
    BY <1>0, <1>4, <2>1, Zenon DEF Devices
  <2>3. /\ a[2].mode = dev.mode /\ a[2].job = dev.job /\ a[2].state = dev.state
        /\ a[2].slot = Append(dev.slot, <<i, n>>)
        /\ a[2].pending = dev.pending /\ a[2].armed = dev.armed
    BY <1>0, <1>4 DEF Devices
  <2>4. ~dev.armed /\ dev.mode = "polled"
    BY <1>4 DEF Sane, Devices, Modes
  <2> QED
    BY <1>4, <2>2, <2>3, <2>4 DEF Sane
<1> QED
  BY <1>1, <1>2, <1>3, <1>4

\* FINISH stages a complete image, or rejects it.
LEMMA ServeFinishSane ==
  ASSUME Sane(dev), ~Deaf, NEW a \in ServeFinish
  PROVE  /\ Sane(a[2]) /\ a[2].mode = dev.mode /\ a[2].slot = dev.slot
         /\ \/ a[2] = dev /\ (a[1] = "OK" => dev.state = "STAGED" /\ dev.job = "none")
            \/ /\ a[2].state = "STAGED" /\ a[2].pending = "STAGED" /\ a[2].armed /\ a[1] = "OK"
               /\ a[2].job = "none" /\ dev.state = "WRITING"
            \/ /\ a[2].state = "ERROR" /\ a[2].job = "none" /\ a[2].pending = dev.pending
               /\ a[1] = "INVAL"
<1>0. dev \in Devices
  BY DEF Sane
<1>1. \/ a[2] = dev /\ (a[1] = "OK" => dev.state = "STAGED" /\ dev.job = "none")
      \/ /\ a[2] = [dev EXCEPT !.state = "STAGED", !.pending = "STAGED", !.armed = TRUE]
         /\ a[1] = "OK" /\ dev.state = "WRITING" /\ Len(dev.slot) = Chunks /\ dev.job = "none"
      \/ /\ a[2] = [dev EXCEPT !.state = "ERROR"]
         /\ a[1] = "INVAL" /\ dev.state = "WRITING" /\ dev.job = "none"
  BY DEF ServeFinish
<1>2. CASE a[2] = dev /\ (a[1] = "OK" => dev.state = "STAGED" /\ dev.job = "none")
  BY <1>2
<1>3. CASE /\ a[2] = [dev EXCEPT !.state = "STAGED", !.pending = "STAGED", !.armed = TRUE]
           /\ a[1] = "OK" /\ dev.state = "WRITING" /\ Len(dev.slot) = Chunks /\ dev.job = "none"
  <2>1. a[2] \in Devices /\ a[2].armed
    BY <1>0, <1>3, Zenon DEF Devices
  <2>2. /\ a[2].mode = dev.mode /\ a[2].job = dev.job /\ a[2].slot = dev.slot
        /\ a[2].state = "STAGED" /\ a[2].pending = "STAGED"
    BY <1>0, <1>3 DEF Devices
  <2>3. dev.slot # <<>> /\ dev.mode = "polled"
    BY <1>3, OtaAssumption DEF Sane, Devices, Modes
  <2> QED
    BY <1>3, <2>1, <2>2, <2>3 DEF Sane
<1>4. CASE /\ a[2] = [dev EXCEPT !.state = "ERROR"]
           /\ a[1] = "INVAL" /\ dev.state = "WRITING" /\ dev.job = "none"
  BY <1>4 DEF Sane, Devices
<1> QED
  BY <1>1, <1>2, <1>3, <1>4

\* ABORT drops the session and what it has staged.
LEMMA ServeAbortSane ==
  ASSUME Sane(dev), ~Deaf, NEW a \in ServeAbort
  PROVE  /\ Sane(a[2]) /\ a[2].mode = dev.mode /\ a[2].job = "none" /\ a[2].pending # "STAGED"
<1>0. dev \in Devices /\ dev.mode \in Modes
  BY DEF Sane, Devices
<1> DEFINE p == IF dev.pending = "STAGED" THEN "NONE" ELSE dev.pending
<1>1. a[2] = [dev EXCEPT !.job = "none", !.state = "IDLE", !.slot = <<>>, !.armed = FALSE,
                         !.pending = p]
  BY <1>0 DEF ServeAbort, Devices
<1>2. a[2] \in Devices
  <2>1. /\ <<>> \in Seq(Images \X (1..Chunks)) /\ "none" \in Jobs
        /\ p \in {"NONE", "STAGED", "TRIAL"}
    BY <1>0 DEF Jobs, Devices
  <2> HIDE DEF p
  <2> QED
    BY <1>0, <1>1, <2>1, Zenon DEF Devices
<1>3. /\ a[2].mode = dev.mode /\ a[2].job = "none" /\ a[2].state = "IDLE"
      /\ a[2].slot = <<>> /\ a[2].pending = p
  BY <1>0, <1>1 DEF Devices
<1>4. ~a[2].armed
  BY <1>0, <1>1, Zenon DEF Devices
<1> QED
  BY <1>1, <1>2, <1>3, <1>4 DEF Sane

\* PROMOTE swaps if the request of FINISH is still there.
LEMMA ServePromoteSane ==
  ASSUME Sane(dev), ~Deaf, NEW a \in ServePromote
  PROVE  /\ Sane(a[2]) /\ a[1] = "OK"
         /\ dev.armed => a[2].job = "swap"
         /\ ~dev.armed => a[2] = dev
         /\ a[2].mode = dev.mode /\ a[2].slot = dev.slot /\ a[2].pending = dev.pending
         /\ (a[2].armed <=> dev.armed) /\ a[2].runs = dev.runs /\ a[2].state = dev.state
         /\ a[2] = dev \/ a[2].job = "swap"
<1>0. dev \in Devices
  BY DEF Sane
<1>1. CASE ~dev.armed
  BY <1>1 DEF ServePromote
<1>2. CASE dev.armed
  <2>1. a[2] = [dev EXCEPT !.job = "swap"] /\ a[1] = "OK"
    BY <1>2 DEF ServePromote
  <2>2. /\ a[2] \in Devices
        /\ a[2].mode = dev.mode /\ a[2].slot = dev.slot /\ a[2].pending = dev.pending
        /\ a[2].state = dev.state /\ a[2].job = "swap" /\ a[2].runs = dev.runs
    BY <1>0, <2>1 DEF Devices, Jobs
  <2>3. a[2].armed <=> dev.armed
    BY <1>0, <2>1 DEF Devices
  <2> QED
    BY <1>2, <2>1, <2>2, <2>3 DEF Sane
<1> QED
  BY <1>1, <1>2

\* CMD_RESET makes the device reboot.
LEMMA ServeResetSane ==
  ASSUME Sane(dev), ~Deaf, NEW a \in ServeReset
  PROVE  /\ Sane(a[2]) /\ a[2].state = dev.state /\ a[2].slot = dev.slot
         /\ a[2].job = "to_normal"
BY DEF ServeReset, Sane, Devices, Modes, Jobs, Deaf

\* A request is lost, or served, or served and its answer lost.
LEMMA Exchanged ==
  ASSUME NEW served, NEW r \in Exchange(served)
  PROVE  \/ r[1] = "IO" /\ r[2] = dev
         \/ ~Deaf /\ \E a \in served : r[2] = a[2] /\ (r[1] = "IO" \/ r = a)
BY DEF Exchange

\* What the device does by itself: it ends a flush or an erase, boots, swaps,
\* or confirms its new image.
LEMMA DeviceWorks ==
  ASSUME Sane(dev), DeviceJob
  PROVE  /\ Sane(dev')
         /\ \/ /\ dev.job = "flush" /\ dev'.job = "none" /\ dev'.state \in {dev.state, "ERROR"}
               /\ dev'.mode = dev.mode /\ dev'.slot = dev.slot /\ dev'.pending = dev.pending
               /\ dev'.runs = dev.runs
            \/ /\ dev.job = "begin" /\ dev'.job = "none" /\ dev'.mode = dev.mode
               /\ \/ dev'.state = "ERROR" /\ dev'.pending = dev.pending
                  \/ dev'.state = "WRITING" /\ dev'.slot = <<>> /\ dev'.pending = "NONE"
            \/ /\ dev.job \in {"to_polled", "to_normal"} /\ dev'.job = "none"
               /\ dev'.state = "IDLE" /\ dev'.pending = dev.pending
               /\ dev'.mode = IF dev.job = "to_polled" THEN "polled" ELSE "normal"
            \/ /\ dev.job = "swap" /\ dev'.job = "none" /\ dev'.mode = "normal"
               /\ dev'.state = "IDLE" /\ dev'.runs = dev.slot[1][1] /\ dev'.pending = "TRIAL"
            \/ /\ dev.pending = "TRIAL" /\ dev'.pending = "NONE"
               /\ dev'.mode = dev.mode /\ dev'.job = dev.job /\ dev'.state = dev.state
               /\ dev'.slot = dev.slot /\ dev'.runs = dev.runs
<1>0. dev \in Devices
  BY DEF Sane
<1>1. CASE dev.job = "flush" /\ dev' = [dev EXCEPT !.job = "none"]
  BY <1>0, <1>1 DEF Sane, Devices, Jobs
<1>2. CASE dev.job = "flush" /\ dev' = [dev EXCEPT !.job = "none", !.state = "ERROR"]
  BY <1>0, <1>2 DEF Sane, Devices, Jobs
<1>3. CASE /\ dev.job = "begin"
           /\ dev' = [dev EXCEPT !.job = "none", !.state = "WRITING", !.slot = <<>>,
                                 !.pending = "NONE", !.armed = FALSE]
  <2>1. dev' \in Devices
    <3>1. <<>> \in Seq(Images \X (1..Chunks)) /\ "none" \in Jobs
      BY DEF Jobs
    <3> QED
      BY <1>0, <1>3, <3>1, Zenon DEF Devices
  <2>2. /\ dev'.job = "none" /\ dev'.mode = dev.mode /\ dev'.state = "WRITING"
        /\ dev'.slot = <<>> /\ dev'.pending = "NONE"
    BY <1>0, <1>3 DEF Devices
  <2>3. ~dev'.armed
    BY <1>0, <1>3, Zenon DEF Devices
  <2>4. dev.mode # "normal"
    BY <1>3 DEF Sane
  <2> QED
    BY <1>3, <2>1, <2>2, <2>3, <2>4 DEF Sane
<1>4. CASE dev.job = "begin" /\ dev' = [dev EXCEPT !.job = "none", !.state = "ERROR"]
  BY <1>0, <1>4 DEF Sane, Devices, Jobs
<1>5. CASE dev.job = "to_polled" /\ dev' = Booted(dev, "polled")
  BY <1>5, BootedSane DEF Modes
<1>6. CASE dev.job = "to_normal" /\ dev' = Booted(dev, "normal")
  BY <1>6, BootedSane DEF Modes
<1>7. CASE /\ dev.job = "swap"
           /\ dev' = [Booted(dev, "normal") EXCEPT !.pending = "TRIAL", !.runs = dev.slot[1][1]]
  <2>1. dev.slot[1][1] \in Images
    <3>1. dev.slot # <<>> /\ dev.slot \in Seq(Images \X (1..Chunks))
      BY <1>0, <1>7 DEF Sane, Devices
    <3>2. dev.slot[1] \in Images \X (1..Chunks)
      BY <3>1
    <3> QED
      BY <3>2
  <2> DEFINE b == Booted(dev, "normal")
             i == dev.slot[1][1]
  <2>2. /\ Sane(b) /\ b \in Devices /\ b.mode = "normal" /\ b.job = "none" /\ b.state = "IDLE"
        /\ b.slot = <<>> /\ ~b.armed
    BY BootedSane DEF Modes, Sane
  <2>3. dev' = [b EXCEPT !.pending = "TRIAL", !.runs = i] /\ i \in Images
    BY <1>7, <2>1
  <2> HIDE DEF b, i
  <2>4. /\ dev' \in Devices /\ dev'.mode = "normal" /\ dev'.job = "none" /\ dev'.state = "IDLE"
        /\ dev'.slot = <<>> /\ dev'.pending = "TRIAL" /\ dev'.runs = i
    BY <2>2, <2>3 DEF Devices
  <2>5. ~dev'.armed
    BY <2>2, <2>3 DEF Devices
  <2> QED
    BY <1>7, <2>4, <2>5 DEF Sane, i
<1>8. CASE dev.pending = "TRIAL" /\ dev' = [dev EXCEPT !.pending = "NONE"]
  <2>1. /\ dev' \in Devices /\ dev'.mode = dev.mode /\ dev'.job = dev.job
        /\ dev'.state = dev.state /\ dev'.slot = dev.slot /\ dev'.pending = "NONE"
        /\ dev'.runs = dev.runs
    BY <1>0, <1>8 DEF Devices
  <2>2. dev'.armed <=> dev.armed
    BY <1>0, <1>8 DEF Devices
  <2> QED
    BY <1>8, <2>1, <2>2 DEF Sane
<1> QED
  BY <1>1, <1>2, <1>3, <1>4, <1>5, <1>6, <1>7, <1>8, Zenon DEF DeviceJob

-----------------------------------------------------------------------------
(* The host believes in a polled peer only while it has one.               *)

\* The initial state.
LEMMA InitLink == Init => LinkInv
<1> SUFFICES ASSUME Init PROVE LinkInv
  OBVIOUS
<1>1. PICK i \in Images :
        dev = [mode |-> "normal", job |-> "none", state |-> "IDLE", slot |-> <<>>,
               pending |-> "NONE", armed |-> FALSE, runs |-> i]
  BY DEF Init
<1>2. Sane(dev)
  <2>1. dev \in Devices
    <3>1. <<>> \in Seq(Images \X (1..Chunks)) /\ "none" \in Jobs /\ "normal" \in Modes
      BY DEF Jobs, Modes
    <3> QED
      BY <1>1, <3>1, Zenon DEF Devices
  <2>2. /\ dev.mode = "normal" /\ dev.job = "none" /\ dev.state = "IDLE" /\ dev.slot = <<>>
        /\ ~dev.armed
    BY <1>1
  <2> QED
    BY <2>1, <2>2 DEF Sane
<1>3. /\ peer_polled \in BOOLEAN /\ ota_session_active \in BOOLEAN /\ rebooted \in BOOLEAN
      /\ ~peer_polled
  BY Zenon DEF Init
<1>4. PlaceInv
  BY <1>3, OtaAssumption DEF Init, PlaceInv, Calls, Modes, Stream, Ending
<1>5. PeerInv
  BY <1>3 DEF Init, PeerInv
<1> QED
  BY <1>2, <1>4, <1>5 DEF LinkInv

\* The device's own steps.
LEMMA LinkDevice ==
  ASSUME LinkInv, DeviceJob
  PROVE  LinkInv'
<1>1. Sane(dev) /\ UNCHANGED host
  BY DEF LinkInv, DeviceJob
<1>2. Sane(dev')
  BY <1>1, DeviceWorks
<1>3. PlaceInv'
  BY <1>1 DEF LinkInv, PlaceInv, host
<1>4. PeerInv'
  BY <1>1, DeviceWorks DEF LinkInv, PeerInv, Polled, host
<1> QED
  BY <1>2, <1>3, <1>4 DEF LinkInv

\* The calls that only start something send nothing.
Begun ==
  \/ \E i \in Images : StartUpdate(i)
  \/ StartConsoleBegin \/ StartBegin \/ StartAbort \/ StartPromote
  \/ \E m \in {"normal", "polled"} : StartMode(m)

\* They do not touch the device.
LEMMA BegunGoes ==
  ASSUME LinkInv, Begun
  PROVE  /\ UNCHANGED <<dev, peer_polled, rebooted>> /\ pc = "idle" /\ off' = 0
         /\ image' \in Images /\ want' \in Modes /\ ota_session_active' \in BOOLEAN
         /\ \/ call' \in {"update", "console_begin"} /\ pc' = "mode" /\ want' = "polled"
            \/ call' = "mode" /\ pc' = "mode"
            \/ call' = "begin" /\ pc' = "begin"
            \/ call' = "abort" /\ pc' = "abort"
            \/ call' = "promote" /\ pc' = "confirm"
<1>1. image \in Images /\ want \in Modes /\ ota_session_active \in BOOLEAN
  BY DEF LinkInv, PlaceInv
<1>2. ota_session_active' \in BOOLEAN
  BY <1>1, Zenon DEF Begun, StartUpdate, StartConsoleBegin, StartBegin, StartAbort, StartPromote,
     StartMode
<1>3. CASE \E m \in {"normal", "polled"} : StartMode(m)
  BY <1>1, <1>2, <1>3 DEF StartMode, Start, Goto, Modes
<1>4. CASE \/ \E i \in Images : StartUpdate(i)
           \/ StartConsoleBegin \/ StartBegin \/ StartAbort \/ StartPromote
  BY <1>1, <1>2, <1>4
    DEF StartUpdate, StartConsoleBegin, StartBegin, StartAbort, StartPromote, Start, Goto, Modes
<1> QED
  BY <1>3, <1>4 DEF Begun

LEMMA LinkBegun ==
  ASSUME LinkInv, Begun
  PROVE  LinkInv'
<1>1. PlaceInv'
  BY BegunGoes, OtaAssumption DEF LinkInv, PlaceInv, Calls, Modes, Stream, Ending
<1>2. PeerInv'
  BY BegunGoes DEF LinkInv, PeerInv
<1> QED
  BY <1>1, <1>2, BegunGoes DEF LinkInv

\* A reboot that is no part of an update is noted.
LEMMA Noted ==
  ASSUME LinkInv, NoteReboot, UNCHANGED peer_polled,
         \/ dev' = dev \/ dev'.mode = "normal" \/ dev'.job \in {"to_normal", "swap"}
         \/ dev'.mode = dev.mode /\ dev'.job = "none"
  PROVE  /\ rebooted' \in BOOLEAN
         /\ pc # "idle" /\ call = "update" => rebooted' = rebooted
         /\ /\ peer_polled' /\ pc # "mode" /\ ~rebooted'
            /\ pc = "idle" \/ call # "update"
            => Polled(dev')
<1> DEFINE out == pc = "idle" \/ call # "update"
           gone == dev'.mode # dev.mode \/ dev'.job \in {"to_normal", "swap"}
<1>1. rebooted' = (rebooted \/ (out /\ gone))
  BY DEF NoteReboot
<1>2. rebooted \in BOOLEAN
  BY DEF LinkInv, PlaceInv
<1>3. rebooted' \in BOOLEAN
  BY <1>1, Zenon
<1>4. ~out => rebooted' = rebooted
  <2> HIDE DEF out, gone
  <2> QED
    BY <1>1, <1>2
<1>5. ~rebooted' => ~rebooted /\ ~(out /\ gone)
  BY <1>1, Zenon
<1>6. ASSUME peer_polled', pc # "mode", ~rebooted', out PROVE Polled(dev')
  <2>1. ~rebooted /\ ~gone
    BY <1>5, <1>6
  <2>2. Polled(dev)
    BY <1>6, <2>1 DEF LinkInv, PeerInv
  <2> QED
    BY <2>1, <2>2 DEF Polled
<1> QED
  BY <1>3, <1>4, <1>6

\* The resets.
LEMMA ResetGoes ==
  ASSUME LinkInv, HardReset \/ ColdReset \/ SoftReset \/ Recover
  PROVE  /\ pc = "idle" /\ UNCHANGED <<peer_polled, pc, locals, want>> /\ NoteReboot
         /\ call' = "reset" /\ ota_session_active' \in BOOLEAN
         /\ Sane(dev')
         /\ \/ dev' = dev
            \/ dev'.mode = "normal" /\ dev'.job = "none"
            \/ dev'.state = dev.state /\ dev'.slot = dev.slot /\ dev'.job = "to_normal"
<1>0. Sane(dev) /\ ota_session_active \in BOOLEAN
  BY DEF LinkInv, PlaceInv
<1>1. PICK d : Reboot(d) /\ (d = dev \/ d = Reset(dev) \/ d = PowerCycled(dev)
                             \/ \E r \in Exchange(ServeReset) : d = r[2])
  BY Zenon DEF HardReset, ColdReset, SoftReset, Recover
<1>2. ota_session_active' \in BOOLEAN
  BY <1>0, Zenon DEF HardReset, ColdReset, SoftReset, Recover
<1>3. /\ Sane(d)
      /\ \/ d = dev
         \/ d.mode = "normal" /\ d.job = "none"
         \/ d.state = dev.state /\ d.slot = dev.slot /\ d.job = "to_normal"
  BY <1>0, <1>1, ResetSane, Exchanged, ServeResetSane
<1> QED
  BY <1>1, <1>2, <1>3 DEF Reboot

LEMMA LinkReset ==
  ASSUME LinkInv, HardReset \/ ColdReset \/ SoftReset \/ Recover
  PROVE  LinkInv'
<1>1. /\ rebooted' \in BOOLEAN
      /\ peer_polled' /\ ~rebooted' => Polled(dev')
  BY ResetGoes, Noted
<1>2. PlaceInv'
  BY <1>1, ResetGoes DEF LinkInv, PlaceInv, Calls, locals, Stream, Ending
<1>3. PeerInv'
  BY <1>1, ResetGoes DEF PeerInv
<1> QED
  BY <1>2, <1>3, ResetGoes DEF LinkInv

\* A lost frame changes nothing, and what is left to prove of a served one is
\* what its handler does.
LEMMA Served ==
  ASSUME Sane(dev), NEW served, NEW r \in Exchange(served),
         ~Deaf => \A a \in served : Sane(a[2])
  PROVE  Sane(r[2])
BY Exchanged

\* Leaving a call, or the update mode, with an error.
LEMMA FailGoes ==
  ASSUME NEW st, Fail(st)
  PROVE  /\ s' = st
         /\ \/ call \in {"update", "console_begin"} /\ pc' = "mode" /\ want' = "normal"
            \/ call \notin {"update", "console_begin"} /\ pc' = "idle" /\ want' = want
BY DEF Fail, Goto

\* The mode is confirmed by a device that is in it and not about to leave it.
LEMMA ModeAnswer ==
  ASSUME LinkInv, NEW r \in Exchange(ServeMode(want))
  PROVE  /\ Sane(r[2])
         /\ r[2].pending = dev.pending /\ r[2].state = dev.state /\ r[2].slot = dev.slot
         /\ r[1] = want => r[2] = dev /\ dev.mode = want /\ dev.job \in {"none", "flush", "begin"}
<1>1. Sane(dev) /\ want \in Modes
  BY DEF LinkInv, PlaceInv
<1>2. /\ Sane(r[2])
      /\ r[2].pending = dev.pending /\ r[2].state = dev.state /\ r[2].slot = dev.slot
  BY <1>1, Exchanged, ServeModeSane
<1>3. ASSUME r[1] = want
      PROVE  r[2] = dev /\ dev.mode = want /\ dev.job \in {"none", "flush", "begin"}
  <2>1. r[1] # "IO"
    BY <1>1, <1>3 DEF Modes
  <2>2. ~Deaf /\ \E a \in ServeMode(want) : r = a
    BY <2>1, Exchanged
  <2>3. r[1] = dev.mode /\ (dev.mode = want => r[2] = dev)
    BY <1>1, <2>2, ServeModeSane
  <2>4. dev.job \in {"none", "flush", "begin"}
    BY <1>1, <2>2 DEF Sane, Devices, Jobs, Deaf
  <2> QED
    BY <1>3, <2>3, <2>4
<1> QED
  BY <1>2, <1>3

\* cc3501e_ota_update_mode().
LEMMA LinkMode ==
  ASSUME LinkInv, UpdateMode
  PROVE  LinkInv'
<1>0. /\ Sane(dev) /\ pc = "mode" /\ want \in Modes /\ UNCHANGED <<call, locals, want>>
  BY DEF LinkInv, PlaceInv, UpdateMode
<1>1. PICK r \in Exchange(ServeMode(want)) :
        \/ r[1] = want /\ dev' = r[2] /\ ModeConfirmed /\ UNCHANGED s
        \/ r[1] # want /\ dev' = r[2] /\ Again /\ UNCHANGED <<flags, rebooted>>
        \/ r[1] # want /\ waited = MaxPolls /\ ModeGivenUp
  BY DEF UpdateMode
<1>2. /\ Sane(r[2])
      /\ r[1] = want => r[2] = dev /\ dev.mode = want /\ dev.job \in {"none", "flush", "begin"}
  BY ModeAnswer
<1>3. CASE r[1] = want /\ dev' = r[2] /\ ModeConfirmed /\ UNCHANGED s
  <2>1. /\ peer_polled' = (want = "polled") /\ rebooted' = FALSE
        /\ ota_session_active' = (ota_session_active /\ want = "polled")
        /\ pc' = IF want = "polled" /\ call # "mode" THEN "begin" ELSE "idle"
    BY <1>3 DEF ModeConfirmed, SetPeerPolled, Goto
  <2>2. /\ peer_polled' \in BOOLEAN /\ ota_session_active' \in BOOLEAN /\ rebooted' \in BOOLEAN
        /\ peer_polled' => want = "polled"
        /\ ~rebooted'
    BY <2>1, Zenon
  <2>3. PlaceInv'
    BY <1>0, <2>1, <2>2 DEF LinkInv, PlaceInv, locals, Stream, Ending
  <2>4. PeerInv'
    BY <1>2, <1>3, <2>1, <2>2 DEF PeerInv, Polled
  <2> QED
    BY <1>2, <1>3, <2>3, <2>4 DEF LinkInv
<1>4. CASE r[1] # want /\ dev' = r[2] /\ Again /\ UNCHANGED <<flags, rebooted>>
  <2>1. UNCHANGED <<pc, peer_polled, ota_session_active, image, off, rebooted>>
    BY <1>0, <1>4 DEF Again, flags, locals
  <2>2. PlaceInv'
    BY <1>0, <2>1 DEF LinkInv, PlaceInv
  <2>3. PeerInv'
    BY <1>0, <1>2, <1>4, <2>1 DEF LinkInv, PeerInv
  <2> QED
    BY <1>2, <1>4, <2>2, <2>3 DEF LinkInv
<1>5. CASE ModeGivenUp
  <2>1. /\ ~peer_polled' /\ peer_polled' \in BOOLEAN /\ pc' = "idle"
        /\ ota_session_active' \in BOOLEAN /\ rebooted' \in BOOLEAN
    BY <1>5, Zenon DEF ModeGivenUp, SetPeerPolled, Return, Goto
  <2>2. Sane(dev')
    BY <1>0, <1>5, ResetSane DEF ModeGivenUp
  <2>3. PlaceInv'
    BY <1>0, <2>1 DEF LinkInv, PlaceInv, locals, Stream, Ending
  <2>4. PeerInv'
    BY <2>1 DEF PeerInv
  <2> QED
    BY <2>2, <2>3, <2>4 DEF LinkInv
<1> QED
  BY <1>1, <1>3, <1>4, <1>5

\* cc3501e_ota_begin(): BEGIN is sent to a peer believed to be polled.
LEMMA LinkBegin ==
  ASSUME LinkInv, Begin \/ BeginSettle
  PROVE  LinkInv'
<1>0. /\ Sane(dev) /\ UNCHANGED <<flags, call, locals, rebooted>>
      /\ pc \in {"begin", "begin_settle"}
  BY DEF LinkInv, Begin, BeginSettle
<1>1. CASE Begin /\ peer_polled
  <2>1. PICK r \in Exchange(ServeBegin) : dev' = r[2] /\ pc' = "begin_settle" /\ UNCHANGED want
    BY <1>1 DEF Begin, Goto
  <2>2. pc = "begin" /\ (~rebooted => Polled(dev))
    BY <1>1 DEF LinkInv, PeerInv, Begin
  <2>3. Sane(dev') /\ (Polled(dev) => Polled(dev'))
    BY <1>0, <2>1, Exchanged, ServeBeginSane DEF Polled
  <2>4. PlaceInv'
    BY <1>0, <2>1, <2>2 DEF LinkInv, PlaceInv, flags, locals, Stream, Ending
  <2>5. PeerInv'
    BY <1>0, <1>1, <2>1, <2>2, <2>3 DEF LinkInv, PeerInv, flags
  <2> QED
    BY <2>3, <2>4, <2>5 DEF LinkInv
<1>2. CASE Begin /\ ~peer_polled
  <2>1. Fail("NOT_READY") /\ UNCHANGED dev /\ pc = "begin"
    BY <1>2 DEF Begin
  <2>2. PlaceInv'
    BY <1>0, <2>1, FailGoes DEF LinkInv, PlaceInv, flags, locals, Modes, Stream, Ending
  <2>3. PeerInv'
    BY <1>0, <1>2, <2>1, FailGoes DEF LinkInv, PeerInv, flags
  <2> QED
    BY <2>1, <2>2, <2>3 DEF LinkInv
<1>3. CASE BeginSettle
  <2>1. UNCHANGED dev /\ pc = "begin_settle"
    BY <1>3 DEF BeginSettle
  <2>2. \/ /\ dev.state = "WRITING" /\ UNCHANGED want
           /\ pc' = IF call = "update" THEN "write" ELSE "idle"
        \/ \E st : Fail(st)
        \/ UNCHANGED <<pc, want>>
    BY <1>3 DEF BeginSettle, Goto
  <2>3. CASE /\ dev.state = "WRITING" /\ UNCHANGED want
             /\ pc' = IF call = "update" THEN "write" ELSE "idle"
    <3>1. PlaceInv'
      BY <1>0, <2>1, <2>3, OtaAssumption DEF LinkInv, PlaceInv, flags, locals, Stream, Ending
    <3>2. PeerInv'
      BY <1>0, <2>1, <2>3 DEF LinkInv, PeerInv, flags
    <3> QED
      BY <2>1, <3>1, <3>2 DEF LinkInv
  <2>4. CASE \E st : Fail(st)
    <3>1. \/ call \in {"update", "console_begin"} /\ pc' = "mode" /\ want' = "normal"
          \/ call \notin {"update", "console_begin"} /\ pc' = "idle" /\ want' = want
      BY <2>4, FailGoes
    <3>2. PlaceInv'
      BY <1>0, <2>1, <3>1 DEF LinkInv, PlaceInv, flags, locals, Modes, Stream, Ending
    <3>3. PeerInv'
      BY <1>0, <2>1, <3>1 DEF LinkInv, PeerInv, flags
    <3> QED
      BY <2>1, <3>2, <3>3 DEF LinkInv
  <2>5. CASE UNCHANGED <<pc, want>>
    BY <1>0, <2>1, <2>5 DEF LinkInv, PlaceInv, PeerInv, flags, locals
  <2> QED
    BY <2>2, <2>3, <2>4, <2>5
<1> QED
  BY <1>1, <1>2, <1>3

\* The stream.
LEMMA LinkStream ==
  ASSUME LinkInv, Write \/ HoldOff \/ Resync
  PROVE  LinkInv'
<1>0. /\ Sane(dev) /\ UNCHANGED <<flags, call, image, want, rebooted>> /\ pc \in Stream
      /\ call = "update" /\ image \in Images /\ off \in 0..Chunks
  BY DEF LinkInv, PlaceInv, Write, HoldOff, HoldOffThen, Resync, Stream, Ending
<1>1. /\ Sane(dev') /\ dev'.mode = dev.mode
      /\ dev.job \in {"none", "flush", "begin"} => dev'.job \in {"none", "flush", "begin"}
  <2>1. CASE Write
    <3>1. PICK r \in Exchange(ServeWrite(image, off + 1)) : dev' = r[2]
      BY <2>1 DEF Write
    <3>2. off + 1 \in 1..Chunks
      BY <1>0, OtaAssumption DEF LinkInv, PlaceInv
    <3> QED
      BY <1>0, <3>1, <3>2, Exchanged, ServeWriteSane
  <2>2. CASE HoldOff \/ Resync
    BY <1>0, <2>2 DEF HoldOff, HoldOffThen, Resync
  <2> QED
    BY <2>1, <2>2
<1>2. \/ UNCHANGED off /\ pc' \in Stream \cup {"abort"}
      \/ off' = off + 1 /\ pc' = IF off + 1 = Chunks THEN "finish" ELSE "write"
  BY <1>0 DEF Write, HoldOff, HoldOffThen, Resync, FlushOver, StillFlushing, Retry, GiveUp, Advance,
     Goto, Again, Stream
<1>3. PlaceInv'
  BY <1>0, <1>2, OtaAssumption DEF LinkInv, PlaceInv, flags, Stream, Ending
<1>4. PeerInv'
  BY <1>0, <1>1, <1>2 DEF LinkInv, PeerInv, Polled, flags, Stream
<1> QED
  BY <1>1, <1>3, <1>4 DEF LinkInv

\* cc3501e_ota_abort(), also of a session it did not open.
LEMMA LinkAbort ==
  ASSUME LinkInv, Abort
  PROVE  LinkInv'
<1>0. /\ Sane(dev) /\ pc = "abort" /\ call \in {"update", "abort"}
      /\ UNCHANGED <<peer_polled, call, locals>> /\ NoteReboot
  BY DEF LinkInv, PlaceInv, Abort, Stream, Ending
<1>1. PICK r \in Exchange(ServeAbort) :
        \/ r[1] # "OK" /\ Again /\ dev' = r[2] /\ UNCHANGED <<ota_session_active, want>>
        \/ /\ IF r[1] = "OK" THEN dev' = r[2] /\ UNCHANGED ota_session_active
              ELSE PollExit(r[2])
           /\ Goto("mode") /\ want' = "normal" /\ UNCHANGED s
  BY DEF Abort
<1>2. /\ Sane(r[2])
      /\ r[2] = dev \/ (r[2].mode = dev.mode /\ r[2].job = "none")
  BY <1>0, Exchanged, ServeAbortSane
<1>3. CASE r[1] # "OK" /\ Again /\ dev' = r[2] /\ UNCHANGED <<ota_session_active, want>>
  <2>1. /\ rebooted' \in BOOLEAN
        /\ call = "update" => rebooted' = rebooted
        /\ peer_polled' /\ ~rebooted' /\ call # "update" => Polled(dev')
    BY <1>0, <1>2, <1>3, Noted
  <2>2. Polled(dev) => Polled(dev')
    BY <1>2, <1>3 DEF Polled
  <2>3. PlaceInv'
    BY <1>0, <1>3, <2>1 DEF LinkInv, PlaceInv, Again, locals
  <2>4. PeerInv'
    BY <1>0, <1>3, <2>1, <2>2 DEF LinkInv, PeerInv, Again
  <2> QED
    BY <1>2, <1>3, <2>3, <2>4 DEF LinkInv
<1>4. CASE /\ IF r[1] = "OK" THEN dev' = r[2] /\ UNCHANGED ota_session_active
              ELSE PollExit(r[2])
           /\ Goto("mode") /\ want' = "normal" /\ UNCHANGED s
  <2>1. (dev' = r[2] /\ UNCHANGED ota_session_active) \/ PollExit(r[2])
    BY <1>4
  <2>2. Sane(dev')
    BY <1>2, <2>1, ResetSane DEF PollExit
  <2>3. ota_session_active' \in BOOLEAN
    <3>1. ota_session_active \in BOOLEAN
      BY DEF LinkInv, PlaceInv
    <3> QED
      BY <2>1, <3>1, Zenon DEF PollExit
  <2>4. rebooted' \in BOOLEAN
    BY <1>0, <1>2, <2>1, ResetSane, Noted DEF PollExit
  <2>5. PlaceInv'
    BY <1>0, <1>4, <2>3, <2>4 DEF LinkInv, PlaceInv, Goto, locals, Modes, Stream, Ending
  <2>6. PeerInv'
    BY <1>4 DEF PeerInv, Goto
  <2> QED
    BY <2>2, <2>5, <2>6 DEF LinkInv
<1> QED
  BY <1>1, <1>3, <1>4

\* cc3501e_ota_finish().
LEMMA LinkFinish ==
  ASSUME LinkInv, Finish \/ FinishSettle
  PROVE  LinkInv'
<1>0. /\ Sane(dev) /\ pc \in Ending /\ call = "update" /\ UNCHANGED <<call, locals>>
      /\ off = Chunks
  BY DEF LinkInv, PlaceInv, Finish, FinishSettle, FinishSettleElse, Stream, Ending
<1>1. /\ Sane(dev') /\ dev'.mode = dev.mode
      /\ dev.job \in {"none", "flush", "begin"} => dev'.job \in {"none", "flush", "begin"}
  <2>1. CASE Finish
    <3>1. PICK r \in Exchange(ServeFinish) : dev' = r[2]
      BY <2>1 DEF Finish
    <3> QED
      BY <1>0, <3>1, Exchanged, ServeFinishSane
  <2>2. CASE FinishSettle
    BY <1>0, <2>2 DEF FinishSettle, FinishSettleElse
  <2> QED
    BY <2>1, <2>2
<1>2. \/ Finished
      \/ UNCHANGED <<flags, rebooted>> /\ pc' \in Ending /\ UNCHANGED want
      \/ UNCHANGED <<flags, rebooted>> /\ \E st : Fail(st)
  BY <1>0 DEF Finish, FinishSettle, FinishSettleElse, Again, Goto, Ending
<1>3. CASE Finished
  <2>1. /\ peer_polled' \in BOOLEAN /\ ~peer_polled' /\ ota_session_active' \in BOOLEAN
        /\ rebooted' \in BOOLEAN /\ ~rebooted' /\ pc' = "confirm" /\ want' = want
    BY <1>3, Zenon DEF Finished, SetPeerPolled, Goto
  <2>2. PlaceInv'
    BY <1>0, <2>1 DEF LinkInv, PlaceInv, locals, Stream, Ending
  <2>3. PeerInv'
    BY <2>1 DEF PeerInv
  <2> QED
    BY <1>1, <2>2, <2>3 DEF LinkInv
<1>4. CASE UNCHANGED <<flags, rebooted>> /\ pc' \in Ending /\ UNCHANGED want
  <2>1. PlaceInv'
    BY <1>0, <1>4 DEF LinkInv, PlaceInv, flags, locals, Stream, Ending
  <2>2. PeerInv'
    BY <1>0, <1>1, <1>4 DEF LinkInv, PeerInv, Polled, flags, Ending
  <2> QED
    BY <1>1, <2>1, <2>2 DEF LinkInv
<1>5. CASE UNCHANGED <<flags, rebooted>> /\ \E st : Fail(st)
  <2>1. pc' = "mode" /\ want' = "normal"
    BY <1>0, <1>5, FailGoes
  <2>2. PlaceInv'
    BY <1>0, <1>5, <2>1 DEF LinkInv, PlaceInv, flags, locals, Stream, Ending, Modes
  <2>3. PeerInv'
    BY <1>0, <1>1, <1>5, <2>1 DEF LinkInv, PeerInv, flags
  <2> QED
    BY <1>1, <2>2, <2>3 DEF LinkInv
<1> QED
  BY <1>2, <1>3, <1>4, <1>5

\* cc3501e_ota_promote(), also behind the back of a polled session.
LEMMA LinkPromote ==
  ASSUME LinkInv, Confirm \/ Promote
  PROVE  LinkInv'
<1>0. /\ Sane(dev) /\ pc \in {"confirm", "promote"} /\ call \in {"update", "promote"}
      /\ UNCHANGED <<peer_polled, call, locals, want>> /\ NoteReboot
  BY DEF LinkInv, PlaceInv, Confirm, Promote, PromoteElse, Stream, Ending
<1>1. pc' \in {"idle", "promote", pc}
  BY DEF Confirm, Promote, PromoteElse, Return, Goto, Again
<1>2. ota_session_active' \in BOOLEAN
  BY Zenon DEF LinkInv, PlaceInv, Confirm, Promote, PromoteElse, PollExit
<1>3. /\ Sane(dev')
      /\ dev' = dev \/ dev'.mode = "normal" \/ dev'.job = "swap"
  <2>1. CASE Confirm
    <3>1. UNCHANGED dev \/ PollExit(dev)
      BY <2>1 DEF Confirm
    <3> QED
      BY <1>0, <3>1, ResetSane DEF PollExit
  <2>2. CASE Promote
    <3>1. PICK r \in Exchange(ServePromote) : dev' = r[2] \/ PollExit(r[2])
      BY <2>2 DEF Promote, PromoteElse
    <3>2. Sane(r[2]) /\ (r[2] = dev \/ r[2].job = "swap")
      BY <1>0, Exchanged, ServePromoteSane
    <3> QED
      BY <3>1, <3>2, ResetSane DEF PollExit
  <2> QED
    BY <2>1, <2>2
<1>4. /\ rebooted' \in BOOLEAN
      /\ call = "update" => rebooted' = rebooted
      /\ peer_polled' /\ ~rebooted' /\ call # "update" => Polled(dev')
  BY <1>0, <1>3, Noted
<1>5. PlaceInv'
  BY <1>0, <1>1, <1>2, <1>4 DEF LinkInv, PlaceInv, locals, Stream, Ending
<1>6. PeerInv'
  BY <1>0, <1>1, <1>4 DEF LinkInv, PeerInv
<1> QED
  BY <1>3, <1>5, <1>6 DEF LinkInv

\* LinkInv is inductive.
LEMMA LinkStep == LinkInv /\ [Next]_vars => LinkInv'
<1> SUFFICES ASSUME LinkInv, [Next]_vars PROVE LinkInv'
  OBVIOUS
<1>1. CASE UNCHANGED vars
  BY <1>1 DEF LinkInv, PlaceInv, PeerInv, vars, host
<1> QED
  BY <1>1, LinkDevice, LinkBegun, LinkReset, LinkMode, LinkBegin, LinkStream, LinkAbort,
     LinkFinish, LinkPromote DEF Next, Step, Call, Begun

\* Only BEGIN wedges a device, and only one that was rebooted.
LEMMA WedgeStep ==
  ASSUME LinkInv, Next, dev.job # "wedged", dev'.job = "wedged"
  PROVE  call = "begin" /\ rebooted
<1>0. Sane(dev)
  BY DEF LinkInv
<1>1. ~DeviceJob
  BY <1>0, DeviceWorks
<1>2. ~Begun
  BY BegunGoes
<1>3. ~(HardReset \/ ColdReset \/ SoftReset \/ Recover)
  BY ResetGoes
<1>4. ~UpdateMode
  <2> SUFFICES ASSUME UpdateMode PROVE FALSE
    OBVIOUS
  <2>1. PICK r \in Exchange(ServeMode(want)) : dev' = r[2] \/ ModeGivenUp
    BY DEF UpdateMode
  <2>2. want \in Modes
    BY DEF LinkInv, PlaceInv
  <2>3. r[2].job # "wedged"
    BY <1>0, <2>2, Exchanged DEF ServeMode, Sane, Devices
  <2> QED
    BY <1>0, <2>1, <2>3, ResetSane DEF ModeGivenUp
<1>5. ~BeginSettle /\ ~HoldOff /\ ~Resync /\ ~FinishSettle
  BY DEF BeginSettle, HoldOff, HoldOffThen, Resync, FinishSettle, FinishSettleElse
<1>6. ~Write
  <2> SUFFICES ASSUME Write PROVE FALSE
    OBVIOUS
  <2>1. PICK r \in Exchange(ServeWrite(image, off + 1)) : dev' = r[2]
    BY DEF Write
  <2>2. image \in Images /\ off + 1 \in 1..Chunks
    BY OtaAssumption DEF Write, LinkInv, PlaceInv, Stream
  <2> QED
    BY <1>0, <2>1, <2>2, Exchanged, ServeWriteSane
<1>7. ~Finish
  <2> SUFFICES ASSUME Finish PROVE FALSE
    OBVIOUS
  <2>1. PICK r \in Exchange(ServeFinish) : dev' = r[2]
    BY DEF Finish
  <2> QED
    BY <1>0, <2>1, Exchanged, ServeFinishSane
<1>8. ~Abort
  <2> SUFFICES ASSUME Abort PROVE FALSE
    OBVIOUS
  <2>1. PICK r \in Exchange(ServeAbort) : dev' = r[2] \/ PollExit(r[2])
    BY DEF Abort
  <2>2. Sane(r[2]) /\ r[2].job # "wedged"
    BY <1>0, Exchanged, ServeAbortSane
  <2> QED
    BY <2>1, <2>2, ResetSane DEF PollExit
<1>9. ~Confirm
  BY <1>0, ResetSane DEF Confirm, PollExit
<1>10. ~Promote
  <2> SUFFICES ASSUME Promote PROVE FALSE
    OBVIOUS
  <2>1. PICK r \in Exchange(ServePromote) : dev' = r[2] \/ PollExit(r[2])
    BY DEF Promote, PromoteElse
  <2>2. Sane(r[2]) /\ r[2].job # "wedged"
    BY <1>0, Exchanged, ServePromoteSane
  <2> QED
    BY <2>1, <2>2, ResetSane DEF PollExit
<1>11. CASE Begin
  <2>1. peer_polled /\ pc = "begin"
    BY <1>11 DEF Begin
  <2>2. PICK r \in Exchange(ServeBegin) : dev' = r[2]
    BY <1>11, <2>1 DEF Begin
  <2>3. ~Polled(dev)
    BY <1>0, <2>2, Exchanged, ServeBeginSane DEF Polled
  <2> QED
    BY <2>1, <2>3 DEF LinkInv, PeerInv, PlaceInv, Stream, Ending
<1> QED
  BY <1>1, <1>2, <1>3, <1>4, <1>5, <1>6, <1>7, <1>8, <1>9, <1>10, <1>11
    DEF Next, Call, Step, Begun

\* BEGIN never reaches a device on the normal bridge, where its flash calls
\* would not return until the power is cycled, unless it is called on its own
\* after a reset or a promote that the host's belief in a polled peer did not
\* follow: whatever the link loses, in whatever order the entry points and the
\* resets are called, with or without a reset pin, and never from an update.
THEOREM BeginWedgesOnlyAfterReset == Spec => WedgedOnlyAfterReset
<1>1. LinkInv /\ [Next]_vars =>
        [dev.job # "wedged" /\ dev'.job = "wedged" => call = "begin" /\ rebooted]_vars
  BY WedgeStep
<1> QED
  BY <1>1, InitLink, LinkStep, PTL DEF Spec, WedgedOnlyAfterReset

-----------------------------------------------------------------------------
(* An update, with the reset pin wired.                                    *)

\* The initial state: no session.
LEMMA InitUpdate == Init => UpdateInv
<1> SUFFICES ASSUME Init PROVE UpdateInv
  OBVIOUS
<1>1. dev.state = "IDLE"
  BY DEF Init
<1> QED
  BY <1>1 DEF Init, UpdateInv, SlotInv, CursorInv, EndInv, Stream, Ending

\* The device's own steps leave the stream alone or put the session in error.
LEMMA UpdateDevice ==
  ASSUME StreamInv, DeviceJob
  PROVE  UpdateInv'
<1>0. Sane(dev) /\ UNCHANGED <<ota_session_active, pc, call, image, off, want, s>>
  BY DEF StreamInv, LinkInv, DeviceJob, host
<1>1. SlotInv'
  BY <1>0, DeviceWorks DEF StreamInv, UpdateInv, SlotInv, Sane
<1>2. CursorInv'
  <2> SUFFICES ASSUME pc \in Stream \cup Ending
               PROVE  CursorInv'
    BY <1>0 DEF CursorInv
  <2>1. dev.job \in {"none", "flush"} /\ dev.state \in {"WRITING", "ERROR", "STAGED"}
    BY DEF StreamInv, UpdateInv, CursorInv
  <2>2. CASE dev.job = "flush"
    <3>1. /\ dev'.job = "none" /\ dev'.state \in {"WRITING", "ERROR"} /\ dev'.slot = dev.slot
          /\ dev.state = "WRITING"
      BY <1>0, <2>2, DeviceWorks DEF Sane
    <3> QED
      BY <1>0, <3>1 DEF StreamInv, UpdateInv, CursorInv, Stream, Ending
  <2>3. CASE dev.job = "none"
    <3>1. dev.pending = "TRIAL" /\ dev'.job = "none" /\ dev'.state = dev.state
      BY <1>0, <2>3, DeviceWorks
    <3>2. dev.state = "ERROR"
      BY <1>0, <2>1, <3>1 DEF Sane, StreamInv, UpdateInv, CursorInv, Staged, Stream, Ending
    <3> QED
      BY <1>0, <3>1, <3>2 DEF StreamInv, UpdateInv, CursorInv, Stream, Ending
  <2> QED
    BY <2>1, <2>2, <2>3
<1>3. EndInv'
  <2>1. ASSUME call = "update", pc = "confirm" PROVE FALSE
    BY <1>0, <2>1, DeviceWorks DEF StreamInv, UpdateInv, EndInv, Staged
  <2>2. ASSUME call = "update", pc = "promote"
        PROVE  dev'.runs = image /\ dev'.mode = "normal" /\ dev'.job = "none"
    <3>1. CASE Staged /\ dev.job \in {"none", "swap"}
      <4>1. dev.pending = "STAGED" /\ dev.slot[1] = <<image, 1>>
        BY <3>1 DEF Staged
      <4>2. dev'.runs = dev.slot[1][1] /\ dev'.mode = "normal" /\ dev'.job = "none"
        BY <1>0, <3>1, <4>1, DeviceWorks
      <4> QED
        BY <4>1, <4>2
    <3>2. CASE dev.runs = image /\ dev.mode = "normal" /\ dev.job = "none"
      BY <1>0, <3>2, DeviceWorks
    <3> QED
      BY <2>2, <3>1, <3>2 DEF StreamInv, UpdateInv, EndInv
  <2>3. ASSUME Leavable(dev) PROVE Leavable(dev)'
    BY <1>0, <2>3, DeviceWorks DEF Leavable
  <2> QED
    BY <1>0, <2>1, <2>2, <2>3 DEF StreamInv, UpdateInv, EndInv
<1> QED
  BY <1>1, <1>2, <1>3 DEF UpdateInv

\* The entry points and the resets start from a device without a half-written slot.
LEMMA UpdateCall ==
  ASSUME StreamInv, Call
  PROVE  UpdateInv'
<1>0. LinkInv /\ (pc = "idle" /\ dev.state = "WRITING" => dev.slot = <<>>)
  BY DEF StreamInv, UpdateInv, SlotInv, Stream, Ending
<1>1. CASE Begun
  <2>1. SlotInv'
    BY <1>0, <1>1, BegunGoes DEF SlotInv
  <2>2. CursorInv' /\ EndInv'
    BY <1>0, <1>1, BegunGoes DEF CursorInv, EndInv, Stream, Ending
  <2> QED
    BY <2>1, <2>2 DEF UpdateInv
<1>2. CASE HardReset \/ ColdReset \/ SoftReset \/ Recover
  <2>1. dev'.state = "WRITING" => dev'.slot = <<>>
    BY <1>0, <1>2, ResetGoes DEF Sane
  <2> QED
    BY <1>0, <1>2, <2>1, ResetGoes DEF UpdateInv, SlotInv, CursorInv, EndInv, Stream, Ending
<1> QED
  BY <1>1, <1>2 DEF Call, Begun

\* Out of update mode, or reset: nothing is left in the slot.
LEMMA UpdateModeChange ==
  ASSUME StreamInv, HasResetPin, UpdateMode
  PROVE  UpdateInv'
<1>0. /\ LinkInv /\ Sane(dev) /\ pc = "mode" /\ want \in Modes /\ UNCHANGED <<call, locals, want>>
  BY DEF StreamInv, LinkInv, PlaceInv, UpdateMode
<1>1. PICK r \in Exchange(ServeMode(want)) :
        \/ r[1] = want /\ dev' = r[2] /\ ModeConfirmed /\ UNCHANGED s
        \/ r[1] # want /\ dev' = r[2] /\ Again
        \/ r[1] # want /\ waited = MaxPolls /\ ModeGivenUp
  BY DEF UpdateMode
<1>2. /\ r[2].state = dev.state /\ r[2].slot = dev.slot
      /\ r[1] = want => r[2] = dev /\ dev.mode = want /\ dev.job \in {"none", "flush", "begin"}
  BY <1>0, ModeAnswer
<1>3. CASE r[1] = want /\ dev' = r[2] /\ ModeConfirmed /\ UNCHANGED s
  <2>1. CASE want = "polled"
    <3>1. pc' = "begin" \/ (pc' = "idle" /\ call = "mode")
      BY <1>3, <2>1 DEF ModeConfirmed, Goto
    <3> QED
      BY <1>0, <1>2, <1>3, <2>1, <3>1
        DEF StreamInv, UpdateInv, SlotInv, CursorInv, EndInv, Stream, Ending
  <2>2. CASE want = "normal"
    <3>1. pc' = "idle" /\ ~ota_session_active'
      BY <1>3, <2>2 DEF ModeConfirmed, Goto
    <3>2. dev'.mode = "normal" /\ dev'.job = "none" /\ dev'.state = "IDLE"
      BY <1>0, <1>2, <1>3, <2>2 DEF Sane
    <3> QED
      BY <3>1, <3>2 DEF UpdateInv, SlotInv, CursorInv, EndInv, Leavable, Stream, Ending
  <2> QED
    BY <1>0, <2>1, <2>2 DEF Modes
<1>4. CASE r[1] # want /\ dev' = r[2] /\ Again
  BY <1>0, <1>2, <1>4 DEF StreamInv, UpdateInv, SlotInv, CursorInv, EndInv, Again, Stream, Ending
<1>5. CASE ModeGivenUp
  <2>1. pc' = "idle" /\ ~ota_session_active' /\ dev' = Reset(dev)
    BY <1>5 DEF ModeGivenUp, Return, Goto
  <2>2. \/ dev'.mode = "normal" /\ dev'.job \in {"none", "wedged"} /\ dev'.state = "IDLE"
        \/ dev'.job = "swap" /\ dev'.state # "WRITING"
    BY <1>0, <2>1, ResetSane DEF Sane
  <2> QED
    BY <2>1, <2>2 DEF UpdateInv, SlotInv, CursorInv, EndInv, Leavable, Stream, Ending
<1> QED
  BY <1>1, <1>3, <1>4, <1>5

\* A session that settles as WRITING has an empty slot.
LEMMA UpdateBegin ==
  ASSUME StreamInv, Begin \/ BeginSettle
  PROVE  UpdateInv'
<1>0. /\ LinkInv /\ Sane(dev) /\ UNCHANGED <<flags, call, locals>> /\ pc \in {"begin", "begin_settle"}
      /\ dev.state = "WRITING" => dev.slot = <<>>
  BY DEF StreamInv, LinkInv, UpdateInv, SlotInv, Begin, BeginSettle, Stream, Ending
<1>1. CASE Begin /\ peer_polled
  <2>1. PICK r \in Exchange(ServeBegin) : dev' = r[2] /\ pc' = "begin_settle"
    BY <1>1 DEF Begin, Goto
  <2>2. dev'.state = dev.state /\ dev'.slot = dev.slot
    BY <1>0, <2>1, Exchanged, ServeBeginSane
  <2> QED
    BY <1>0, <2>1, <2>2 DEF UpdateInv, SlotInv, CursorInv, EndInv, Stream, Ending
<1>2. ASSUME NEW st, Fail(st), st # "OK", UNCHANGED dev
      PROVE  UpdateInv'
  <2>1. /\ s' = st
        /\ \/ call \in {"update", "console_begin"} /\ pc' = "mode" /\ want' = "normal"
           \/ call \notin {"update", "console_begin"} /\ pc' = "idle" /\ want' = want
    BY <1>2, FailGoes
  <2> QED
    BY <1>0, <1>2, <2>1 DEF UpdateInv, SlotInv, CursorInv, EndInv, Stream, Ending
<1>3. CASE Begin /\ ~peer_polled
  BY <1>2, <1>3 DEF Begin
<1>4. CASE BeginSettle
  <2>1. UNCHANGED dev /\ pc = "begin_settle"
    BY <1>4 DEF BeginSettle
  <2>2. \/ /\ dev.state = "WRITING"
           /\ pc' = IF call = "update" THEN "write" ELSE "idle"
        \/ Fail("IO") \/ (s = "OK" /\ Fail("TIMEOUT")) \/ (s # "OK" /\ Fail(s))
        \/ UNCHANGED <<pc, s, want>>
    BY <1>4 DEF BeginSettle, Goto
  <2>3. CASE /\ dev.state = "WRITING"
             /\ pc' = IF call = "update" THEN "write" ELSE "idle"
    <3>1. dev.slot = <<>> /\ off = 0 /\ (call = "update" => dev.job \in {"none", "flush"})
      BY <1>0, <2>1, <2>3 DEF LinkInv, PeerInv, Polled, PlaceInv, Sane
    <3>2. Len(dev.slot) = 0
      BY <3>1
    <3> QED
      BY <1>0, <2>1, <2>3, <3>1, <3>2
        DEF UpdateInv, SlotInv, CursorInv, EndInv, Stream, Ending, locals
  <2>4. CASE UNCHANGED <<pc, s, want>>
    BY <1>0, <2>1, <2>4 DEF UpdateInv, SlotInv, CursorInv, EndInv, Stream, Ending
  <2> QED
    BY <1>2, <2>1, <2>2, <2>3, <2>4
<1> QED
  BY <1>1, <1>3, <1>4

\* The chunk is in: the cursor of the host follows that of the device.
LEMMA Advanced ==
  ASSUME LinkInv, pc \in Stream, UNCHANGED <<call, image, want>>, Advance,
         dev'.job \in {"none", "flush"}, dev'.state \in {"WRITING", "ERROR"},
         dev'.state = "WRITING" =>
           /\ Len(dev'.slot) = off + 1
           /\ \A k \in 1..Len(dev'.slot) : dev'.slot[k] = <<image, k>>
  PROVE  UpdateInv'
<1>1. pc' \in {"write", "finish"} /\ off' = off + 1
  BY DEF Advance, Goto
<1>2. SlotInv' /\ EndInv'
  BY <1>1 DEF SlotInv, EndInv, Stream, Ending
<1>3. CursorInv'
  BY <1>1 DEF CursorInv, Stream, Ending
<1> QED
  BY <1>2, <1>3 DEF UpdateInv

\* The stream is given up with an error.
LEMMA GivenUp ==
  ASSUME NEW st, st # "OK", pc' = "abort", s' = st
  PROVE  UpdateInv'
BY DEF UpdateInv, SlotInv, CursorInv, EndInv, Stream, Ending

\* One frame adds the chunk the host is at, or none.
LEMMA UpdateWrite ==
  ASSUME StreamInv, Write
  PROVE  UpdateInv'
<1>0. /\ LinkInv /\ Sane(dev) /\ pc = "write" /\ UNCHANGED <<flags, call, image, want>>
      /\ image \in Images /\ off \in 0..Chunks /\ off < Chunks /\ call = "update"
  BY DEF StreamInv, LinkInv, PlaceInv, Write, Stream, Ending
<1>1. /\ dev.job \in {"none", "flush"} /\ dev.state \in {"WRITING", "ERROR"}
      /\ dev.state = "WRITING" =>
           /\ Len(dev.slot) = off
           /\ \A k \in 1..Len(dev.slot) : dev.slot[k] = <<image, k>>
  BY <1>0 DEF StreamInv, UpdateInv, CursorInv, Stream
<1>2. PICK r \in Exchange(ServeWrite(image, off + 1)) :
        /\ dev' = r[2]
        /\ \/ r[1] = "OK" /\ Advance
           \/ r[1] \in {"BUSY", "IO"} /\ Goto("holdoff") /\ UNCHANGED <<off, stall, s>>
           \/ /\ r[1] \notin {"OK", "BUSY", "IO"} /\ Goto("resync")
              /\ s' = r[1] /\ UNCHANGED <<off, stall>>
  BY DEF Write
<1> DEFINE landed == /\ dev'.job = "none" /\ dev'.slot = Append(dev.slot, <<image, off + 1>>)
                     /\ dev.state = "WRITING"
           same == dev' = dev
           flushes == dev'.slot = dev.slot /\ dev'.job = "flush" /\ dev.state = "WRITING"
<1>3. /\ dev'.state = dev.state
      /\ \/ same /\ r[1] # "OK"
         \/ flushes /\ r[1] # "OK"
         \/ landed /\ r[1] \in {"OK", "IO"}
  <2>1. off + 1 \in 1..Chunks
    BY <1>0, OtaAssumption
  <2>2. \/ r[1] = "IO" /\ r[2] = dev
        \/ ~Deaf /\ \E a \in ServeWrite(image, off + 1) : r[2] = a[2] /\ (r[1] = "IO" \/ r = a)
    BY Exchanged
  <2>3. CASE r[1] = "IO" /\ r[2] = dev
    BY <1>2, <2>3
  <2>4. ASSUME ~Deaf, NEW a \in ServeWrite(image, off + 1), r[2] = a[2], r[1] = "IO" \/ r = a
        PROVE  /\ dev'.state = dev.state
               /\ \/ same /\ r[1] # "OK"
                  \/ flushes /\ r[1] # "OK"
                  \/ landed /\ r[1] \in {"OK", "IO"}
    <3>1. /\ a[2].state = dev.state
          /\ \/ a[2] = dev /\ a[1] # "OK"
             \/ /\ a[2].slot = dev.slot /\ a[2].job = "flush" /\ a[1] = "BUSY"
                /\ dev.state = "WRITING"
             \/ /\ a[2].slot = Append(dev.slot, <<image, off + 1>>) /\ a[2].job = "none"
                /\ a[1] = "OK" /\ dev.state = "WRITING"
      BY <1>0, <2>1, <2>4, ServeWriteSane
    <3>2. dev' = a[2] /\ (r[1] = "IO" \/ r[1] = a[1])
      BY <1>2, <2>4
    <3> QED
      BY <3>1, <3>2
  <2> QED
    BY <2>2, <2>3, <2>4
<1>4. ASSUME landed
      PROVE  /\ Len(dev'.slot) = off + 1
             /\ \A k \in 1..Len(dev'.slot) : dev'.slot[k] = <<image, k>>
  <2> DEFINE sl == dev.slot
             c == <<image, off + 1>>
  <2>1. sl \in Seq(Images \X (1..Chunks)) /\ dev'.slot = Append(sl, c)
    BY <1>0, <1>4 DEF Sane, Devices
  <2>2. Len(sl) = off /\ (\A k \in 1..off : sl[k] = <<image, k>>) /\ off \in Nat
    BY <1>0, <1>1, <1>4, OtaAssumption
  <2>3. Len(dev'.slot) = off + 1
    BY <2>1, <2>2
  <2>4. ASSUME NEW k \in 1..(off + 1) PROVE dev'.slot[k] = <<image, k>>
    <3>1. CASE k = off + 1
      BY <2>1, <2>2, <3>1
    <3>2. CASE k \in 1..off
      BY <2>1, <2>2, <3>2
    <3> QED
      BY <2>2, <3>1, <3>2
  <2> QED
    BY <2>3, <2>4
<1>5. dev'.job \in {"none", "flush"}
  BY <1>1, <1>3
<1>6. CASE r[1] = "OK" /\ Advance
  <2>1. landed
    BY <1>3, <1>6
  <2> HIDE DEF landed
  <2> QED
    BY <1>0, <1>1, <1>3, <1>4, <1>5, <1>6, <2>1, Advanced DEF Stream
<1>7. ASSUME pc' \in {"holdoff", "resync"}, pc' = "resync" => s' # "OK", UNCHANGED off
      PROVE  UpdateInv'
  <2>1. SlotInv' /\ EndInv'
    BY <1>7 DEF SlotInv, EndInv, Stream, Ending
  <2>2. dev'.state = "WRITING" =>
          /\ Len(dev'.slot) = off \/ Len(dev'.slot) = off + 1
          /\ \A k \in 1..Len(dev'.slot) : dev'.slot[k] = <<image, k>>
    <3> HIDE DEF landed
    <3> QED
      BY <1>1, <1>3, <1>4
  <2>3. CursorInv'
    BY <1>0, <1>1, <1>3, <1>5, <1>7, <2>2 DEF CursorInv, Stream, Ending
  <2> QED
    BY <2>1, <2>3 DEF UpdateInv
<1> QED
  BY <1>2, <1>6, <1>7 DEF Goto

\* The host goes on only from the cursor of the device.
LEMMA UpdateHold ==
  ASSUME StreamInv, HoldOff \/ Resync
  PROVE  UpdateInv'
<1>0. /\ LinkInv /\ Sane(dev) /\ pc \in {"holdoff", "resync"}
      /\ UNCHANGED <<dev, flags, call, image, want>>
      /\ image \in Images /\ off \in 0..Chunks /\ off < Chunks /\ call = "update"
      /\ pc = "resync" => s # "OK"
  BY DEF StreamInv, LinkInv, PlaceInv, UpdateInv, EndInv, HoldOff, HoldOffThen, Resync,
         Stream, Ending
<1>1. /\ dev.job \in {"none", "flush"} /\ dev.state \in {"WRITING", "ERROR"}
      /\ dev.state = "WRITING" =>
           /\ Len(dev.slot) = off \/ Len(dev.slot) = off + 1
           /\ \A k \in 1..Len(dev.slot) : dev.slot[k] = <<image, k>>
  BY <1>0 DEF StreamInv, UpdateInv, CursorInv, Stream
<1>2. off \in Nat
  BY <1>0, OtaAssumption
<1>3. \/ Advance /\ dev.state = "WRITING" /\ Len(dev.slot) = off + 1
      \/ /\ pc' = "write" /\ UNCHANGED <<off, s>>
         /\ dev.state = "WRITING" /\ Len(dev.slot) = off
      \/ pc' = "abort" /\ s' # "OK"
      \/ UNCHANGED <<pc, s, off>>
  <2>1. CASE HoldOff
    <3>1. CASE FlushOver
      BY <1>1, <1>2, <3>1 DEF FlushOver, Retry, GiveUp, Goto
    <3>2. CASE StillFlushing
      BY <3>2 DEF StillFlushing, Again, Goto
    <3> QED
      BY <2>1, <3>1, <3>2 DEF HoldOff, HoldOffThen
  <2>2. CASE Resync
    BY <1>0, <2>2 DEF Resync, GiveUp, Goto
  <2> QED
    BY <2>1, <2>2
<1>4. CASE Advance /\ dev.state = "WRITING" /\ Len(dev.slot) = off + 1
  BY <1>0, <1>1, <1>4, Advanced DEF Stream
<1>5. CASE /\ pc' = "write" /\ UNCHANGED <<off, s>>
           /\ dev.state = "WRITING" /\ Len(dev.slot) = off
  BY <1>0, <1>1, <1>5 DEF UpdateInv, SlotInv, CursorInv, EndInv, Stream, Ending
<1>6. CASE pc' = "abort" /\ s' # "OK"
  BY <1>6, GivenUp
<1>7. CASE UNCHANGED <<pc, s, off>>
  BY <1>0, <1>1, <1>7 DEF UpdateInv, SlotInv, CursorInv, EndInv, Stream, Ending
<1> QED
  BY <1>3, <1>4, <1>5, <1>6, <1>7

\* An abort leads out of update mode.
LEMMA UpdateAbort ==
  ASSUME StreamInv, Abort
  PROVE  UpdateInv'
<1>1. /\ pc = "abort" /\ UNCHANGED <<s, call>>
      /\ pc' = "abort" \/ (pc' = "mode" /\ want' = "normal")
  BY DEF Abort, Again, Goto
<1>2. call = "update" => s # "OK"
  BY <1>1 DEF StreamInv, UpdateInv, EndInv
<1> QED
  BY <1>1, <1>2 DEF UpdateInv, SlotInv, CursorInv, EndInv, Stream, Ending

\* FINISH stages this image, or leaves a session that is settled as failed.
LEMMA UpdateFinish ==
  ASSUME StreamInv, Finish
  PROVE  UpdateInv'
<1>0. /\ LinkInv /\ Sane(dev) /\ pc = "finish" /\ UNCHANGED <<call, image, off>>
      /\ off = Chunks /\ call = "update"
  BY DEF StreamInv, LinkInv, PlaceInv, Finish, Stream, Ending, locals
<1>1. /\ dev.job \in {"none", "flush"} /\ dev.state \in {"WRITING", "ERROR", "STAGED"}
      /\ dev.state = "WRITING" =>
           /\ Len(dev.slot) = off
           /\ \A k \in 1..Len(dev.slot) : dev.slot[k] = <<image, k>>
      /\ dev.state = "STAGED" => Staged /\ dev.job = "none"
  BY <1>0 DEF StreamInv, UpdateInv, CursorInv, Stream, Ending
<1>2. dev.state = "WRITING" => dev.slot[1] = <<image, 1>>
  BY <1>0, <1>1, OtaAssumption
<1>3. PICK r \in Exchange(ServeFinish) :
        /\ dev' = r[2]
        /\ \/ r[1] = "OK" /\ Finished
           \/ r[1] \in {"BUSY", "IO"} /\ Again /\ UNCHANGED <<flags, want>>
           \/ /\ r[1] = "INVAL" \/ (r[1] \in {"BUSY", "IO"} /\ waited = MaxPolls)
              /\ Goto("finish_settle") /\ s' = (IF r[1] = "INVAL" THEN "INVAL" ELSE "TIMEOUT")
              /\ UNCHANGED <<flags, want>>
  BY DEF Finish
<1> DEFINE same == dev' = dev
           staged == /\ dev'.state = "STAGED" /\ dev'.pending = "STAGED" /\ dev'.armed
                     /\ dev'.job = "none" /\ dev'.slot = dev.slot /\ dev.state = "WRITING"
           rejected == dev'.state = "ERROR" /\ dev'.job = "none" /\ r[1] # "OK"
<1>4. \/ same /\ (r[1] = "OK" => dev.state = "STAGED" /\ dev.job = "none")
      \/ staged
      \/ rejected
  <2>1. \/ r[1] = "IO" /\ r[2] = dev
        \/ ~Deaf /\ \E a \in ServeFinish : r[2] = a[2] /\ (r[1] = "IO" \/ r = a)
    BY Exchanged
  <2>2. CASE r[1] = "IO" /\ r[2] = dev
    BY <1>3, <2>2
  <2>3. ASSUME ~Deaf, NEW a \in ServeFinish, r[2] = a[2], r[1] = "IO" \/ r = a
        PROVE  \/ same /\ (r[1] = "OK" => dev.state = "STAGED" /\ dev.job = "none")
               \/ staged
               \/ rejected
    <3>1. /\ a[2].slot = dev.slot
          /\ \/ a[2] = dev /\ (a[1] = "OK" => dev.state = "STAGED" /\ dev.job = "none")
             \/ /\ a[2].state = "STAGED" /\ a[2].pending = "STAGED" /\ a[2].armed /\ a[1] = "OK"
                /\ a[2].job = "none" /\ dev.state = "WRITING"
             \/ a[2].state = "ERROR" /\ a[2].job = "none" /\ a[1] = "INVAL"
      BY <1>0, <2>3, ServeFinishSane
    <3>2. dev' = a[2] /\ (r[1] = "IO" \/ r[1] = a[1])
      BY <1>3, <2>3
    <3> QED
      BY <3>1, <3>2
  <2> QED
    BY <2>1, <2>2, <2>3
<1>5. ASSUME staged PROVE Staged'
  BY <1>0, <1>2, <1>5 DEF Staged
<1>6. ASSUME same PROVE Staged' = Staged
  BY <1>0, <1>6 DEF Staged
<1>7. CASE r[1] = "OK" /\ Finished
  <2>1. pc' = "confirm" /\ ~ota_session_active' /\ s' = "OK"
    BY <1>7 DEF Finished, Goto
  <2>2. Staged' /\ dev'.job = "none" /\ dev'.state = "STAGED"
    <3>1. CASE same /\ dev.state = "STAGED" /\ dev.job = "none"
      BY <1>1, <1>6, <3>1
    <3>2. CASE staged
      BY <1>5, <3>2
    <3> QED
      BY <1>4, <1>7, <3>1, <3>2
  <2> QED
    BY <2>1, <2>2 DEF UpdateInv, SlotInv, CursorInv, EndInv, Stream, Ending
<1>8. ASSUME pc' \in Ending, pc' = "finish_settle" => s' # "OK"
      PROVE  UpdateInv'
  <2>1. SlotInv' /\ EndInv'
    BY <1>8 DEF SlotInv, EndInv, Stream, Ending
  <2>2. CASE same
    BY <1>0, <1>1, <1>6, <1>8, <2>1, <2>2 DEF UpdateInv, CursorInv, Stream, Ending
  <2>3. CASE staged
    BY <1>0, <1>5, <1>8, <2>1, <2>3 DEF UpdateInv, CursorInv, Stream, Ending
  <2>4. CASE rejected
    BY <1>8, <2>1, <2>4 DEF UpdateInv, CursorInv, Stream, Ending
  <2> QED
    BY <1>4, <2>2, <2>3, <2>4
<1>9. CASE Again
  BY <1>0, <1>8, <1>9 DEF Again, Ending
<1>10. CASE Goto("finish_settle") /\ s' = (IF r[1] = "INVAL" THEN "INVAL" ELSE "TIMEOUT")
  BY <1>8, <1>10 DEF Goto, Ending
<1> QED
  BY <1>3, <1>7, <1>9, <1>10

\* The settled state decides: staged, or back to the normal bridge.
LEMMA UpdateSettle ==
  ASSUME StreamInv, FinishSettle
  PROVE  UpdateInv'
<1>0. /\ pc = "finish_settle" /\ UNCHANGED <<dev, call, image, off>> /\ call = "update" /\ s # "OK"
  BY DEF StreamInv, LinkInv, PlaceInv, UpdateInv, EndInv, FinishSettle, FinishSettleElse,
         Stream, Ending, locals
<1>1. \/ dev.state = "STAGED" /\ Finished
      \/ Fail("IO")
      \/ Fail(s)
      \/ UNCHANGED <<pc, s>>
  BY DEF FinishSettle, FinishSettleElse, Again
<1>2. CASE dev.state = "STAGED" /\ Finished
  <2>1. pc' = "confirm" /\ ~ota_session_active' /\ s' = "OK"
    BY <1>2 DEF Finished, Goto
  <2>2. Staged /\ dev.job = "none"
    BY <1>0, <1>2 DEF StreamInv, UpdateInv, CursorInv, Ending
  <2>3. Staged'
    BY <1>0, <2>2 DEF Staged
  <2> QED
    BY <1>0, <1>2, <2>1, <2>2, <2>3 DEF UpdateInv, SlotInv, CursorInv, EndInv, Stream, Ending
<1>3. ASSUME NEW st, Fail(st), st # "OK" PROVE UpdateInv'
  <2>1. pc' = "mode" /\ want' = "normal" /\ s' = st
    BY <1>0, <1>3, FailGoes
  <2> QED
    BY <1>3, <2>1 DEF UpdateInv, SlotInv, CursorInv, EndInv, Stream, Ending
<1>4. CASE UNCHANGED <<pc, s>>
  <2>1. Staged' = Staged
    BY <1>0 DEF Staged
  <2> QED
    BY <1>0, <1>4, <2>1 DEF StreamInv, UpdateInv, SlotInv, CursorInv, EndInv, Stream, Ending
<1> QED
  BY <1>0, <1>1, <1>2, <1>3, <1>4

\* A call that got no answer leaves the device as it is, or resets it.
LEMMA PollExitGoes ==
  ASSUME NEW d, Sane(d), PollExit(d)
  PROVE  /\ ~ota_session_active => ~ota_session_active'
         /\ Leavable(d) => Leavable(dev')
         /\ \/ dev'.state = d.state /\ dev'.slot = d.slot
            \/ dev'.state # "WRITING"
<1>1. CASE dev' = d /\ UNCHANGED ota_session_active
  BY <1>1
<1>2. CASE dev' = Reset(d) /\ ota_session_active' = FALSE
  <2>1. \/ dev' = d
        \/ dev'.mode = "normal" /\ dev'.job = "none" /\ dev'.state = "IDLE"
    BY <1>2, ResetSane DEF Sane
  <2> QED
    BY <1>2, <2>1 DEF Leavable
<1> QED
  BY <1>1, <1>2 DEF PollExit

\* The image is still staged when the store confirms it.
LEMMA UpdateConfirm ==
  ASSUME StreamInv, Confirm
  PROVE  UpdateInv'
<1>0. /\ Sane(dev) /\ pc = "confirm" /\ UNCHANGED <<call, image, want>>
      /\ dev.state = "WRITING" => dev.slot = <<>>
      /\ call = "update" => ~ota_session_active /\ Staged /\ dev.job = "none"
  BY DEF StreamInv, LinkInv, UpdateInv, SlotInv, EndInv, Confirm, Stream, Ending, locals
<1>1. CASE PollExit(dev) /\ Return("TIMEOUT")
  <2>1. pc' = "idle" /\ s' = "TIMEOUT"
    BY <1>1 DEF Return, Goto
  <2>2. /\ ~ota_session_active => ~ota_session_active'
        /\ Leavable(dev) => Leavable(dev')
        /\ \/ dev'.state = dev.state /\ dev'.slot = dev.slot
           \/ dev'.state # "WRITING"
    BY <1>0, <1>1, PollExitGoes
  <2>3. call = "update" => Leavable(dev')
    BY <1>0, <2>2 DEF Leavable, Staged
  <2> QED
    BY <1>0, <2>1, <2>2, <2>3 DEF UpdateInv, SlotInv, CursorInv, EndInv, Leavable, Stream, Ending
<1>2. CASE UNCHANGED <<dev, ota_session_active>> /\ dev.pending = "STAGED" /\ Goto("promote")
  <2>1. pc' = "promote" /\ Staged' = Staged
    BY <1>0, <1>2 DEF Goto, Staged
  <2> QED
    BY <1>0, <1>2, <2>1 DEF UpdateInv, SlotInv, CursorInv, EndInv, Stream, Ending
<1>3. CASE UNCHANGED <<dev, ota_session_active>> /\ dev.pending # "STAGED" /\ pc' = "idle"
  <2>1. call # "update"
    BY <1>0, <1>3 DEF Staged
  <2> QED
    BY <1>0, <1>3, <2>1 DEF UpdateInv, SlotInv, CursorInv, EndInv, Stream, Ending
<1> QED
  BY <1>1, <1>2, <1>3 DEF Confirm, Return, Goto

\* The device an update leaves to PROMOTE: staged, swapping, or swapped.
Promotable(d) ==
  \/ /\ d.state = "STAGED" /\ d.pending = "STAGED" /\ d.armed /\ d.slot[1] = <<image, 1>>
     /\ d.job \in {"none", "swap"}
  \/ d.runs = image /\ d.mode = "normal" /\ d.job = "none"

\* PROMOTE swaps a staged image and does nothing to a swapped one.
LEMMA PromoteServes ==
  ASSUME Sane(dev), NEW r \in Exchange(ServePromote)
  PROVE  /\ Sane(r[2]) /\ r[2].state = dev.state /\ r[2].slot = dev.slot
         /\ Promotable(dev) => Promotable(r[2])
         /\ Promotable(dev) /\ r[1] = "OK" => r[2].job = "swap" \/ r[2].runs = image
<1>1. \/ r[1] = "IO" /\ r[2] = dev
      \/ ~Deaf /\ \E a \in ServePromote : r[2] = a[2]
  BY Exchanged
<1>2. CASE r[1] = "IO" /\ r[2] = dev
  BY <1>2
<1>3. ASSUME ~Deaf, NEW a \in ServePromote, r[2] = a[2]
      PROVE  /\ Sane(r[2]) /\ r[2].state = dev.state /\ r[2].slot = dev.slot
             /\ Promotable(dev) => Promotable(r[2])
             /\ Promotable(dev) => r[2].job = "swap" \/ r[2].runs = image
  <2>1. /\ Sane(a[2])
        /\ dev.armed => a[2].job = "swap"
        /\ ~dev.armed => a[2] = dev
        /\ a[2].mode = dev.mode /\ a[2].slot = dev.slot /\ a[2].pending = dev.pending
        /\ (a[2].armed <=> dev.armed) /\ a[2].runs = dev.runs /\ a[2].state = dev.state
    BY <1>3, ServePromoteSane
  <2>2. ASSUME dev.armed, Promotable(dev)
        PROVE  Promotable(r[2]) /\ r[2].job = "swap"
    <3>1. dev.mode # "normal"
      BY <2>2 DEF Sane
    <3>2. dev.slot[1] = <<image, 1>> /\ dev.pending = "STAGED" /\ dev.state = "STAGED"
      BY <2>2, <3>1 DEF Promotable
    <3> QED
      BY <1>3, <2>1, <2>2, <3>2 DEF Promotable
  <2>3. ASSUME ~dev.armed, Promotable(dev)
        PROVE  Promotable(r[2]) /\ r[2].runs = image
    <3>1. r[2] = dev
      BY <1>3, <2>1, <2>3
    <3> QED
      BY <2>3, <3>1 DEF Promotable
  <2> QED
    BY <1>3, <2>1, <2>2, <2>3
<1> QED
  BY <1>1, <1>2, <1>3

\* PROMOTE, whatever is lost.
LEMMA UpdatePromote ==
  ASSUME StreamInv, Promote
  PROVE  UpdateInv'
<1>0. /\ Sane(dev) /\ pc = "promote" /\ UNCHANGED <<call, image, want>>
      /\ dev.state = "WRITING" => dev.slot = <<>>
      /\ call = "update" => ~ota_session_active /\ Promotable(dev)
  BY DEF StreamInv, LinkInv, UpdateInv, SlotInv, EndInv, Promote, PromoteElse, Stream, Ending,
         locals, Promotable, Staged
<1>1. PICK r \in Exchange(ServePromote) :
        \/ r[1] = "OK" /\ dev' = r[2] /\ ota_session_active' = FALSE /\ Return("OK")
        \/ r[1] = "IO" /\ Again /\ dev' = r[2] /\ UNCHANGED ota_session_active
        \/ r[1] = "IO" /\ waited = MaxPolls /\ PollExit(r[2]) /\ Return("TIMEOUT")
  BY DEF Promote, PromoteElse
<1>2. /\ Sane(r[2]) /\ r[2].state = dev.state /\ r[2].slot = dev.slot
      /\ Promotable(dev) => Promotable(r[2])
  BY <1>0, PromoteServes
<1>3. CASE r[1] = "OK" /\ dev' = r[2] /\ ota_session_active' = FALSE /\ Return("OK")
  BY <1>0, <1>2, <1>3 DEF Return, Goto, UpdateInv, SlotInv, CursorInv, EndInv, Stream, Ending
<1>4. CASE r[1] = "IO" /\ Again /\ dev' = r[2] /\ UNCHANGED ota_session_active
  <2>1. pc' = pc
    BY <1>4 DEF Again
  <2>2. Promotable(r[2]) =>
          \/ Staged' /\ dev'.job \in {"none", "swap"}
          \/ dev'.runs = image /\ dev'.mode = "normal" /\ dev'.job = "none"
    BY <1>0, <1>4 DEF Promotable, Staged
  <2> QED
    BY <1>0, <1>2, <1>4, <2>1, <2>2 DEF UpdateInv, SlotInv, CursorInv, EndInv, Stream, Ending
<1>5. CASE PollExit(r[2]) /\ Return("TIMEOUT")
  <2>1. pc' = "idle" /\ s' = "TIMEOUT"
    BY <1>5 DEF Return, Goto
  <2>2. /\ ~ota_session_active => ~ota_session_active'
        /\ Leavable(r[2]) => Leavable(dev')
        /\ \/ dev'.state = r[2].state /\ dev'.slot = r[2].slot
           \/ dev'.state # "WRITING"
    BY <1>2, <1>5, PollExitGoes
  <2>3. call = "update" => Leavable(dev')
    BY <1>0, <1>2, <2>2 DEF Leavable, Promotable
  <2> QED
    BY <1>0, <1>2, <2>1, <2>2, <2>3
      DEF UpdateInv, SlotInv, CursorInv, EndInv, Leavable, Stream, Ending
<1> QED
  BY <1>1, <1>3, <1>4, <1>5

\* With a reset pin, the whole invariant is inductive.
LEMMA StreamStep ==
  ASSUME HasResetPin
  PROVE  StreamInv /\ [Next]_vars => StreamInv'
<1> SUFFICES ASSUME StreamInv, [Next]_vars PROVE StreamInv'
  OBVIOUS
<1>1. LinkInv'
  BY LinkStep DEF StreamInv
<1>2. CASE UNCHANGED vars
  <2>1. Staged' = Staged
    BY <1>2 DEF Staged, vars, host
  <2> QED
    BY <1>1, <1>2, <2>1
      DEF StreamInv, UpdateInv, SlotInv, CursorInv, EndInv, Leavable, vars, host
<1>3. CASE Next
  <2>1. UpdateInv'
    BY <1>3, UpdateDevice, UpdateCall, UpdateModeChange, UpdateBegin, UpdateWrite, UpdateHold,
       UpdateAbort, UpdateFinish, UpdateSettle, UpdateConfirm, UpdatePromote DEF Next, Step
  <2> QED
    BY <1>1, <2>1 DEF StreamInv
<1> QED
  BY <1>2, <1>3

\* The only way an update returns ALP_OK is the acknowledgement of PROMOTE.
LEMMA SuccessStep ==
  ASSUME StreamInv, Next, pc # "idle", pc' = "idle", call = "update", s' = "OK"
  PROVE  dev'.job = "swap" \/ dev'.runs = image
<1>1. ~DeviceJob /\ ~Call
  BY DEF DeviceJob, host, Call, StartUpdate, StartConsoleBegin, StartBegin, StartAbort,
         StartPromote, StartMode, Start, HardReset, ColdReset, SoftReset, Recover, Reboot
<1>2. ~UpdateMode
  <2> SUFFICES ASSUME UpdateMode PROVE FALSE
    OBVIOUS
  <2>1. pc = "mode" /\ want \in Modes /\ (want = "normal" => s # "OK")
    BY DEF UpdateMode, StreamInv, LinkInv, PlaceInv, UpdateInv, EndInv
  <2>2. PICK r \in Exchange(ServeMode(want)) :
          (ModeConfirmed /\ UNCHANGED s) \/ Again \/ ModeGivenUp
    BY DEF UpdateMode
  <2> QED
    BY <2>1, <2>2 DEF ModeConfirmed, ModeGivenUp, Again, Goto, Return, Modes
<1>3. ~Begin /\ ~BeginSettle
  BY DEF Begin, BeginSettle, Fail, Goto
<1>4. ~Write /\ ~HoldOff /\ ~Resync /\ ~Abort
  BY DEF Write, HoldOff, HoldOffThen, FlushOver, StillFlushing, Retry, Resync, Abort,
         Advance, GiveUp, Again, Goto
<1>5. ~Finish /\ ~FinishSettle
  BY DEF Finish, FinishSettle, FinishSettleElse, Finished, Fail, Again, Goto
<1>6. ~Confirm
  <2> SUFFICES ASSUME Confirm PROVE FALSE
    OBVIOUS
  <2>1. dev.pending = "STAGED"
    BY DEF Confirm, StreamInv, UpdateInv, EndInv, Staged
  <2> QED
    BY <2>1 DEF Confirm, Return, Goto
<1>7. CASE Promote
  <2>0. Sane(dev) /\ Promotable(dev)
    BY <1>7 DEF Promote, PromoteElse, StreamInv, LinkInv, UpdateInv, EndInv, Promotable, Staged
  <2>1. PICK r \in Exchange(ServePromote) : r[1] = "OK" /\ dev' = r[2]
    BY <1>7 DEF Promote, PromoteElse, Again, Return, Goto
  <2> QED
    BY <2>0, <2>1, PromoteServes
<1> QED
  BY <1>1, <1>2, <1>3, <1>4, <1>5, <1>6, <1>7 DEF Next, Step

\* Where the reset pin is wired, the host never believes in a chunk the device
\* does not have, and never merges two images in one slot: not after a lost
\* frame, a lost answer, a flush that failed, or an update given up half way.
THEOREM NoSplicedImage ==
  ASSUME HasResetPin
  PROVE  Spec => []StreamMatchesSlot
<1>1. StreamInv => StreamMatchesSlot
  <2> SUFFICES ASSUME StreamInv, pc \in {"write", "holdoff", "resync", "finish"},
                      dev.state = "WRITING"
               PROVE  /\ off <= Len(dev.slot) /\ Len(dev.slot) <= off + 1
                      /\ \A k \in 1..Len(dev.slot) : dev.slot[k] = <<image, k>>
    BY DEF StreamMatchesSlot
  <2>1. off \in Nat
    BY OtaAssumption DEF StreamInv, LinkInv, PlaceInv
  <2> QED
    BY <2>1 DEF StreamInv, UpdateInv, CursorInv, Stream, Ending
<1>2. Init => StreamInv
  BY InitLink, InitUpdate DEF StreamInv
<1> QED
  BY <1>1, <1>2, StreamStep, PTL DEF Spec

\* Where the reset pin is wired, a failed update leaves the session closed and
\* the device on the normal bridge, swapping, or with this image staged.
THEOREM FailedUpdatesBackOut ==
  ASSUME HasResetPin
  PROVE  Spec => []FailedUpdateBacksOut
<1>1. StreamInv => FailedUpdateBacksOut
  BY DEF StreamInv, UpdateInv, EndInv, Leavable, FailedUpdateBacksOut
<1>2. Init => StreamInv
  BY InitLink, InitUpdate DEF StreamInv
<1> QED
  BY <1>1, <1>2, StreamStep, PTL DEF Spec

\* Where the reset pin is wired, an update that returns ALP_OK leaves the device
\* swapping, or running the image it was given.
THEOREM SuccessIsASwap ==
  ASSUME HasResetPin
  PROVE  Spec => SuccessMeansSwap
<1>1. StreamInv /\ [Next]_vars =>
        [(pc # "idle" /\ pc' = "idle" /\ call = "update" /\ s' = "OK") =>
           dev'.job = "swap" \/ dev'.runs = image]_vars
  BY SuccessStep
<1>2. Init => StreamInv
  BY InitLink, InitUpdate DEF StreamInv
<1> QED
  BY <1>1, <1>2, StreamStep, PTL DEF Spec, SuccessMeansSwap
=============================================================================
