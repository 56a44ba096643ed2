------------------------ MODULE UpdateMailboxProofs -------------------------
(***************************************************************************)
(* The update-log mailbox between the two cores, for any number of calls,  *)
(* resets and places of the log, any width of the sequence numbers larger  *)
(* than the number of calls, and any contents of the words at power-on.    *)
(* Resets fall anywhere and the client may give up at any time.  A client  *)
(* that was seeded with nothing on its way stays within one turn of every  *)
(* number in use, so a new call never shares its number; the owner reads   *)
(* one request at a time, and while it is still to be read nobody writes   *)
(* it unless it is torn.                                                   *)
(***************************************************************************)
EXTENDS UpdateMailbox, TLAPS

-----------------------------------------------------------------------------
\* The owner is at work on a request, and it has still to read the one in REQ.
Busy == Reading \/ Answering
Held == Reading \/ Pending

\* clientSeq is ahead of x by no more than the calls made, counted round the
\* numbers 1..SeqMax.
Within(x) ==
  /\ x # 0 /\ x <= clientSeq => clientSeq - x <= calls
  /\ x # 0 /\ x > clientSeq => clientSeq + SeqMax - x <= calls

\* The owner's work is on the number of the call that waits.
Served == cpc = "wait" /\ lastSeq = clientSeq /\ ~misseeded

\* The reply to the current call is in the slot, or has been taken.
Answered ==
  /\ ~misseeded
  /\ \/ cpc = "take" \/ (cpc = "wait" /\ rspSeq = clientSeq)
     \/ (cpc = "idle" /\ ret.op # "none" /\ ret.rc = "OK")

\* What an answer of the owner's engine says of the log.
Truth(op, rc, val, c) ==
  rc = "OK" =>
    /\ op = "append" => \E i \in 0..(settled - 1) : log[i] = c
    /\ op = "count" => val = settled
    /\ op = "get" => log[val] # None

\* The types, and that a call in progress has a number.
TypeInv ==
  /\ TypeOK
  /\ cpc # "idle" => calls > 0

\* A client that was not misseeded is ahead of every number in use.
NumberInv ==
  /\ cpc # "idle" => ready
  /\ ready => clientSeq # 0
  /\ ready /\ ~misseeded =>
       /\ Within(rspSeq) /\ Within(lastSeq)
       /\ opc \notin {"down", "clear_req"} => Within(reqSeq)

\* The slots as each place of the client leaves them: until it posts, the number
\* of its call is in no other use.
ClientInv ==
  /\ cpc \in {"copy", "post", "wait", "take"} => req.op = cop /\ req.call = calls
  /\ cpc \in {"post", "wait", "take"} /\ cop = "append" => req.entry = calls
  /\ cpc \in {"write", "copy", "post"} /\ ~misseeded =>
       /\ rspSeq # clientSeq /\ lastSeq # clientSeq
       /\ opc \notin {"down", "clear_req"} => reqSeq # clientSeq
  /\ cpc = "wait" => reqSeq = 0 \/ reqSeq = clientSeq
  /\ cpc # "idle" => ret = NoRet

\* The slots as each place of the owner leaves them; once the current call is
\* answered nothing is left to do.
OwnerInv ==
  /\ opc \in {"down", "clear_req", "clear_rsp"} => lastSeq = 0
  /\ opc = "poll" => rspSeq = lastSeq
  /\ Busy => lastSeq # 0
  /\ Busy /\ Served => rspSeq # clientSeq
  /\ Answered => ~Busy /\ ~Pending

\* The log is a list of calls in their order.  A request that is not torn is read
\* once, and its entry is newer than any in the log.
LogInv ==
  /\ \A i \in 0..MaxSeq : i < settled => log[i] # None
  /\ \A i \in 0..MaxSeq : i > settled => log[i] = None
  /\ \A i \in 0..MaxSeq : log[i] \in Calls => log[i] <= calls
  /\ req.entry <= calls
  /\ req.entry # Blank => \A i \in 0..MaxSeq : log[i] \in Calls => log[i] <= req.entry
  /\ cpc \in {"write", "copy"} =>
       req.entry < calls /\ \A i \in 0..MaxSeq : log[i] \in Calls => log[i] < calls
  /\ ~torn /\ cpc = "post" => \A i \in 0..MaxSeq : log[i] \in Calls => log[i] < calls
  /\ ~torn /\ cpc \in {"copy", "post"} => ~Held
  /\ ~torn /\ Reading => ~Pending
  /\ ~torn /\ Held /\ req.op = "append" =>
       req.entry # Blank /\ \A i \in 0..MaxSeq : log[i] \in Calls => log[i] < req.entry
  /\ ~torn /\ opc = "run" => doing = req.op
  /\ opc = "settle" => settled <= MaxSeq /\ doing = "append"
  /\ LogFollowsCalls

\* The owner's work on the number of the call that waits, the reply and what the
\* call returned are for that call.
AnswerInv ==
  /\ Served /\ opc \in {"run", "settle"} => doing = cop /\ serving = calls
  /\ Served /\ opc = "settle" => log[settled] = calls
  /\ Served /\ opc = "reply" => serving = calls /\ Truth(cop, answer.rc, answer.val, calls)
  /\ Served /\ opc = "post" => rsp.for = calls /\ Truth(cop, rsp.rc, rsp.val, calls)
  /\ Answered /\ cpc # "idle" => rsp.for = calls /\ Truth(cop, rsp.rc, rsp.val, calls)
  /\ ReplyIsMine
  /\ AnswerIsTrue

IInv == TypeInv /\ NumberInv /\ ClientInv /\ OwnerInv /\ LogInv /\ AnswerInv

-----------------------------------------------------------------------------
(* Types.                                                                  *)

\* The numbers a call takes are numbers of the mailbox, and never 0.
LEMMA NextSeqType ==
  ASSUME NEW s \in Seqs
  PROVE  NextSeq(s) \in Seqs /\ NextSeq(s) # 0
BY MailboxAssumption DEF NextSeq, Seqs

\* The initial state is well typed.
LEMMA InitTypes == Init => TypeInv
<1> SUFFICES ASSUME Init PROVE TypeInv
  OBVIOUS
<1>1. reqSeq \in Seqs /\ rspSeq \in Seqs
  BY MailboxAssumption DEF Init, Seqs
<1>2. ready \in BOOLEAN /\ logOpen \in BOOLEAN /\ torn \in BOOLEAN /\ misseeded \in BOOLEAN
  BY Zenon DEF Init
<1>3. log \in [0..MaxSeq -> 0..MaxCalls \cup {None}]
  BY DEF Init, Engine!Init, Engine!Places
<1> QED
  BY <1>1, <1>2, <1>3, MailboxAssumption
    DEF Init, TypeInv, TypeOK, Seqs, Ops, EngineOps, Blank, Engine!Init

\* Every step of the client, and its reset, keeps the types.
LEMMA ClientTypes ==
  ASSUME TypeInv,
         \/ \E o \in ClientOps : Begin(o) \/ SenderNotReady(o)
         \/ ClientStep \/ ClientReset
  PROVE  TypeInv'
<1> USE MailboxAssumption DEF TypeInv, TypeOK, sram, client, owner, engine, env
<1>0. ClientOps \subseteq Ops
  BY DEF Ops, EngineOps
<1>1. ASSUME NEW o \in ClientOps, Begin(o) PROVE TypeInv'
  <2>1. Seeded \in Seqs
    BY <1>1 DEF Seeded
  <2>2. clientSeq' \in Seqs
    BY <1>1, <2>1, NextSeqType DEF Begin
  <2>3. ready' \in BOOLEAN /\ torn' \in BOOLEAN /\ misseeded' \in BOOLEAN
    BY <1>1, Zenon DEF Begin, Pending, Reading, Answering
  <2> QED
    BY <1>0, <1>1, <2>2, <2>3 DEF Begin
<1>2. ASSUME NEW o \in ClientOps, SenderNotReady(o) PROVE TypeInv'
  <2>1. ready' \in BOOLEAN
    BY <1>2, Zenon DEF SenderNotReady
  <2>2. /\ UNCHANGED <<sram, clientSeq, cpc, cop, owner, engine, env>>
        /\ cpc = "idle" /\ calls < MaxCalls /\ calls' = calls + 1
    BY <1>2, Zenon DEF SenderNotReady
  <2> QED
    BY <2>1, <2>2
<1>3. CASE WriteOp
  <2>1. torn' \in BOOLEAN /\ misseeded' \in BOOLEAN
    BY <1>3, Zenon DEF WriteOp, Pending, Reading
  <2>2. req' \in [op : Ops \cup {"none"}, call : 0..MaxCalls, entry : 0..MaxCalls]
    BY <1>3 DEF WriteOp
  <2> QED
    BY <1>3, <2>1, <2>2 DEF WriteOp
<1>4. CASE CopyEntry
  <2>1. req' \in [op : Ops \cup {"none"}, call : 0..MaxCalls, entry : 0..MaxCalls]
    BY <1>4 DEF CopyEntry, Blank
  <2> QED
    BY <1>4, <2>1 DEF CopyEntry
<1>5. CASE PostRequest
  BY <1>5 DEF PostRequest
<1>6. CASE SeeReply
  BY <1>6 DEF SeeReply
<1>7. CASE TakeReply
  BY <1>7 DEF TakeReply
<1>8. CASE Timeout
  BY <1>8 DEF Timeout
<1>9. CASE ClientReset
  <2>1. ready' \in BOOLEAN
    BY <1>9, Zenon DEF ClientReset
  <2> QED
    BY <1>9, <2>1 DEF ClientReset, Seqs, Ops
<1> QED
  BY <1>1, <1>2, <1>3, <1>4, <1>5, <1>6, <1>7, <1>8, <1>9 DEF ClientStep

\* Every step of the owner, and its reset, keeps the types.
LEMMA OwnerTypes ==
  ASSUME TypeInv, OwnerStart \/ OwnerStep \/ OwnerReset
  PROVE  TypeInv'
<1> USE MailboxAssumption DEF TypeInv, TypeOK, sram, client, owner, engine, env, OwnerKeeps, Replies
<1>1. CASE OwnerStart
  BY <1>1 DEF OwnerStart
<1>2. CASE ClearRequest
  BY <1>2 DEF ClearRequest, Seqs
<1>3. CASE ClearReply
  BY <1>3 DEF ClearReply, Seqs
<1>4. CASE PickUp
  BY <1>4 DEF PickUp
<1>5. CASE RetryOpen
  BY <1>5 DEF RetryOpen
<1>6. CASE WithoutLog
  BY <1>6 DEF WithoutLog
<1>7. CASE Dispatch
  BY <1>7 DEF Dispatch
<1>8. CASE ServeReady
  BY <1>8 DEF ServeReady, Executes
<1>9. CASE ServeAppend
  <2>1. PICK d \in IF cpc = "copy" THEN {req.entry, Blank} ELSE {req.entry} : Engine!Commit(d)
    BY <1>9 DEF ServeAppend
  <2>2. d \in 0..MaxCalls
    BY DEF Blank
  <2> QED
    BY <1>9, <2>1, <2>2 DEF ServeAppend, Executes, Engine!Commit, Engine!Places
<1>10. CASE FinishAppend
  BY <1>10 DEF FinishAppend, Engine!Settle, Engine!InDoubt, Engine!Places
<1>11. ASSUME NEW o \in EngineOps, EngineRecovers(o) PROVE TypeInv'
  BY <1>11 DEF EngineRecovers, Executes, Engine!Settle, Engine!InDoubt, Engine!Places
<1>12. ASSUME NEW a \in Looks, ServeLook(a) PROVE TypeInv'
  BY <1>12 DEF ServeLook, Executes, Engine!Answer
<1>13. CASE EngineFails
  BY <1>13 DEF EngineFails
<1>14. CASE WriteReply
  BY <1>14 DEF WriteReply
<1>15. CASE PostReply
  BY <1>15 DEF PostReply
<1>16. CASE OwnerReset
  <2>1. logOpen' \in BOOLEAN
    BY <1>16, Zenon DEF OwnerReset
  <2> QED
    BY <1>16, <2>1 DEF OwnerReset, Seqs
<1> QED
  BY <1>1, <1>2, <1>3, <1>4, <1>5, <1>6, <1>7, <1>8, <1>9, <1>10, <1>11, <1>12, <1>13,
     <1>14, <1>15, <1>16 DEF OwnerStep

\* The types are inductive.
LEMMA TypeStep == TypeInv /\ [Next]_vars => TypeInv'
<1> SUFFICES ASSUME TypeInv, [Next]_vars PROVE TypeInv'
  OBVIOUS
<1>1. CASE UNCHANGED vars
  BY <1>1 DEF TypeInv, TypeOK, vars, sram, client, owner, engine, env
<1> QED
  BY <1>1, ClientTypes, OwnerTypes DEF Next

\* Type correctness: sequence numbers never leave the mailbox's words, and the
\* log holds nothing but entries of calls and blanks.
THEOREM TypeCorrect == Spec => []TypeOK
<1>1. TypeInv => TypeOK
  BY DEF TypeInv
<1> QED
  BY <1>1, InitTypes, TypeStep, PTL DEF Spec

-----------------------------------------------------------------------------
(* The mailbox.                                                            *)

\* The initial state: nothing is in the log, and whatever the words of the
\* mailbox hold the owner will clear them before it looks at them.
LEMMA InitInv == Init => IInv
<1> SUFFICES ASSUME Init PROVE IInv
  OBVIOUS
<1>1. TypeInv
  BY InitTypes
<1>2. \A i \in 0..MaxSeq : log[i] = None
  BY DEF Init, Engine!Init, Engine!Places
<1>3. None \notin Calls /\ None # Blank
  BY MailboxAssumption DEF Calls, Blank
<1>4. LogInv
  BY <1>1, <1>2, <1>3, MailboxAssumption
    DEF Init, LogInv, LogFollowsCalls, Held, Pending, Reading, Engine!Init, TypeInv, TypeOK, Blank
<1>5. NumberInv /\ ClientInv /\ OwnerInv
  BY <1>1 DEF Init, NumberInv, ClientInv, OwnerInv, Busy, Served, Answered, Pending, Reading,
              Answering, NoRet
<1>6. AnswerInv
  BY DEF Init, AnswerInv, Served, Answered, ReplyIsMine, Mine, AnswerIsTrue, NoRet
<1> QED
  BY <1>1, <1>4, <1>5, <1>6 DEF IInv

\* Every step of the client, and its reset anywhere, keeps the invariant.
LEMMA ClientKeepsInv ==
  ASSUME IInv, TypeInv',
         (\E o \in ClientOps : Begin(o) \/ SenderNotReady(o)) \/ ClientStep \/ ClientReset
  PROVE  IInv'
<1> USE MailboxAssumption
      DEF IInv, TypeInv, TypeOK, sram, client, owner, engine, env, OwnerKeeps, Replies
<1>1. ASSUME NEW o \in ClientOps, Begin(o) PROVE IInv'
  <2>1. NumberInv'
    BY <1>1
      DEF NumberInv, OwnerInv, Busy, Within, Seqs, Pending, Reading, Answering, Begin, NextSeq,
          Seeded
  <2>2. ClientInv'
    <3>1. /\ calls \in Nat /\ calls < MaxCalls /\ cpc' = "write" /\ ret' = NoRet
          /\ clientSeq' = NextSeq(Seeded) /\ UNCHANGED <<rspSeq, lastSeq, reqSeq, opc>>
          /\ rspSeq \in 0..SeqMax /\ lastSeq \in 0..SeqMax /\ reqSeq \in 0..SeqMax
          /\ clientSeq \in 0..SeqMax /\ (ready => clientSeq # 0)
      BY <1>1 DEF Begin, NumberInv, Seqs
    <3>2. CASE ready /\ ~misseeded
      <4>1. ASSUME NEW x \in 0..SeqMax, Within(x) PROVE NextSeq(clientSeq) # x
        BY <3>1, <3>2, <4>1 DEF Within, NextSeq
      <4>2. /\ rspSeq # clientSeq' /\ lastSeq # clientSeq'
            /\ opc \notin {"down", "clear_req"} => reqSeq # clientSeq'
        BY <3>1, <3>2, <4>1 DEF NumberInv, Seeded
      <4> QED
        BY <3>1, <4>2 DEF ClientInv
    <3>3. CASE ~ready /\ ~misseeded'
      <4>1. NextSeq(rspSeq) # rspSeq /\ NextSeq(rspSeq) # 0
        BY <3>1 DEF NextSeq
      <4>2. ~Pending /\ ~Reading /\ ~Answering
        BY <1>1, <3>3, Zenon DEF Begin
      <4>3. lastSeq = 0 \/ lastSeq = rspSeq
        BY <4>2 DEF OwnerInv, Reading, Answering
      <4> QED
        BY <3>1, <3>3, <4>1, <4>2, <4>3 DEF ClientInv, Seeded, Pending
    <3>4. ready => (misseeded' <=> misseeded)
      BY <1>1, Zenon DEF Begin
    <3> QED
      BY <3>1, <3>2, <3>3, <3>4 DEF ClientInv
  <2>3. OwnerInv'
    BY <1>1
      DEF OwnerInv, Busy, Served, Answered, Pending, Reading, Answering, Begin, NextSeq, Seeded
  <2>4. LogInv'
    BY <1>1
      DEF LogInv, Held, LogFollowsCalls, Calls, Blank, Pending, Reading, Answering, Begin, NextSeq,
          Seeded
  <2>5. AnswerInv'
    BY <1>1
      DEF AnswerInv, Truth, Served, Answered, ReplyIsMine, Mine, AnswerIsTrue, OwnerInv, Busy,
          Served, Answered, ClientInv, NoRet, Pending, Reading, Answering, Begin, NextSeq, Seeded
  <2> QED
    BY <2>1, <2>2, <2>3, <2>4, <2>5
<1>2. ASSUME NEW o \in ClientOps, SenderNotReady(o) PROVE IInv'
  <2>1. NumberInv'
    BY <1>2 DEF NumberInv, Within, SenderNotReady
  <2>2. ClientInv'
    BY <1>2 DEF ClientInv, SenderNotReady
  <2>3. OwnerInv'
    BY <1>2
      DEF OwnerInv, Busy, Served, Answered, ClientInv, NumberInv, NoRet, Seqs, Pending, Reading,
          Answering, SenderNotReady
  <2>4. LogInv'
    <3>1. /\ calls' = calls + 1 /\ cpc = "idle"
          /\ UNCHANGED <<sram, cpc, owner, engine, torn>>
      BY <1>2, Zenon DEF SenderNotReady
    <3> QED
      BY <3>1 DEF LogInv, Held, LogFollowsCalls, Calls, Blank, Pending, Reading
  <2>5. AnswerInv'
    BY <1>2
      DEF AnswerInv, Truth, Served, Answered, ReplyIsMine, Mine, AnswerIsTrue, OwnerInv, Busy,
          Served, Answered, ClientInv, NoRet, Pending, Reading, Answering, SenderNotReady
  <2> QED
    BY <2>1, <2>2, <2>3, <2>4, <2>5
<1>3. CASE WriteOp
  <2>1. NumberInv'
    BY <1>3 DEF NumberInv, Within, WriteOp
  <2>2. ClientInv'
    BY <1>3 DEF ClientInv, WriteOp
  <2>3. OwnerInv'
    BY <1>3 DEF OwnerInv, Busy, Served, Answered, Pending, Reading, Answering, WriteOp
  <2>4. LogInv'
    BY <1>3 DEF LogInv, Held, LogFollowsCalls, Calls, Blank, Pending, Reading, Answering, WriteOp
  <2>5. AnswerInv'
    BY <1>3 DEF AnswerInv, Truth, Served, Answered, ReplyIsMine, Mine, AnswerIsTrue, WriteOp
  <2> QED
    BY <2>1, <2>2, <2>3, <2>4, <2>5
<1>4. CASE CopyEntry
  <2>1. NumberInv'
    BY <1>4 DEF NumberInv, Within, CopyEntry
  <2>2. ClientInv'
    BY <1>4 DEF ClientInv, CopyEntry
  <2>3. OwnerInv'
    BY <1>4 DEF OwnerInv, Busy, Served, Answered, Pending, Reading, Answering, CopyEntry
  <2>4. LogInv'
    BY <1>4 DEF LogInv, Held, LogFollowsCalls, Calls, Blank, Pending, Reading, Answering, CopyEntry
  <2>5. AnswerInv'
    BY <1>4 DEF AnswerInv, Truth, Served, Answered, ReplyIsMine, Mine, AnswerIsTrue, CopyEntry
  <2> QED
    BY <2>1, <2>2, <2>3, <2>4, <2>5
<1>5. CASE PostRequest
  <2>1. NumberInv'
    BY <1>5 DEF NumberInv, Within, Seqs, PostRequest
  <2>2. ClientInv'
    BY <1>5 DEF ClientInv, PostRequest
  <2>3. OwnerInv'
    BY <1>5
      DEF OwnerInv, Busy, Served, Answered, ClientInv, Pending, Reading, Answering, PostRequest
  <2>4. LogInv'
    BY <1>5
      DEF LogInv, Held, LogFollowsCalls, Calls, Blank, ClientInv, Pending, Reading, Answering,
          PostRequest
  <2>5. AnswerInv'
    BY <1>5
      DEF AnswerInv, Truth, Served, Answered, ReplyIsMine, Mine, AnswerIsTrue, ClientInv,
          PostRequest
  <2> QED
    BY <2>1, <2>2, <2>3, <2>4, <2>5
<1>6. CASE SeeReply
  <2>1. NumberInv'
    BY <1>6 DEF NumberInv, Within, SeeReply
  <2>2. ClientInv'
    BY <1>6 DEF ClientInv, SeeReply
  <2>3. OwnerInv'
    BY <1>6 DEF OwnerInv, Busy, Served, Answered, Pending, Reading, Answering, SeeReply
  <2>4. LogInv'
    BY <1>6 DEF LogInv, Held, LogFollowsCalls, Calls, Blank, Pending, Reading, Answering, SeeReply
  <2>5. AnswerInv'
    BY <1>6 DEF AnswerInv, Truth, Served, Answered, ReplyIsMine, Mine, AnswerIsTrue, SeeReply
  <2> QED
    BY <2>1, <2>2, <2>3, <2>4, <2>5
<1>7. CASE TakeReply
  <2>1. NumberInv'
    BY <1>7 DEF NumberInv, Within, TakeReply
  <2>2. ClientInv'
    BY <1>7 DEF ClientInv, TakeReply
  <2>3. OwnerInv'
    BY <1>7 DEF OwnerInv, Busy, Served, Answered, Pending, Reading, Answering, TakeReply
  <2>4. LogInv'
    BY <1>7 DEF LogInv, Held, LogFollowsCalls, Calls, Blank, Pending, Reading, Answering, TakeReply
  <2>5. AnswerInv'
    BY <1>7 DEF AnswerInv, Truth, Served, Answered, ReplyIsMine, Mine, AnswerIsTrue, TakeReply
  <2> QED
    BY <2>1, <2>2, <2>3, <2>4, <2>5
<1>8. CASE Timeout
  <2>1. NumberInv'
    BY <1>8 DEF NumberInv, Within, Timeout
  <2>2. ClientInv'
    BY <1>8 DEF ClientInv, Timeout
  <2>3. OwnerInv'
    BY <1>8 DEF OwnerInv, Busy, Served, Answered, Pending, Reading, Answering, Timeout
  <2>4. LogInv'
    BY <1>8 DEF LogInv, Held, LogFollowsCalls, Calls, Blank, Pending, Reading, Answering, Timeout
  <2>5. AnswerInv'
    BY <1>8 DEF AnswerInv, Truth, Served, Answered, ReplyIsMine, Mine, AnswerIsTrue, Timeout
  <2> QED
    BY <2>1, <2>2, <2>3, <2>4, <2>5
<1>9. CASE ClientReset
  <2>1. NumberInv'
    BY <1>9 DEF NumberInv, Within, ClientReset
  <2>2. ClientInv'
    BY <1>9 DEF ClientInv, ClientReset
  <2>3. OwnerInv'
    BY <1>9
      DEF OwnerInv, Busy, Served, Answered, ClientInv, NumberInv, NoRet, Seqs, Pending, Reading,
          Answering, ClientReset
  <2>4. LogInv'
    BY <1>9
      DEF LogInv, Held, LogFollowsCalls, Calls, Blank, Pending, Reading, Answering, ClientReset
  <2>5. AnswerInv'
    BY <1>9
      DEF AnswerInv, Truth, Served, Answered, ReplyIsMine, Mine, AnswerIsTrue, OwnerInv, Busy,
          Served, Answered, ClientInv, NoRet, Pending, Reading, Answering, ClientReset
  <2> QED
    BY <2>1, <2>2, <2>3, <2>4, <2>5
<1> QED
  BY <1>1, <1>2, <1>3, <1>4, <1>5, <1>6, <1>7, <1>8, <1>9
    DEF ClientStep, OwnerStep

\* Every step of the owner, and its reset anywhere, keeps the invariant.
LEMMA OwnerKeepsInv ==
  ASSUME IInv, TypeInv',
         OwnerStart \/ OwnerStep \/ OwnerReset
  PROVE  IInv'
<1> USE MailboxAssumption
      DEF IInv, TypeInv, TypeOK, sram, client, owner, engine, env, OwnerKeeps, Replies
<1>1. CASE OwnerStart
  <2>1. NumberInv'
    BY <1>1 DEF NumberInv, Within, OwnerStart
  <2>2. ClientInv'
    BY <1>1 DEF ClientInv, OwnerStart
  <2>3. OwnerInv'
    BY <1>1 DEF OwnerInv, Busy, Served, Answered, Pending, Reading, Answering, OwnerStart
  <2>4. LogInv'
    BY <1>1 DEF LogInv, Held, LogFollowsCalls, Calls, Blank, Pending, Reading, Answering, OwnerStart
  <2>5. AnswerInv'
    BY <1>1 DEF AnswerInv, Truth, Served, Answered, ReplyIsMine, Mine, AnswerIsTrue, OwnerStart
  <2> QED
    BY <2>1, <2>2, <2>3, <2>4, <2>5
<1>2. CASE ClearRequest
  <2>1. NumberInv'
    BY <1>2 DEF NumberInv, Within, ClearRequest
  <2>2. ClientInv'
    BY <1>2 DEF ClientInv, NumberInv, ClearRequest
  <2>3. OwnerInv'
    BY <1>2 DEF OwnerInv, Busy, Served, Answered, Pending, Reading, Answering, ClearRequest
  <2>4. LogInv'
    BY <1>2
      DEF LogInv, Held, LogFollowsCalls, Calls, Blank, Pending, Reading, Answering, ClearRequest
  <2>5. AnswerInv'
    BY <1>2 DEF AnswerInv, Truth, Served, Answered, ReplyIsMine, Mine, AnswerIsTrue, ClearRequest
  <2> QED
    BY <2>1, <2>2, <2>3, <2>4, <2>5
<1>3. CASE ClearReply
  <2>1. NumberInv'
    BY <1>3 DEF NumberInv, Within, ClearReply
  <2>2. ClientInv'
    BY <1>3 DEF ClientInv, NumberInv, ClearReply
  <2>3. OwnerInv'
    BY <1>3 DEF OwnerInv, Busy, Served, Answered, ClientInv, Pending, Reading, Answering, ClearReply
  <2>4. LogInv'
    BY <1>3 DEF LogInv, Held, LogFollowsCalls, Calls, Blank, Pending, Reading, Answering, ClearReply
  <2>5. AnswerInv'
    BY <1>3
      DEF AnswerInv, Truth, Served, Answered, ReplyIsMine, Mine, AnswerIsTrue, OwnerInv, Busy,
          Served, Answered, ClientInv, LogInv, NumberInv, NoRet, Pending, Reading, Answering,
          ClearReply
  <2> QED
    BY <2>1, <2>2, <2>3, <2>4, <2>5
<1>4. CASE PickUp
  <2>1. NumberInv'
    BY <1>4 DEF NumberInv, Within, PickUp
  <2>2. ClientInv'
    BY <1>4 DEF ClientInv, PickUp
  <2>3. OwnerInv'
    BY <1>4 DEF OwnerInv, Busy, Served, Answered, Pending, Reading, Answering, PickUp
  <2>4. LogInv'
    BY <1>4 DEF LogInv, Held, LogFollowsCalls, Calls, Blank, Pending, Reading, Answering, PickUp
  <2>5. AnswerInv'
    BY <1>4 DEF AnswerInv, Truth, Served, Answered, ReplyIsMine, Mine, AnswerIsTrue, PickUp
  <2> QED
    BY <2>1, <2>2, <2>3, <2>4, <2>5
<1>5. CASE RetryOpen
  <2>1. NumberInv'
    BY <1>5 DEF NumberInv, Within, RetryOpen
  <2>2. ClientInv'
    BY <1>5 DEF ClientInv, RetryOpen
  <2>3. OwnerInv'
    BY <1>5 DEF OwnerInv, Busy, Served, Answered, Pending, Reading, Answering, RetryOpen
  <2>4. LogInv'
    BY <1>5 DEF LogInv, Held, LogFollowsCalls, Calls, Blank, Pending, Reading, Answering, RetryOpen
  <2>5. AnswerInv'
    BY <1>5 DEF AnswerInv, Truth, Served, Answered, ReplyIsMine, Mine, AnswerIsTrue, RetryOpen
  <2> QED
    BY <2>1, <2>2, <2>3, <2>4, <2>5
<1>6. CASE WithoutLog
  <2>1. NumberInv'
    BY <1>6 DEF NumberInv, Within, WithoutLog
  <2>2. ClientInv'
    BY <1>6 DEF ClientInv, WithoutLog
  <2>3. OwnerInv'
    BY <1>6 DEF OwnerInv, Busy, Served, Answered, Pending, Reading, Answering, WithoutLog
  <2>4. LogInv'
    BY <1>6 DEF LogInv, Held, LogFollowsCalls, Calls, Blank, Pending, Reading, Answering, WithoutLog
  <2>5. AnswerInv'
    BY <1>6
      DEF AnswerInv, Truth, Served, Answered, ReplyIsMine, Mine, AnswerIsTrue, ClientInv, WithoutLog
  <2> QED
    BY <2>1, <2>2, <2>3, <2>4, <2>5
<1>7. CASE Dispatch
  <2>1. NumberInv'
    BY <1>7 DEF NumberInv, Within, Dispatch
  <2>2. ClientInv'
    BY <1>7 DEF ClientInv, Dispatch
  <2>3. OwnerInv'
    BY <1>7 DEF OwnerInv, Busy, Served, Answered, Pending, Reading, Answering, Dispatch
  <2>4. LogInv'
    BY <1>7 DEF LogInv, Held, LogFollowsCalls, Calls, Blank, Pending, Reading, Answering, Dispatch
  <2>5. AnswerInv'
    BY <1>7
      DEF AnswerInv, Truth, Served, Answered, ReplyIsMine, Mine, AnswerIsTrue, ClientInv, Dispatch
  <2> QED
    BY <2>1, <2>2, <2>3, <2>4, <2>5
<1>8. CASE ServeReady
  <2>1. NumberInv'
    BY <1>8 DEF NumberInv, Within, ServeReady, Executes
  <2>2. ClientInv'
    BY <1>8 DEF ClientInv, ServeReady, Executes
  <2>3. OwnerInv'
    BY <1>8 DEF OwnerInv, Busy, Served, Answered, Pending, Reading, Answering, ServeReady, Executes
  <2>4. LogInv'
    BY <1>8
      DEF LogInv, Held, LogFollowsCalls, Calls, Blank, Pending, Reading, Answering, ServeReady,
          Executes
  <2>5. AnswerInv'
    BY <1>8
      DEF AnswerInv, Truth, Served, Answered, ReplyIsMine, Mine, AnswerIsTrue, ServeReady, Executes
  <2> QED
    BY <2>1, <2>2, <2>3, <2>4, <2>5
<1>9. CASE ServeAppend
  <2>1. NumberInv'
    BY <1>9
      DEF NumberInv, Within, ServeAppend, Executes, Engine!Commit, Engine!InDoubt, Engine!Places
  <2>2. ClientInv'
    BY <1>9 DEF ClientInv, ServeAppend, Executes, Engine!Commit, Engine!InDoubt, Engine!Places
  <2>3. OwnerInv'
    BY <1>9
      DEF OwnerInv, Busy, Served, Answered, Pending, Reading, Answering, ServeAppend, Executes,
          Engine!Commit, Engine!InDoubt, Engine!Places
  <2>4. LogInv'
    BY <1>9
      DEF LogInv, Held, LogFollowsCalls, Calls, Blank, Pending, Reading, Answering, ServeAppend,
          Executes, Engine!Commit, Engine!InDoubt, Engine!Places
  <2>5. AnswerInv'
    BY <1>9
      DEF AnswerInv, Truth, Served, Answered, ReplyIsMine, Mine, AnswerIsTrue, ClientInv,
          ServeAppend, Executes, Engine!Commit, Engine!InDoubt, Engine!Places
  <2> QED
    BY <2>1, <2>2, <2>3, <2>4, <2>5
<1>10. CASE FinishAppend
  <2>1. NumberInv'
    BY <1>10 DEF NumberInv, Within, FinishAppend, Engine!Settle, Engine!InDoubt, Engine!Places
  <2>2. ClientInv'
    BY <1>10 DEF ClientInv, FinishAppend, Engine!Settle, Engine!InDoubt, Engine!Places
  <2>3. OwnerInv'
    BY <1>10
      DEF OwnerInv, Busy, Served, Answered, Pending, Reading, Answering, FinishAppend,
          Engine!Settle, Engine!InDoubt, Engine!Places
  <2>4. LogInv'
    BY <1>10
      DEF LogInv, Held, LogFollowsCalls, Calls, Blank, Pending, Reading, Answering, FinishAppend,
          Engine!Settle, Engine!InDoubt, Engine!Places
  <2>5. AnswerInv'
    BY <1>10
      DEF AnswerInv, Truth, Served, Answered, ReplyIsMine, Mine, AnswerIsTrue, OwnerInv, Busy,
          Served, Answered, ClientInv, LogInv, NumberInv, NoRet, Pending, Reading, Answering,
          FinishAppend, Engine!Settle, Engine!InDoubt, Engine!Places
  <2> QED
    BY <2>1, <2>2, <2>3, <2>4, <2>5
<1>11. ASSUME NEW o \in EngineOps, EngineRecovers(o) PROVE IInv'
  <2>1. NumberInv'
    BY <1>11
      DEF NumberInv, Within, EngineRecovers, Executes, Engine!Settle, Engine!InDoubt, Engine!Places
  <2>2. ClientInv'
    BY <1>11 DEF ClientInv, EngineRecovers, Executes, Engine!Settle, Engine!InDoubt, Engine!Places
  <2>3. OwnerInv'
    BY <1>11
      DEF OwnerInv, Busy, Served, Answered, Pending, Reading, Answering, EngineRecovers, Executes,
          Engine!Settle, Engine!InDoubt, Engine!Places
  <2>4. LogInv'
    BY <1>11
      DEF LogInv, Held, LogFollowsCalls, Calls, Blank, Pending, Reading, Answering, EngineRecovers,
          Executes, Engine!Settle, Engine!InDoubt, Engine!Places
  <2>5. AnswerInv'
    BY <1>11
      DEF AnswerInv, Truth, Served, Answered, ReplyIsMine, Mine, AnswerIsTrue, OwnerInv, Busy,
          Served, Answered, ClientInv, NoRet, Pending, Reading, Answering, EngineRecovers, Executes,
          Engine!Settle, Engine!InDoubt, Engine!Places
  <2> QED
    BY <2>1, <2>2, <2>3, <2>4, <2>5
<1>12. ASSUME NEW a \in Looks, ServeLook(a) PROVE IInv'
  <2>1. NumberInv'
    BY <1>12
      DEF NumberInv, Within, ServeLook, Executes, Engine!Answer, Engine!Looked, Engine!InDoubt,
          Engine!Places
  <2>2. ClientInv'
    BY <1>12
      DEF ClientInv, ServeLook, Executes, Engine!Answer, Engine!Looked, Engine!InDoubt,
          Engine!Places
  <2>3. OwnerInv'
    BY <1>12
      DEF OwnerInv, Busy, Served, Answered, Pending, Reading, Answering, ServeLook, Executes,
          Engine!Answer, Engine!Looked, Engine!InDoubt, Engine!Places
  <2>4. LogInv'
    BY <1>12
      DEF LogInv, Held, LogFollowsCalls, Calls, Blank, Pending, Reading, Answering, ServeLook,
          Executes, Engine!Answer, Engine!Looked, Engine!InDoubt, Engine!Places
  <2>5. AnswerInv'
    <3>1. /\ UNCHANGED <<sram, client, log, settled, serving, lastSeq, misseeded>>
          /\ opc = "run" /\ opc' = "reply" /\ answer' = a /\ a.op = doing
      BY <1>12 DEF ServeLook, Executes, Engine!Answer
    <3>2. Truth(a.op, a.rc, a.val, calls)
      <4>1. \/ a = Engine!Silent \/ Engine!Failed(a) \/ Engine!Looked(a)
            \/ Engine!Appended(a) /\ ~Engine!InDoubt
        BY <1>12 DEF ServeLook, Engine!Answer
      <4>2. a.rc = "OK" => a.op # "append"
        BY DEF Looks
      <4> QED
        BY <4>1, <4>2 DEF Truth, Engine!Silent, Engine!Failed, Engine!Looked, Engine!Appended
    <3>3. ~Answered
      BY <3>1 DEF OwnerInv, Busy, Reading
    <3> QED
      BY <3>1, <3>2, <3>3 DEF AnswerInv, Truth, Served, Answered, ReplyIsMine, Mine, AnswerIsTrue
  <2> QED
    BY <2>1, <2>2, <2>3, <2>4, <2>5
<1>13. CASE EngineFails
  <2>1. NumberInv'
    BY <1>13 DEF NumberInv, Within, EngineFails
  <2>2. ClientInv'
    BY <1>13 DEF ClientInv, EngineFails
  <2>3. OwnerInv'
    BY <1>13 DEF OwnerInv, Busy, Served, Answered, Pending, Reading, Answering, EngineFails
  <2>4. LogInv'
    BY <1>13
      DEF LogInv, Held, LogFollowsCalls, Calls, Blank, Pending, Reading, Answering, EngineFails
  <2>5. AnswerInv'
    BY <1>13 DEF AnswerInv, Truth, Served, Answered, ReplyIsMine, Mine, AnswerIsTrue, EngineFails
  <2> QED
    BY <2>1, <2>2, <2>3, <2>4, <2>5
<1>14. CASE WriteReply
  <2>1. NumberInv'
    BY <1>14 DEF NumberInv, Within, WriteReply
  <2>2. ClientInv'
    BY <1>14 DEF ClientInv, WriteReply
  <2>3. OwnerInv'
    BY <1>14 DEF OwnerInv, Busy, Served, Answered, Pending, Reading, Answering, WriteReply
  <2>4. LogInv'
    BY <1>14
      DEF LogInv, Held, LogFollowsCalls, Calls, Blank, Pending, Reading, Answering, WriteReply
  <2>5. AnswerInv'
    BY <1>14
      DEF AnswerInv, Truth, Served, Answered, ReplyIsMine, Mine, AnswerIsTrue, OwnerInv, Busy,
          Served, Answered, ClientInv, Pending, Reading, Answering, WriteReply
  <2> QED
    BY <2>1, <2>2, <2>3, <2>4, <2>5
<1>15. CASE PostReply
  <2>1. NumberInv'
    BY <1>15 DEF NumberInv, Within, PostReply
  <2>2. ClientInv'
    BY <1>15 DEF ClientInv, PostReply
  <2>3. OwnerInv'
    BY <1>15 DEF OwnerInv, Busy, Served, Answered, ClientInv, Pending, Reading, Answering, PostReply
  <2>4. LogInv'
    BY <1>15 DEF LogInv, Held, LogFollowsCalls, Calls, Blank, Pending, Reading, Answering, PostReply
  <2>5. AnswerInv'
    BY <1>15 DEF AnswerInv, Truth, Served, Answered, ReplyIsMine, Mine, AnswerIsTrue, PostReply
  <2> QED
    BY <2>1, <2>2, <2>3, <2>4, <2>5
<1>16. CASE OwnerReset
  <2>1. NumberInv'
    BY <1>16 DEF NumberInv, Within, OwnerReset
  <2>2. ClientInv'
    BY <1>16 DEF ClientInv, NumberInv, OwnerReset
  <2>3. OwnerInv'
    BY <1>16 DEF OwnerInv, Busy, Served, Answered, Pending, Reading, Answering, OwnerReset
  <2>4. LogInv'
    BY <1>16
      DEF LogInv, Held, LogFollowsCalls, Calls, Blank, Pending, Reading, Answering, OwnerReset
  <2>5. AnswerInv'
    BY <1>16 DEF AnswerInv, Truth, Served, Answered, ReplyIsMine, Mine, AnswerIsTrue, OwnerReset
  <2> QED
    BY <2>1, <2>2, <2>3, <2>4, <2>5
<1> QED
  BY <1>1, <1>2, <1>3, <1>4, <1>5, <1>6, <1>7, <1>8, <1>9, <1>10, <1>11, <1>12, <1>13, <1>14, <1>15,
    <1>16
    DEF ClientStep, OwnerStep

\* The invariant is inductive.
LEMMA InvStep == IInv /\ [Next]_vars => IInv'
<1> SUFFICES ASSUME IInv, [Next]_vars PROVE IInv'
  OBVIOUS
<1>1. TypeInv'
  BY TypeStep DEF IInv
<1>2. CASE UNCHANGED vars
  <2> USE <1>2 DEF vars, sram, client, owner, engine, env
  <2>1. NumberInv' /\ ClientInv'
    BY DEF IInv, NumberInv, ClientInv, Within
  <2>2. OwnerInv'
    BY DEF IInv, OwnerInv, Busy, Served, Answered, Pending, Reading, Answering
  <2>3. LogInv'
    BY DEF IInv, LogInv, LogFollowsCalls, Held, Pending, Reading
  <2>4. AnswerInv'
    BY DEF IInv, AnswerInv, Truth, Served, Answered, ReplyIsMine, Mine, AnswerIsTrue
  <2> QED
    BY <1>1, <2>1, <2>2, <2>3, <2>4 DEF IInv
<1> QED
  BY <1>1, <1>2, ClientKeepsInv, OwnerKeepsInv DEF Next

-----------------------------------------------------------------------------
(* What the mailbox promises.                                              *)

\* The log holds the entries in the order of the calls, wherever either core
\* resets and however early the client gives up waiting; an entry is in it twice,
\* or is no call's, only if the client tore a request the owner had still to read.
THEOREM NothingStaleIsReplayed == Spec => []LogFollowsCalls
<1>1. IInv => LogFollowsCalls
  BY DEF IInv, LogInv
<1> QED
  BY <1>1, InitInv, InvStep, PTL DEF Spec

\* client_call() takes the reply to another call for its own only if the client
\* restarted while a request of its former life was still on its way: not where
\* the number wraps, not at power-on, not after a restart of the owner, and not
\* after a timeout.
THEOREM RepliesAreMine == Spec => []ReplyIsMine
<1>1. IInv => ReplyIsMine
  BY DEF IInv, AnswerInv
<1> QED
  BY <1>1, InitInv, InvStep, PTL DEF Spec

\* What append, count and get returned to a client that was not so misled is true
\* of the owner's log until the client calls again, also when the owner resets in
\* between and when earlier calls have timed out.
THEOREM AnswersAreTrue == Spec => []AnswerIsTrue
<1>1. IInv => AnswerIsTrue
  BY DEF IInv, AnswerInv
<1> QED
  BY <1>1, InitInv, InvStep, PTL DEF Spec
=============================================================================
