---------------------------- MODULE UpdateMailbox ----------------------------
(***************************************************************************)
(* The update log across the two M55 cores of an Alif Ensemble             *)
(* (src/backends/update_log/aen_m55_owner.c).  The HP core owns the log;   *)
(* the HE core is its client and reaches it through one request and one    *)
(* reply slot in retained SRAM, each published by writing its payload and  *)
(* then its sequence number.  Either core may reset alone.  The owner's    *)
(* log is the abstract AuditLog that the engine implements.  The model is  *)
(* of the build with the data cache off, where a store is seen at once.    *)
(***************************************************************************)
EXTENDS Naturals

CONSTANTS
  MaxCalls,      \* bound on the client's calls
  ClientOps,     \* the ops the client calls
  MaxSeq,        \* the last place of the owner's log
  SeqMax,        \* the largest mailbox sequence number (2^32 - 1)
  PowerOn,       \* what the sequence words may hold at power-on
  OwnerResets,   \* bounds on the resets of each core
  ClientResets,
  None           \* an empty place of the log

ASSUME MailboxAssumption ==
  /\ MaxCalls \in Nat /\ MaxSeq \in Nat /\ OwnerResets \in Nat /\ ClientResets \in Nat
  /\ SeqMax \in Nat /\ SeqMax > MaxCalls  \* no reuse of a number by wrapping alone
  /\ PowerOn \subseteq 0..SeqMax
  /\ ClientOps \subseteq {"ready", "append", "verify", "count", "get"}
  /\ None \notin 0..MaxCalls

Calls == 1..MaxCalls   \* an append's call stands for the entry it carries
Blank == 0             \* an entry that is no call's: zeroed, or two entries mixed
Seqs == 0..SeqMax
EngineOps == {"append", "verify", "count", "get"}
Ops == EngineOps \cup {"ready"}
Looks ==
  [op : {"count"}, rc : {"OK"}, val : 0..(MaxSeq + 1)]
    \cup [op : {"get"}, rc : {"OK", "NOT_FOUND"}, val : 0..(MaxSeq + 1)]
    \cup {[op |-> "verify", rc |-> "OK", val |-> 0],
          [op |-> "append", rc |-> "NOMEM", val |-> 0]}

VARIABLES
  reqSeq, req, rspSeq, rsp,     \* the two slots in SRAM0
  ready, clientSeq,             \* g_client_mhu_ready, g_client_seq
  cpc, cop,                     \* the client: its next step and the op it calls
  calls,                        \* how many calls it has made; the last one is current
  ret,                          \* what the client's last call returned
  opc, lastSeq, logOpen,        \* the owner: its next step, last_seq (seq too, once they
                                \* are equal), log # NULL
  doing,                        \* the op the owner has dispatched on
  serving,                      \* history: the call whose request it was
  log, settled, answer,         \* the owner's log
  resets,                       \* how often each core has reset
  torn, misseeded               \* history: see WriteOp and Begin

sram == <<reqSeq, req, rspSeq, rsp>>
client == <<ready, clientSeq, cpc, cop, calls, ret>>
owner == <<opc, lastSeq, logOpen, doing, serving>>
engine == <<log, settled, answer>>
env == <<resets, torn, misseeded>>
vars == <<sram, client, owner, engine, env>>

Engine == INSTANCE AuditLog WITH Payloads <- Calls \cup {Blank}

NoRet == [call |-> 0, for |-> 0, op |-> "none", rc |-> "OK", val |-> 0]

Init ==
  /\ reqSeq \in PowerOn /\ rspSeq \in PowerOn
  /\ req = [op |-> "none", call |-> 0, entry |-> Blank]
  /\ rsp = [rc |-> "OK", val |-> 0, for |-> 0]
  /\ ready = FALSE /\ clientSeq = 0
  /\ cpc = "idle" /\ cop = "ready"
  /\ calls = 0 /\ ret = NoRet
  /\ opc = "down" /\ lastSeq = 0 /\ logOpen = FALSE /\ doing = "none" /\ serving = 0
  /\ Engine!Init
  /\ resets = [owner |-> 0, client |-> 0]
  /\ torn = FALSE /\ misseeded = FALSE

-----------------------------------------------------------------------------
(* The client: client_call() and the five ops built on it.                 *)

\* Mutant: the sequence number is wider than the words of the mailbox.
NextSeqWide(s) == s + 1

\* ++g_client_seq in 32 bits, skipping 0.
NextSeq(s) == IF s = SeqMax THEN 1 ELSE s + 1

\* Mutant: a client that has just started begins at 1 whatever SRAM holds.
SeededAtZero == IF ready THEN clientSeq ELSE 0

\* g_client_seq, seeded from the retained reply on the first call.
Seeded == IF ready THEN clientSeq ELSE rspSeq

\* A request the owner will still pick up, and one it still reads or answers.
Pending == opc \notin {"down", "clear_req"} /\ reqSeq \notin {0, lastSeq}
Reading == opc \in {"open", "exec", "run"}
Answering == opc \in {"settle", "reply", "post"}

\* A call begins: the sender is ready and the call takes the next number.  A
\* client that has just started is misseeded when a request of its former life
\* is still on its way: RSP->seq is not yet the last number in use.
Begin(o) ==
  /\ cpc = "idle" /\ calls < MaxCalls
  /\ calls' = calls + 1
  /\ cop' = o
  /\ clientSeq' = NextSeq(Seeded)
  /\ ready' = TRUE
  /\ ret' = NoRet
  /\ cpc' = "write"
  /\ misseeded' = IF ready THEN misseeded ELSE Pending \/ Reading \/ Answering
  /\ UNCHANGED <<sram, owner, engine, resets, torn>>

\* aen_mhu_sender_ready() fails: the call is refused before anything is shared.
SenderNotReady(o) ==
  /\ cpc = "idle" /\ calls < MaxCalls /\ ~ready
  /\ calls' = calls + 1
  /\ ret' = [NoRet EXCEPT !.call = calls + 1, !.op = o, !.rc = "TIMEOUT"]
  /\ UNCHANGED <<sram, ready, clientSeq, cpc, cop, owner, engine, env>>

\* op goes into REQ, whatever the owner is doing with the request that is there.
\* A client that gave up waiting tears it when the owner is still to read it.
WriteOp ==
  /\ cpc = "write"
  /\ req' = [req EXCEPT !.op = cop, !.call = calls]
  /\ torn' = (torn \/ Pending \/ Reading)
  /\ cpc' = "copy"
  /\ UNCHANGED <<reqSeq, rspSeq, rsp, ready, clientSeq, cop, calls, ret, owner, engine, resets, misseeded>>

\* The entry is copied into REQ, or the place for it is zeroed.
CopyEntry ==
  /\ cpc = "copy"
  /\ req' = [req EXCEPT !.entry = IF cop = "append" THEN calls ELSE Blank]
  /\ cpc' = "post"
  /\ UNCHANGED <<reqSeq, rspSeq, rsp, ready, clientSeq, cop, calls, ret, owner, engine, env>>

PostRequest ==
  /\ cpc = "post"
  /\ reqSeq' = clientSeq
  /\ cpc' = "wait"
  /\ UNCHANGED <<req, rspSeq, rsp, ready, clientSeq, cop, calls, ret, owner, engine, env>>

\* RSP->seq is the number of this call.
SeeReply ==
  /\ cpc = "wait" /\ rspSeq = clientSeq
  /\ cpc' = "take"
  /\ UNCHANGED <<sram, ready, clientSeq, cop, calls, ret, owner, engine, env>>

TakeReply ==
  /\ cpc = "take"
  /\ ret' = [call |-> calls, for |-> rsp.for, op |-> cop, rc |-> rsp.rc, val |-> rsp.val]
  /\ cpc' = "idle"
  /\ UNCHANGED <<sram, ready, clientSeq, cop, calls, owner, engine, env>>

\* Mutant: the wait for the reply has no deadline.
TimeoutNever ==
  /\ cpc = "wait" /\ rspSeq # clientSeq
  /\ UNCHANGED vars

\* The deadline passes, whatever the owner is doing.  aen_ready() reports it as
\* NOSUPPORT.
Timeout ==
  /\ cpc = "wait" /\ rspSeq # clientSeq
  /\ ret' = [call |-> calls, for |-> calls, op |-> cop, val |-> 0,
             rc |-> IF cop = "ready" THEN "NOSUPPORT" ELSE "TIMEOUT"]
  /\ cpc' = "idle"
  /\ UNCHANGED <<sram, ready, clientSeq, cop, calls, owner, engine, env>>

\* The HE core resets, inside a call too: its RAM starts from zero, SRAM0 is retained.
ClientReset ==
  /\ resets.client < ClientResets
  /\ ready \/ cpc # "idle"
  /\ resets' = [resets EXCEPT !.client = @ + 1]
  /\ ready' = FALSE /\ clientSeq' = 0 /\ cpc' = "idle" /\ cop' = "ready" /\ ret' = NoRet
  /\ UNCHANGED <<sram, calls, owner, engine, torn, misseeded>>

-----------------------------------------------------------------------------
(* The owner: update_log_aen_m55_owner_run().                              *)

\* The sender is ready; alp_update_log_open() may fail.
OwnerStart ==
  /\ opc = "down"
  /\ logOpen' \in BOOLEAN
  /\ opc' = "clear_req"
  /\ UNCHANGED <<sram, client, lastSeq, doing, serving, engine, env>>

\* Mutant: a request the previous owner left behind is kept.
ClearRequestSkipped ==
  /\ opc = "clear_req"
  /\ opc' = "clear_rsp"
  /\ UNCHANGED <<sram, client, lastSeq, logOpen, doing, serving, engine, env>>

ClearRequest ==
  /\ opc = "clear_req"
  /\ reqSeq' = 0
  /\ opc' = "clear_rsp"
  /\ UNCHANGED <<req, rspSeq, rsp, client, lastSeq, logOpen, doing, serving, engine, env>>

ClearReply ==
  /\ opc = "clear_rsp"
  /\ rspSeq' = 0
  /\ opc' = "poll"
  /\ UNCHANGED <<reqSeq, req, rsp, client, lastSeq, logOpen, doing, serving, engine, env>>

\* A number that is neither 0 nor the last one served is a new request.
PickUp ==
  /\ opc = "poll" /\ Pending
  /\ lastSeq' = reqSeq
  /\ opc' = "open"
  /\ UNCHANGED <<sram, client, logOpen, doing, serving, engine, env>>

\* An open that failed at start is tried again for each request.
RetryOpen ==
  /\ opc = "open"
  /\ logOpen' \in {logOpen, TRUE}
  /\ opc' = "exec"
  /\ UNCHANGED <<sram, client, lastSeq, doing, serving, engine, env>>

OwnerKeeps == UNCHANGED <<sram, client, lastSeq, logOpen, env>>
Replies(a) == answer' = a /\ opc' = "reply" /\ doing' = "none"

\* Mutant: a log that is not open answers like one that is.
WithoutLogOk ==
  /\ opc = "exec" /\ ~logOpen
  /\ Replies([op |-> req.op, rc |-> "OK", val |-> 0])
  /\ serving' = req.call
  /\ UNCHANGED <<log, settled>> /\ OwnerKeeps

WithoutLog ==
  /\ opc = "exec" /\ ~logOpen
  /\ Replies([op |-> req.op, rc |-> "NOT_READY", val |-> 0])
  /\ serving' = req.call
  /\ UNCHANGED <<log, settled>> /\ OwnerKeeps

\* switch (REQ->op): op is read in place, in REQ, after the request was picked up.
Dispatch ==
  /\ opc = "exec" /\ logOpen
  /\ doing' = req.op /\ serving' = req.call
  /\ opc' = "run"
  /\ UNCHANGED engine /\ OwnerKeeps

Executes(o) == opc = "run" /\ doing = o /\ UNCHANGED serving

\* Ready does nothing but answer.
ServeReady ==
  /\ Executes("ready")
  /\ Replies([op |-> "ready", rc |-> "OK", val |-> 0])
  /\ UNCHANGED <<log, settled>> /\ OwnerKeeps

\* The engine settles the entry an interrupted append has left.
EngineRecovers(o) ==
  /\ Executes(o) /\ o # "get"
  /\ answer' = Engine!Silent /\ Engine!Settle /\ UNCHANGED <<opc, doing>>
  /\ OwnerKeeps

\* alp_update_log_append(log, &REQ->entry) reads the entry in place too, perhaps
\* while the client copies the next one over it, and it becomes durable ...
ServeAppend ==
  /\ Executes("append")
  /\ answer' = Engine!Silent
  /\ \E d \in IF cpc = "copy" THEN {req.entry, Blank} ELSE {req.entry} : Engine!Commit(d)
  /\ opc' = "settle" /\ UNCHANGED doing
  /\ OwnerKeeps

\* ... and counts.
FinishAppend ==
  /\ opc = "settle"
  /\ Replies([op |-> "append", rc |-> "OK", val |-> 0]) /\ Engine!Settle
  /\ UNCHANGED serving /\ OwnerKeeps

\* A call that changes nothing: verify, count, get (val is the place asked
\* for), and an append to a full log.
ServeLook(a) ==
  /\ Executes(a.op)
  /\ Replies(a) /\ Engine!Answer
  /\ OwnerKeeps

\* The engine reports an error, at any of its steps.
EngineFails ==
  /\ opc \in {"run", "settle"} /\ doing \in EngineOps
  /\ Replies([op |-> doing, rc |-> "FAULT", val |-> 0])
  /\ UNCHANGED <<log, settled, serving>> /\ OwnerKeeps

\* owner_reply(): the payload first, then the number.
WriteReply ==
  /\ opc = "reply"
  /\ rsp' = [rc |-> answer.rc, val |-> answer.val, for |-> serving]
  /\ opc' = "post"
  /\ answer' = Engine!Silent /\ serving' = 0
  /\ UNCHANGED <<reqSeq, req, rspSeq, client, lastSeq, logOpen, doing, log, settled, env>>

PostReply ==
  /\ opc = "post"
  /\ rspSeq' = lastSeq
  /\ opc' = "poll"
  /\ UNCHANGED <<reqSeq, req, rsp, client, lastSeq, logOpen, doing, serving, engine, env>>

\* The HP core resets: last_seq and the handle are gone, log and SRAM0 are not.
OwnerReset ==
  /\ opc # "down" /\ resets.owner < OwnerResets
  /\ resets' = [resets EXCEPT !.owner = @ + 1]
  /\ opc' = "down" /\ lastSeq' = 0 /\ logOpen' = FALSE /\ doing' = "none" /\ serving' = 0
  /\ answer' = Engine!Silent
  /\ UNCHANGED <<sram, client, log, settled, torn, misseeded>>

-----------------------------------------------------------------------------
ClientStep == WriteOp \/ CopyEntry \/ PostRequest \/ SeeReply \/ TakeReply \/ Timeout

OwnerStep ==
  \/ ClearRequest \/ ClearReply \/ PickUp \/ RetryOpen
  \/ WithoutLog \/ Dispatch \/ ServeReady \/ ServeAppend \/ FinishAppend
  \/ \E o \in EngineOps : EngineRecovers(o)
  \/ \E a \in Looks : ServeLook(a)
  \/ EngineFails \/ WriteReply \/ PostReply

Next ==
  \/ \E o \in ClientOps : Begin(o) \/ SenderNotReady(o)
  \/ ClientStep \/ ClientReset
  \/ OwnerStart \/ OwnerStep \/ OwnerReset

\* Both cores keep polling; resets, calls and the owner's start are up to others.
Spec == Init /\ [][Next]_vars /\ WF_vars(ClientStep) /\ WF_vars(OwnerStep)

-----------------------------------------------------------------------------
TypeOK ==
  /\ reqSeq \in Seqs /\ rspSeq \in Seqs /\ clientSeq \in Seqs /\ lastSeq \in Seqs
  /\ req \in [op : Ops \cup {"none"}, call : 0..MaxCalls, entry : 0..MaxCalls]
  /\ rsp.for \in 0..MaxCalls
  /\ ready \in BOOLEAN /\ logOpen \in BOOLEAN /\ torn \in BOOLEAN /\ misseeded \in BOOLEAN
  /\ cpc \in {"idle", "write", "copy", "post", "wait", "take"} /\ cop \in Ops
  /\ calls \in 0..MaxCalls /\ serving \in 0..MaxCalls
  /\ opc \in {"down", "clear_req", "clear_rsp", "poll", "open", "exec", "run", "settle",
             "reply", "post"}
  /\ doing \in Ops \cup {"none"}
  /\ settled \in 0..(MaxSeq + 1)
  /\ log \in [0..MaxSeq -> 0..MaxCalls \cup {None}]

\* The log holds the client's entries in the order of its calls, wherever either
\* core resets and however late the owner is ("nothing stale is replayed").  An
\* entry is in it twice, or is no call's entry, only if the client gave up
\* waiting and tore a request the owner was still to read.
LogFollowsCalls ==
  /\ \A i, j \in 0..MaxSeq :
       (i < j /\ log[i] \in Calls /\ log[j] \in Calls) =>
         (log[i] < log[j] \/ (torn /\ log[i] = log[j]))
  /\ ~torn => \A i \in 0..MaxSeq : log[i] # Blank

\* An answered call has the owner's answer to its own request.
Mine == ret.rc \notin {"TIMEOUT", "NOSUPPORT"} => ret.for = ret.call

\* A call is answered with the owner's answer to its own request, never with the
\* reply to an earlier one, also after a restart of either core, wherever the
\* number wraps and however late the owner is -- unless the client restarted
\* while a request of its former life was still on its way.
ReplyIsMine == ~misseeded => Mine

\* "HE restart: the client seeds g_client_seq from the retained RSP->seq ... a
\* fresh REQ is never skipped as already seen and never matches the stale RSP"
\* (the restart note in aen_m55_owner.c).
RestartSafe == Mine

\* What a returned call was told is true of the owner's log: an acknowledged
\* append is in it and counted, a count is its length.
AnswerIsTrue ==
  (~misseeded /\ ret.rc = "OK") =>
    /\ ret.op = "append" => \E i \in 0..(settled - 1) : log[i] = ret.call
    /\ ret.op = "count" => ret.val = settled
    /\ ret.op = "get" => log[ret.val] # None

\* client_call() returns, answered or at its deadline, whatever the owner does.
CallReturns == (cpc # "idle") ~> (cpc = "idle")
=============================================================================
