------------------------------ MODULE FpgaMgmt ------------------------------
(***************************************************************************)
(* FPGA image management of one slot (fpga_mgmt.c, fpga_mgmt_cmd.c,        *)
(* fpga_hal_mbox.c).  A call of the library sends commands to the shell    *)
(* through a mailbox of two one-message buffers, each with an event bit,   *)
(* and polls the mailbox for the answer until it comes or the time is up.  *)
(* The synchronous calls then poll the image's status.                     *)
(*                                                                         *)
(* The shell is not part of the repository: its actions are what the       *)
(* library expects of it.  It takes one command at a time, gives its       *)
(* answer when the buffer is free, and loads or clears the image in its    *)
(* own time.  Whether a poll loop's time is up before the shell moves is   *)
(* left open.                                                              *)
(***************************************************************************)
EXTENDS Naturals, Descent

CONSTANTS Afi,            \* the images
          None,           \* no message, no image
          MaxRetries,     \* AFI_MAX_RETRIES
          ReloadRetries,  \* FPGA_MGMT_RL_RELOAD_RETRIES
          SyncTimeout,    \* timeout_tmp: polls of a synchronous call
          MaxCmd,         \* bound: commands made
          PciFails,       \* whether peeks and pokes may fail
          Restarts        \* whether the process may die and be started again

ASSUME MgmtAssumption ==
    /\ None \notin Afi
    /\ MaxRetries \in Nat /\ ReloadRetries \in Nat
    /\ SyncTimeout \in Nat /\ MaxCmd \in Nat
    /\ PciFails \in BOOLEAN /\ Restarts \in BOOLEAN

VARIABLES
    \* mailbox registers
    tx, txEvt,     \* command buffer, FMB_TX_EVT: the shell has taken it
    rx, rxEvt,     \* answer buffer, FMB_RX_EVT: it holds an answer
    \* shell
    shCur, shOut,  \* the command being worked on, the answer to be given
    img,           \* the slot's image: status, its cause, AFI, and goal
    \* library
    pc,            \* where the caller's thread is
    call, want,    \* the call in progress (or last made), its afi_id
    stage,         \* "pre" | "cmd" | "poll" | "post": part of that call
    cmd,           \* cmd, with the ordinal inst of the command made
    rsp,           \* rsp: the message last read
    drains,        \* retries in fpga_mgmt_send_cmd
    resends,       \* num_retries in fpga_mgmt_describe_cmd
    polls,         \* retries in the synchronous calls
    info,          \* tmp_info: what the last description said
    ret,           \* the return value on its way to the caller
    nextId,        \* afi_get_next_id's counter
    nCmd           \* commands made so far

mboxVars  == <<tx, txEvt, rx, rxEvt>>
shellVars == <<shCur, shOut, img>>
callVars  == <<call, want, stage, polls, info>>
cmdVars   == <<cmd, resends, nextId, nCmd>>
vars      == <<mboxVars, shellVars, callVars, cmdVars, pc, rsp, drains, ret>>

NoInfo == [st |-> "none", q |-> "ok", afi |-> None]

Init ==
    /\ tx = None /\ txEvt = FALSE /\ rx = None /\ rxEvt = FALSE
    /\ shCur = None /\ shOut = None
    /\ img = [st |-> "cleared", q |-> "ok", afi |-> None, goal |-> None]
    /\ pc = "idle" /\ call = "describe" /\ want = None /\ stage = "pre"
    /\ cmd = None /\ rsp = None /\ drains = 0 /\ resends = 0 /\ polls = 0
    /\ info = NoInfo /\ ret = "none" /\ nextId = 0 /\ nCmd = 0

----------------------------------------------------------------------------
(* A call, down to the command it sends.                                   *)

Sync == call \in {"load_sync", "clear_sync"}

\* Room under the bound MaxCmd for all the commands one call can make.
Budget == nCmd + SyncTimeout + 2 <= MaxCmd

\* fpga_mgmt_cmd_init_load / _clear / _metrics: a new command, to be sent.
NewCmd(op, afi) ==
    /\ cmd' = [op |-> op, afi |-> afi, id |-> nextId, inst |-> nCmd]
    /\ nextId' = nextId + 1 /\ nCmd' = nCmd + 1
    /\ resends' = 0 /\ pc' = "attach"

\* fpga_mgmt_describe_local_image, fpga_mgmt_get_status.
Describe ==
    /\ pc = "idle" /\ Budget
    /\ call' = "describe" /\ want' = None /\ stage' = "poll"
    /\ info' = NoInfo /\ polls' = 0
    /\ NewCmd("metrics", None)
    /\ UNCHANGED <<mboxVars, shellVars, rsp, drains, ret>>

\* fpga_mgmt_load_local_image(a), fpga_mgmt_clear_local_image (a = None).
AsyncCall(a) ==
    /\ pc = "idle" /\ Budget
    /\ call' = (IF a = None THEN "clear" ELSE "load") /\ want' = a
    /\ stage' = "cmd" /\ info' = NoInfo /\ polls' = 0
    /\ NewCmd(IF a = None THEN "clear" ELSE "load", a)
    /\ UNCHANGED <<mboxVars, shellVars, rsp, drains, ret>>

\* fpga_mgmt_load_local_image_sync(a), fpga_mgmt_clear_local_image_sync; they
\* ask for the shell's version first.
SyncCall(a) ==
    /\ pc = "idle" /\ Budget
    /\ call' = (IF a = None THEN "clear_sync" ELSE "load_sync") /\ want' = a
    /\ stage' = "pre" /\ info' = NoInfo /\ polls' = 0
    /\ pc' = "version"
    /\ UNCHANGED <<mboxVars, shellVars, cmdVars, rsp, drains, ret>>

----------------------------------------------------------------------------
(* fpga_mgmt_process_cmd: attach, write, wait for the event bits.          *)

Return(r) == ret' = r /\ pc' = "return"

\* fpga_mgmt_mbox_attach clears what is left in the mailbox.
Attach ==
    /\ pc = "attach"
    /\ txEvt' = FALSE /\ rxEvt' = FALSE
    /\ drains' = 0 /\ pc' = "clear"
    /\ UNCHANGED <<tx, rx, shellVars, callVars, cmdVars, rsp, ret>>

\* fpga_hal_mbox_write_async: clear the event of an earlier write ...
WriteClear ==
    /\ pc = "clear"
    /\ txEvt' = FALSE /\ pc' = "write"
    /\ UNCHANGED <<tx, rx, rxEvt, shellVars, callVars, cmdVars, rsp, drains, ret>>

\* ... then write the message and its length.
Write ==
    /\ pc = "write"
    /\ tx' = cmd /\ pc' = "ack"
    /\ UNCHANGED <<txEvt, rx, rxEvt, shellVars, callVars, cmdVars, rsp, drains, ret>>

\* fpga_hal_mbox_write sees the event, or gives up.
Ack ==
    /\ pc = "ack"
    /\ \/ txEvt /\ txEvt' = FALSE /\ pc' = "read" /\ UNCHANGED ret
       \/ ~txEvt /\ Return("etimedout") /\ UNCHANGED txEvt
    /\ UNCHANGED <<tx, rx, rxEvt, shellVars, callVars, cmdVars, rsp, drains>>

\* fpga_mgmt_afi_validate_header.  The id of an error answer is not looked at.
Validate_AnyId(r) ==
    CASE r.op = "bad"   -> "malformed"
      [] r.op = "error" -> r.q
      [] r.op = cmd.op  -> "ok"
      [] OTHER          -> "eagain"
Validate(r) ==
    CASE r.op = "bad"                     -> "malformed"
      [] r.op = "error"                   -> r.q
      [] r.op = cmd.op /\ r.id = cmd.id   -> "ok"
      [] OTHER                            -> "eagain"

\* fpga_mgmt_send_cmd reads an answer; one that belongs to another command is
\* dropped, as long as there are not too many.
Read_NoCap ==
    /\ pc = "read" /\ rxEvt
    /\ rxEvt' = FALSE /\ rsp' = rx
    /\ LET v == Validate(rx) IN
         \/ v # "eagain" /\ Return(v) /\ UNCHANGED drains
         \/ v = "eagain" /\ drains' = drains + 1 /\ UNCHANGED <<pc, ret>>
    /\ UNCHANGED <<tx, txEvt, rx, shellVars, callVars, cmdVars>>
Read ==
    /\ pc = "read" /\ rxEvt
    /\ rxEvt' = FALSE /\ rsp' = rx
    /\ LET v == Validate(rx) IN
         \/ v # "eagain" /\ Return(v) /\ UNCHANGED drains
         \/ v = "eagain" /\ drains >= MaxRetries /\ Return("etimedout") /\ UNCHANGED drains
         \/ v = "eagain" /\ drains < MaxRetries /\ drains' = drains + 1 /\ UNCHANGED <<pc, ret>>
    /\ UNCHANGED <<tx, txEvt, rx, shellVars, callVars, cmdVars>>

\* fpga_hal_mbox_read gives up.
ReadTimeout ==
    /\ pc = "read" /\ ~rxEvt
    /\ Return("etimedout")
    /\ UNCHANGED <<mboxVars, shellVars, callVars, cmdVars, rsp, drains>>

----------------------------------------------------------------------------
(* Back in the call.                                                       *)

Finish(r) == ret' = r /\ pc' = "idle"

Resend == stage = "poll" /\ ret \in {"malformed", "etimedout"} /\ resends <= ReloadRetries

\* fpga_mgmt_describe_cmd sends the same command again (RL reload process).
DescribeRetry_Forever ==
    /\ pc = "return" /\ stage = "poll" /\ ret \in {"malformed", "etimedout"}
    /\ resends' = (IF resends <= ReloadRetries THEN resends + 1 ELSE resends)
    /\ pc' = "attach"
    /\ UNCHANGED <<mboxVars, shellVars, callVars, cmd, nextId, nCmd, rsp, drains, ret>>
DescribeRetry ==
    /\ pc = "return" /\ Resend
    /\ resends' = resends + 1 /\ pc' = "attach"
    /\ UNCHANGED <<mboxVars, shellVars, callVars, cmd, nextId, nCmd, rsp, drains, ret>>

\* The load or clear command is over; a synchronous call that has got its
\* answer starts polling.
CmdReturn ==
    /\ pc = "return" /\ stage = "cmd"
    /\ IF Sync /\ ret = "ok"
         THEN stage' = "poll" /\ NewCmd("metrics", None) /\ UNCHANGED ret
         ELSE Finish(ret) /\ UNCHANGED <<stage, cmdVars>>
    /\ UNCHANGED <<mboxVars, shellVars, call, want, polls, info, rsp, drains>>

\* fpga_mgmt_describe_cmd has an answer and goes on to the shell's version.
Described ==
    /\ pc = "return" /\ stage = "poll" /\ ret = "ok"
    /\ info' = [st |-> rsp.st, q |-> rsp.q, afi |-> rsp.afi]
    /\ pc' = "version"
    /\ UNCHANGED <<mboxVars, shellVars, call, want, stage, polls, cmdVars, rsp, drains, ret>>

\* The description failed.  A synchronous call takes it for an error status
\* and returns the cause it finds in the last description.
DescribeFailed ==
    /\ pc = "return" /\ stage = "poll" /\ ret # "ok" /\ ~Resend
    /\ Finish(IF Sync THEN info.q ELSE ret)
    /\ UNCHANGED <<mboxVars, shellVars, callVars, cmdVars, rsp, drains>>

\* fpga_mgmt_get_sh_version attaches to the mailbox again.
GetVersion ==
    /\ pc = "version"
    /\ txEvt' = FALSE /\ rxEvt' = FALSE
    /\ \/ /\ stage = "pre" /\ stage' = "cmd"
          /\ NewCmd(IF want = None THEN "clear" ELSE "load", want)
          /\ UNCHANGED ret
       \/ /\ stage = "poll"
          /\ pc' = IF info.st = "loading_rl" THEN "reload" ELSE "judge"
          /\ UNCHANGED <<stage, cmdVars, ret>>
       \/ stage = "post" /\ Finish("ok") /\ UNCHANGED <<stage, cmdVars>>
    /\ UNCHANGED <<tx, rx, shellVars, call, want, polls, info, rsp, drains>>

\* The RL reload signal, after which the image counts as busy.
Reload ==
    /\ pc = "reload"
    /\ img' = IF img.st = "loading_rl" THEN [img EXCEPT !.st = "busy"] ELSE img
    /\ info' = [info EXCEPT !.st = "busy"]
    /\ txEvt' = FALSE /\ rxEvt' = FALSE /\ pc' = "judge"
    /\ UNCHANGED <<tx, rx, shCur, shOut, call, want, stage, polls, cmdVars, rsp, drains, ret>>

\* What the description means to the call: a plain description is done; a
\* synchronous call looks for the status it waits for.
Wanted == IF want = None THEN "cleared" ELSE "loaded"

JudgePlain ==
    /\ pc = "judge" /\ ~Sync
    /\ Finish("ok")
    /\ UNCHANGED <<mboxVars, shellVars, callVars, cmdVars, rsp, drains>>

\* The status is there; for a load, its afi_id must be the one asked for.
JudgeWanted ==
    /\ pc = "judge" /\ Sync /\ info.st = Wanted
    /\ \/ (want = None \/ info.afi = want) /\ stage' = "post" /\ pc' = "version" /\ UNCHANGED ret
       \/ want # None /\ info.afi # want /\ Finish("fail") /\ UNCHANGED stage
    /\ UNCHANGED <<mboxVars, shellVars, call, want, polls, info, cmdVars, rsp, drains>>

\* Still busy: poll again, a limited number of times.
JudgeBusy ==
    /\ pc = "judge" /\ Sync /\ info.st = "busy"
    /\ \/ /\ polls < SyncTimeout
          /\ polls' = polls + 1 /\ NewCmd("metrics", None) /\ UNCHANGED ret
       \/ polls >= SyncTimeout /\ Finish("etimedout") /\ UNCHANGED <<polls, cmdVars>>
    /\ UNCHANGED <<mboxVars, shellVars, call, want, stage, info, rsp, drains>>

\* Any other status is an error, whose cause is returned.
JudgeOther ==
    /\ pc = "judge" /\ Sync /\ info.st \notin {Wanted, "busy"}
    /\ Finish(info.q)
    /\ UNCHANGED <<mboxVars, shellVars, callVars, cmdVars, rsp, drains>>

----------------------------------------------------------------------------
(* Failing peeks and pokes, and the end of the process.                    *)

\* An access to the mailbox fails.  (A read may or may not have cleared the
\* event.)  The failure of the RL reload signal is lost: the description
\* returns the 0 of its own ret, which the block's ret hides.
PciFail ==
    /\ PciFails
    /\ \/ pc \in {"attach", "clear", "write", "ack"} /\ Return("eio") /\ UNCHANGED rxEvt
       \/ pc = "read" /\ Return("eio") /\ rxEvt' \in {rxEvt, FALSE}
       \/ pc = "version" /\ stage = "poll" /\ Return("eio") /\ UNCHANGED rxEvt
       \/ pc = "version" /\ stage # "poll" /\ Finish("eio") /\ UNCHANGED rxEvt
       \/ pc = "reload" /\ pc' = "judge" /\ UNCHANGED <<ret, rxEvt>>
    /\ UNCHANGED <<tx, txEvt, rx, shellVars, callVars, cmdVars, rsp, drains>>

\* The process ends and another is started.  Its ids start where the others'
\* did: rand() is not seeded.
Restart ==
    /\ Restarts
    /\ pc' = "idle" /\ nextId' = 0 /\ ret' = "none"
    /\ UNCHANGED <<mboxVars, shellVars, callVars, cmd, resends, nCmd, rsp, drains>>

----------------------------------------------------------------------------
(* The shell (external).                                                   *)

\* It takes the command and says so.
ShTake ==
    /\ shCur = None /\ shOut = None /\ tx # None
    /\ shCur' = tx /\ tx' = None /\ txEvt' = TRUE
    /\ UNCHANGED <<rx, rxEvt, shOut, img, callVars, cmdVars, pc, rsp, drains, ret>>

Busy == img.st \in {"busy", "loading_rl"}

Answer(op, st, q, afi) ==
    /\ shCur # None /\ shCur' = None
    /\ shOut' = [op |-> op, id |-> shCur.id, inst |-> shCur.inst,
                 st |-> st, q |-> q, afi |-> afi]
    /\ UNCHANGED <<mboxVars, callVars, cmdVars, pc, rsp, drains, ret>>

\* Metrics: the status at this moment.
ShMetrics ==
    /\ shCur # None /\ shCur.op = "metrics"
    /\ Answer("metrics", img.st, img.q, img.afi)
    /\ UNCHANGED img

\* Load and clear begin, unless one is going on.
ShBegin ==
    /\ shCur # None /\ ~Busy /\ shCur.op \in {"load", "clear"}
    /\ Answer(shCur.op, "none", "ok", None)
    /\ img' = [st |-> "busy", q |-> "ok", afi |-> None, goal |-> shCur.afi]

\* A refusal: an invalid AFI, or the slot is busy.
ShError ==
    /\ shCur # None /\ shCur.op \in {"load", "clear"}
    /\ Answer("error", "none", IF Busy THEN "busy" ELSE "invalid", None)
    /\ UNCHANGED img

\* A message that makes no sense, as during an RL reload.
ShBad ==
    /\ Answer("bad", "none", "ok", None)
    /\ UNCHANGED img

\* The answer is given once the last one has been read.
ShPost ==
    /\ shOut # None /\ ~rxEvt
    /\ rx' = shOut /\ rxEvt' = TRUE /\ shOut' = None
    /\ UNCHANGED <<tx, txEvt, shCur, img, callVars, cmdVars, pc, rsp, drains, ret>>

\* The load or clear ends, or the load asks for an RL reload.
ShImage ==
    /\ img.st = "busy"
    /\ \/ img.goal = None /\ img' = [img EXCEPT !.st = "cleared"]
       \/ img.goal # None /\ \/ img' = [img EXCEPT !.st = "loaded", !.afi = img.goal]
                             \/ img' = [img EXCEPT !.st = "failed", !.q = "err"]
                             \/ img' = [img EXCEPT !.st = "loading_rl"]
    /\ UNCHANGED <<mboxVars, shCur, shOut, callVars, cmdVars, pc, rsp, drains, ret>>

----------------------------------------------------------------------------
Host == \/ Describe
        \/ \E a \in Afi \cup {None} : AsyncCall(a) \/ SyncCall(a)
        \/ Attach \/ WriteClear \/ Write \/ Ack \/ Read \/ ReadTimeout
        \/ DescribeRetry \/ CmdReturn \/ Described \/ DescribeFailed
        \/ GetVersion \/ Reload
        \/ JudgePlain \/ JudgeWanted \/ JudgeBusy \/ JudgeOther

Shell == ShTake \/ ShMetrics \/ ShBegin \/ ShError \/ ShBad \/ ShPost
         \/ ShImage

Next == Host \/ PciFail \/ Restart \/ Shell

Spec == Init /\ [][Next]_vars

\* The caller's thread runs on within a call; its poll loops are finite, so a
\* loop whose event does not come ends.  Nothing is asked of the shell, and
\* nobody need make a call.
InCall == pc # "idle" /\ Host
FairSpec == Spec /\ WF_vars(InCall)

----------------------------------------------------------------------------
Statuses == {"cleared", "busy", "loading_rl", "loaded", "failed"}
Returns  == {"none", "ok", "etimedout", "malformed", "eio", "fail", "busy", "invalid", "err"}
Commands == [op : {"load", "clear", "metrics"}, afi : Afi \cup {None},
             id : Nat, inst : Nat]
Answers  == [op : {"load", "clear", "metrics", "error", "bad"}, id : Nat,
             inst : Nat, st : Statuses \cup {"none"},
             q : {"ok", "err", "busy", "invalid"}, afi : Afi \cup {None}]

\* None is no message.
Distinct == None \notin Commands /\ None \notin Answers

ASSUME DistinctAssumption == Distinct

MessageType ==
    /\ tx \in Commands \cup {None} /\ shCur \in Commands \cup {None}
    /\ cmd \in Commands \cup {None} /\ shOut \in Answers \cup {None}
    /\ rx \in Answers \cup {None} /\ rsp \in Answers \cup {None}
    /\ txEvt \in BOOLEAN /\ rxEvt \in BOOLEAN

StatusType ==
    /\ img \in [st : Statuses, q : {"ok", "err"}, afi : Afi \cup {None},
                goal : Afi \cup {None}]
    /\ info \in [st : Statuses \cup {"none"}, q : {"ok", "err"}, afi : Afi \cup {None}]

ControlType ==
    /\ pc \in {"idle", "attach", "clear", "write", "ack", "read", "return",
               "version", "reload", "judge"}
    /\ call \in {"describe", "load", "clear", "load_sync", "clear_sync"}
    /\ want \in Afi \cup {None}
    /\ stage \in {"pre", "cmd", "poll", "post"}
    /\ ret \in Returns

CountType ==
    /\ drains \in 0..MaxRetries /\ resends \in 0..(ReloadRetries + 1)
    /\ polls \in 0..SyncTimeout
    /\ nextId \in Nat /\ nCmd \in Nat

(* Type invariant of the slot's mailbox, its shell and the library. *)
TypeOK == MessageType /\ StatusType /\ ControlType /\ CountType

\* A command that returns success was answered: the answer in rsp is the
\* shell's answer to this very command, not a late one to an earlier command
\* of the same kind.
OwnAnswer == (pc = "return" /\ ret = "ok") => rsp.inst = cmd.inst

\* A synchronous load that returns 0 has loaded the image it was asked for, and
\* a synchronous clear that returns 0 has cleared the slot.
SyncTruth ==
    (pc = "idle" /\ Sync /\ ret = "ok") =>
        (img.st = Wanted /\ img.afi = want)

\* The same of a synchronous call that got as far as seeing the status it waits
\* for: however late answers are, that status is not an old one.
SeenIsTrue ==
    (pc = "idle" /\ Sync /\ ret = "ok" /\ stage = "post") =>
        (img.st = Wanted /\ img.afi = want)

\* The RL reload signal is only given to a shell that waits for it, although it
\* is given on the word of an answer that may have been long under way.
ReloadWhenAsked == [][Reload => img.st = "loading_rl"]_vars

\* How far a call is from its end: the stages, polls and sends that are left,
\* the place in one exchange with the shell, the answers it may still drop.
StagesLeft == [pre |-> 3, cmd |-> 2, poll |-> 1, post |-> 0]
Exchange == {"attach", "clear", "write", "ack", "read"}
Place == [attach |-> 8, clear |-> 7, write |-> 6, ack |-> 5, read |-> 4, version |-> 3,
          reload |-> 2, judge |-> 1, return |-> 0, idle |-> 0]
Sending == pc \in Exchange \/ (pc = "return" /\ (ret = "ok" \/ Resend))
Rank == <<StagesLeft[stage], SyncTimeout - polls, IF Sending THEN 1 ELSE 0,
          (ReloadRetries + 1) - resends, Place[pc], MaxRetries - drains>>

\* The loops of a call, over polls, resends and answers dropped, are bounded
\* together: every step of the call but its last, a failing access included,
\* brings its end nearer, and the shell's steps do not put it off.
CallRunsDown ==
    [][pc # "idle" => \/ pc' = "idle"
                      \/ Below(Rank', Rank)
                      \/ Rank' = Rank /\ shellVars' # shellVars]_vars

\* Every call returns, whatever the shell does or fails to do.
CallReturns == (pc # "idle") ~> (pc = "idle")
=============================================================================
