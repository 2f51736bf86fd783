--------------------------- MODULE FpgaMgmtProofs ---------------------------
(***************************************************************************)
(* Proofs that a command of the management library that returns success    *)
(* was answered by the shell's answer to that very command, and that a     *)
(* synchronous call that saw its status has the image it asked for; for    *)
(* any number of retries, polls and commands, and however late the answers *)
(* are, as long as one process lives.                                      *)
(*                                                                         *)
(* The argument: ids are handed out in order, so an id tells a command's   *)
(* ordinal (IdInv).  The shell copies both into its answer, and a success  *)
(* means that the id read from the mailbox was that of the command         *)
(* (ReturnInv).                                                            *)
(*                                                                         *)
(* The synchronous calls add to it (ImageInv).  When the answer to their   *)
(* load or clear is there, the shell has begun with it and no older        *)
(* command is left on its way (CmdInv); the descriptions sent from then on *)
(* change nothing, so that the image stays on its way to what was asked    *)
(* for, and a status that is reported as final is still the status when    *)
(* the call returns (PollInv, PostInv).                                    *)
(***************************************************************************)
EXTENDS FpgaMgmt, TLAPS

\* An id is the ordinal of its command, wherever the message is.
IdOk(m) == m # None => m.id = m.inst

IdInv == /\ nextId = nCmd
         /\ IdOk(tx) /\ IdOk(shCur) /\ IdOk(cmd)
         /\ IdOk(shOut) /\ IdOk(rx) /\ IdOk(rsp)

\* Error answers, and no others, carry a refusal.
CauseOk(m) == m # None => (m.op = "error" <=> m.q \in {"busy", "invalid"})

CauseInv == CauseOk(shOut) /\ CauseOk(rx) /\ CauseOk(rsp)

\* Where there must be a command or an answer, there is one.
PresenceInv ==
    /\ pc \in {"attach", "clear", "write", "ack", "read", "return"} => cmd \in Commands
    /\ pc = "version" /\ stage = "poll" => cmd \in Commands
    /\ rxEvt => rx \in Answers

\* A success means that the message last read has the command's op and id.
ReturnInv ==
    (pc = "return" /\ ret = "ok") =>
        rsp \in Answers /\ rsp.op = cmd.op /\ rsp.id = cmd.id

MgmtInv == TypeOK /\ IdInv /\ CauseInv /\ PresenceInv /\ ReturnInv

----------------------------------------------------------------------------
\* A library that has made no command satisfies the invariant.
LEMMA MgmtInit == Init => MgmtInv
<1> SUFFICES ASSUME Init PROVE MgmtInv
  OBVIOUS
<1>1. TypeOK
  <2>1. MessageType
    BY DEF Init, MessageType
  <2>2. StatusType
    BY DEF Init, StatusType, NoInfo, Statuses
  <2>3. ControlType
    BY DEF Init, ControlType, Returns
  <2>4. CountType
    BY MgmtAssumption DEF Init, CountType
  <2> QED
    BY <2>1, <2>2, <2>3, <2>4 DEF TypeOK
<1>2. IdInv
  BY DEF Init, IdInv, IdOk
<1>3. CauseInv
  BY DEF Init, CauseInv, CauseOk
<1>4. PresenceInv /\ ReturnInv
  BY DEF Init, PresenceInv, ReturnInv
<1> QED
  BY <1>1, <1>2, <1>3, <1>4 DEF MgmtInv

\* Every step of the library and of its shell keeps the invariant, one case per
\* action.
LEMMA MgmtStep ==
  ASSUME Restarts = FALSE, Distinct, MgmtInv, [Next]_vars
  PROVE  MgmtInv'
<1> USE DEF MgmtInv, TypeOK
<1>1. CASE Describe
  <2>1. MessageType'
    BY <1>1, MgmtAssumption DEF MessageType, ControlType, CountType,
       Commands, Describe, NewCmd, NoInfo, mboxVars, shellVars
  <2>2. StatusType' /\ ControlType' /\ CountType'
    BY <1>1, MgmtAssumption DEF StatusType, ControlType, CountType, Statuses,
       Returns, Describe, NewCmd, NoInfo, mboxVars, shellVars
  <2>3. IdInv' /\ CauseInv'
    BY <1>1 DEF IdInv, IdOk, CauseInv, CauseOk, Describe, NewCmd, NoInfo,
       mboxVars, shellVars
  <2>4. PresenceInv' /\ ReturnInv'
    BY <1>1 DEF PresenceInv, ReturnInv, ControlType, CountType, Commands,
       Describe, NewCmd, NoInfo, mboxVars, shellVars
  <2> QED
    BY <2>1, <2>2, <2>3, <2>4
<1>2. ASSUME NEW a \in Afi \cup {None}, AsyncCall(a) PROVE MgmtInv'
  <2>1. MessageType'
    BY <1>2, MgmtAssumption DEF MessageType, ControlType, CountType,
       Commands, AsyncCall, NewCmd, NoInfo, mboxVars, shellVars
  <2>2. StatusType' /\ ControlType' /\ CountType'
    BY <1>2, MgmtAssumption DEF StatusType, ControlType, CountType, Statuses,
       Returns, AsyncCall, NewCmd, NoInfo, mboxVars, shellVars
  <2>3. IdInv' /\ CauseInv'
    BY <1>2 DEF IdInv, IdOk, CauseInv, CauseOk, AsyncCall, NewCmd, NoInfo,
       mboxVars, shellVars
  <2>4. PresenceInv' /\ ReturnInv'
    BY <1>2 DEF PresenceInv, ReturnInv, ControlType, CountType, Commands,
       AsyncCall, NewCmd, NoInfo, mboxVars, shellVars
  <2> QED
    BY <2>1, <2>2, <2>3, <2>4
<1>3. ASSUME NEW a \in Afi \cup {None}, SyncCall(a) PROVE MgmtInv'
  <2>1. MessageType'
    BY <1>3 DEF MessageType, SyncCall, NoInfo, mboxVars, shellVars, cmdVars
  <2>2. StatusType' /\ ControlType' /\ CountType'
    BY <1>3, MgmtAssumption DEF StatusType, ControlType, CountType, Statuses,
       Returns, SyncCall, NoInfo, mboxVars, shellVars, cmdVars
  <2>3. IdInv' /\ CauseInv'
    BY <1>3 DEF IdInv, IdOk, CauseInv, CauseOk, SyncCall, NoInfo, mboxVars,
       shellVars, cmdVars
  <2>4. PresenceInv' /\ ReturnInv'
    BY <1>3 DEF PresenceInv, ReturnInv, SyncCall, NoInfo, mboxVars,
       shellVars, cmdVars
  <2> QED
    BY <2>1, <2>2, <2>3, <2>4
<1>4. CASE Attach
  <2>1. MessageType'
    BY <1>4 DEF MessageType, Attach, shellVars, callVars, cmdVars
  <2>2. StatusType' /\ ControlType' /\ CountType'
    BY <1>4, MgmtAssumption DEF StatusType, ControlType, CountType, Statuses,
       Returns, Attach, shellVars, callVars, cmdVars
  <2>3. IdInv' /\ CauseInv'
    BY <1>4 DEF IdInv, IdOk, CauseInv, CauseOk, Attach, shellVars, callVars,
       cmdVars
  <2>4. PresenceInv' /\ ReturnInv'
    BY <1>4 DEF PresenceInv, ReturnInv, Attach, shellVars, callVars, cmdVars
  <2> QED
    BY <2>1, <2>2, <2>3, <2>4
<1>5. CASE WriteClear
  <2>1. MessageType'
    BY <1>5 DEF MessageType, WriteClear, shellVars, callVars, cmdVars
  <2>2. StatusType' /\ ControlType' /\ CountType'
    BY <1>5, MgmtAssumption DEF StatusType, ControlType, CountType, Statuses,
       Returns, WriteClear, shellVars, callVars, cmdVars
  <2>3. IdInv' /\ CauseInv'
    BY <1>5 DEF IdInv, IdOk, CauseInv, CauseOk, WriteClear, shellVars,
       callVars, cmdVars
  <2>4. PresenceInv' /\ ReturnInv'
    BY <1>5 DEF PresenceInv, ReturnInv, WriteClear, shellVars, callVars,
       cmdVars
  <2> QED
    BY <2>1, <2>2, <2>3, <2>4
<1>6. CASE Write
  <2>1. MessageType'
    BY <1>6 DEF MessageType, PresenceInv, Write, shellVars, callVars, cmdVars
  <2>2. StatusType' /\ ControlType' /\ CountType'
    BY <1>6, MgmtAssumption DEF StatusType, ControlType, CountType, Statuses,
       Returns, Write, shellVars, callVars, cmdVars
  <2>3. IdInv' /\ CauseInv'
    BY <1>6 DEF IdInv, IdOk, CauseInv, CauseOk, Distinct, MessageType,
       PresenceInv, Commands, Answers, Write, shellVars, callVars, cmdVars
  <2>4. PresenceInv' /\ ReturnInv'
    BY <1>6 DEF PresenceInv, ReturnInv, Write, shellVars, callVars, cmdVars
  <2> QED
    BY <2>1, <2>2, <2>3, <2>4
<1>7. CASE Ack
  <2>1. MessageType'
    BY <1>7 DEF MessageType, Ack, Return, shellVars, callVars, cmdVars
  <2>2. StatusType' /\ ControlType' /\ CountType'
    BY <1>7, MgmtAssumption DEF StatusType, ControlType, CountType, Statuses,
       Returns, Ack, Return, shellVars, callVars, cmdVars
  <2>3. IdInv' /\ CauseInv'
    BY <1>7 DEF IdInv, IdOk, CauseInv, CauseOk, Ack, Return, shellVars,
       callVars, cmdVars
  <2>4. PresenceInv' /\ ReturnInv'
    BY <1>7 DEF PresenceInv, ReturnInv, Ack, Return, shellVars, callVars,
       cmdVars
  <2> QED
    BY <2>1, <2>2, <2>3, <2>4
<1>8. CASE Read
  <2>1. MessageType'
    BY <1>8 DEF MessageType, PresenceInv, Read, Return, Validate, shellVars,
       callVars, cmdVars
  <2>2. StatusType' /\ ControlType' /\ CountType'
    BY <1>8, MgmtAssumption DEF StatusType, ControlType, CountType, Statuses,
       Returns, MessageType, PresenceInv, ReturnInv, CauseInv, CauseOk,
       Answers, Commands, Read, Return, Validate, shellVars, callVars,
       cmdVars
  <2>3. IdInv' /\ CauseInv'
    BY <1>8 DEF IdInv, IdOk, CauseInv, CauseOk, Distinct, MessageType,
       PresenceInv, Commands, Answers, Read, Return, Validate, shellVars,
       callVars, cmdVars
  <2>4. PresenceInv' /\ ReturnInv'
    <3>1. PresenceInv'
      BY <1>8 DEF PresenceInv, Read, Return, callVars, cmdVars, shellVars
    <3>2. ASSUME pc' = "return", ret' = "ok"
          PROVE  rsp' \in Answers /\ rsp'.op = cmd'.op /\ rsp'.id = cmd'.id
      <4>1. rx \in Answers /\ rx # None /\ cmd' = cmd /\ rsp' = rx
        BY <1>8 DEF Read, PresenceInv, Distinct, cmdVars
      <4>2. Validate(rx) = "ok"
        BY <1>8, <3>2 DEF Read, Return, PresenceInv
      <4>3. rx.op = "error" <=> rx.q \in {"busy", "invalid"}
        BY <4>1 DEF CauseInv, CauseOk
      <4> QED
        BY <4>1, <4>2, <4>3 DEF Validate
    <3> QED
      BY <3>1, <3>2 DEF ReturnInv
  <2> QED
    BY <2>1, <2>2, <2>3, <2>4
<1>9. CASE ReadTimeout
  <2>1. MessageType'
    BY <1>9 DEF MessageType, ReadTimeout, Return, mboxVars, shellVars,
       callVars, cmdVars
  <2>2. StatusType' /\ ControlType' /\ CountType'
    BY <1>9, MgmtAssumption DEF StatusType, ControlType, CountType, Statuses,
       Returns, ReadTimeout, Return, mboxVars, shellVars, callVars, cmdVars
  <2>3. IdInv' /\ CauseInv'
    BY <1>9 DEF IdInv, IdOk, CauseInv, CauseOk, ReadTimeout, Return,
       mboxVars, shellVars, callVars, cmdVars
  <2>4. PresenceInv' /\ ReturnInv'
    BY <1>9 DEF PresenceInv, ReturnInv, ReadTimeout, Return, mboxVars,
       shellVars, callVars, cmdVars
  <2> QED
    BY <2>1, <2>2, <2>3, <2>4
<1>10. CASE DescribeRetry
  <2>1. MessageType'
    BY <1>10 DEF MessageType, DescribeRetry, Resend, mboxVars, shellVars,
       callVars
  <2>2. StatusType' /\ ControlType' /\ CountType'
    BY <1>10, MgmtAssumption DEF StatusType, ControlType, CountType,
       Statuses, Returns, DescribeRetry, Resend, mboxVars, shellVars,
       callVars
  <2>3. IdInv' /\ CauseInv'
    BY <1>10 DEF IdInv, IdOk, CauseInv, CauseOk, DescribeRetry, Resend,
       mboxVars, shellVars, callVars
  <2>4. PresenceInv' /\ ReturnInv'
    BY <1>10 DEF PresenceInv, ReturnInv, DescribeRetry, Resend, mboxVars,
       shellVars, callVars
  <2> QED
    BY <2>1, <2>2, <2>3, <2>4
<1>11. CASE CmdReturn
  <2>1. MessageType'
    BY <1>11, MgmtAssumption DEF MessageType, ControlType, CountType,
       Commands, CmdReturn, NewCmd, Finish, Sync, mboxVars, shellVars,
       cmdVars
  <2>2. StatusType' /\ ControlType' /\ CountType'
    BY <1>11, MgmtAssumption DEF StatusType, ControlType, CountType,
       Statuses, Returns, CmdReturn, NewCmd, Finish, Sync, mboxVars,
       shellVars, cmdVars
  <2>3. IdInv' /\ CauseInv'
    BY <1>11 DEF IdInv, IdOk, CauseInv, CauseOk, CmdReturn, NewCmd, Finish,
       Sync, mboxVars, shellVars, cmdVars
  <2>4. PresenceInv' /\ ReturnInv'
    BY <1>11 DEF PresenceInv, ReturnInv, ControlType, CountType, Commands,
       MessageType, CmdReturn, NewCmd, Finish, Sync, mboxVars, shellVars,
       cmdVars
  <2> QED
    BY <2>1, <2>2, <2>3, <2>4
<1>12. CASE Described
  <2>1. MessageType'
    BY <1>12 DEF MessageType, Described, mboxVars, shellVars, cmdVars
  <2>2. StatusType' /\ ControlType' /\ CountType'
    <3>1. rsp \in Answers /\ cmd \in Commands /\ rsp.op = cmd.op
      BY <1>12 DEF Described, PresenceInv, ReturnInv
    <3>2. rsp.q \in {"ok", "err"}
      BY <3>1 DEF CauseInv, CauseOk, Distinct, Answers, Commands
    <3>3. StatusType'
      BY <1>12, <3>1, <3>2 DEF Described, StatusType, Answers, shellVars
    <3>4. ControlType' /\ CountType'
      BY <1>12 DEF Described, ControlType, CountType, cmdVars
    <3> QED
      BY <3>3, <3>4
  <2>3. IdInv' /\ CauseInv'
    BY <1>12 DEF IdInv, IdOk, CauseInv, CauseOk, Described, mboxVars,
       shellVars, cmdVars
  <2>4. PresenceInv' /\ ReturnInv'
    BY <1>12 DEF PresenceInv, ReturnInv, Described, mboxVars, shellVars,
       cmdVars
  <2> QED
    BY <2>1, <2>2, <2>3, <2>4
<1>13. CASE DescribeFailed
  <2>1. MessageType'
    BY <1>13 DEF MessageType, DescribeFailed, Finish, Sync, Resend, mboxVars,
       shellVars, callVars, cmdVars
  <2>2. StatusType' /\ ControlType' /\ CountType'
    BY <1>13, MgmtAssumption DEF StatusType, ControlType, CountType,
       Statuses, Returns, DescribeFailed, Finish, Sync, Resend, mboxVars,
       shellVars, callVars, cmdVars
  <2>3. IdInv' /\ CauseInv'
    BY <1>13 DEF IdInv, IdOk, CauseInv, CauseOk, DescribeFailed, Finish,
       Sync, Resend, mboxVars, shellVars, callVars, cmdVars
  <2>4. PresenceInv' /\ ReturnInv'
    BY <1>13 DEF PresenceInv, ReturnInv, DescribeFailed, Finish, Sync,
       Resend, mboxVars, shellVars, callVars, cmdVars
  <2> QED
    BY <2>1, <2>2, <2>3, <2>4
<1>14. CASE GetVersion
  <2>1. MessageType'
    <3>1. cmd' \in Commands \cup {None}
      BY <1>14 DEF GetVersion, NewCmd, Finish, MessageType, ControlType,
         CountType, Commands, cmdVars
    <3> QED
      BY <1>14, <3>1 DEF GetVersion, MessageType, shellVars
  <2>2. StatusType' /\ ControlType' /\ CountType'
    BY <1>14, MgmtAssumption DEF StatusType, ControlType, CountType,
       Statuses, Returns, GetVersion, NewCmd, Finish, shellVars, cmdVars
  <2>3. IdInv' /\ CauseInv'
    BY <1>14 DEF IdInv, IdOk, CauseInv, CauseOk, GetVersion, NewCmd, Finish,
       shellVars, cmdVars
  <2>4. PresenceInv' /\ ReturnInv'
    BY <1>14 DEF PresenceInv, ReturnInv, ControlType, CountType, Commands,
       GetVersion, NewCmd, Finish, shellVars, cmdVars
  <2> QED
    BY <2>1, <2>2, <2>3, <2>4
<1>15. CASE Reload
  <2>1. MessageType'
    BY <1>15 DEF MessageType, Reload, cmdVars
  <2>2. StatusType' /\ ControlType' /\ CountType'
    BY <1>15, MgmtAssumption DEF StatusType, ControlType, CountType,
       Statuses, Returns, Reload, cmdVars
  <2>3. IdInv' /\ CauseInv'
    BY <1>15 DEF IdInv, IdOk, CauseInv, CauseOk, Reload, cmdVars
  <2>4. PresenceInv' /\ ReturnInv'
    BY <1>15 DEF PresenceInv, ReturnInv, Reload, cmdVars
  <2> QED
    BY <2>1, <2>2, <2>3, <2>4
<1>16. CASE JudgePlain
  <2>1. MessageType'
    BY <1>16 DEF MessageType, JudgePlain, Finish, Sync, mboxVars, shellVars,
       callVars, cmdVars
  <2>2. StatusType' /\ ControlType' /\ CountType'
    BY <1>16, MgmtAssumption DEF StatusType, ControlType, CountType,
       Statuses, Returns, JudgePlain, Finish, Sync, mboxVars, shellVars,
       callVars, cmdVars
  <2>3. IdInv' /\ CauseInv'
    BY <1>16 DEF IdInv, IdOk, CauseInv, CauseOk, JudgePlain, Finish, Sync,
       mboxVars, shellVars, callVars, cmdVars
  <2>4. PresenceInv' /\ ReturnInv'
    BY <1>16 DEF PresenceInv, ReturnInv, JudgePlain, Finish, Sync, mboxVars,
       shellVars, callVars, cmdVars
  <2> QED
    BY <2>1, <2>2, <2>3, <2>4
<1>17. CASE JudgeWanted
  <2>1. MessageType'
    BY <1>17 DEF MessageType, JudgeWanted, Finish, Sync, Wanted, mboxVars,
       shellVars, cmdVars
  <2>2. StatusType' /\ ControlType' /\ CountType'
    BY <1>17, MgmtAssumption DEF StatusType, ControlType, CountType,
       Statuses, Returns, JudgeWanted, Finish, Sync, Wanted, mboxVars,
       shellVars, cmdVars
  <2>3. IdInv' /\ CauseInv'
    BY <1>17 DEF IdInv, IdOk, CauseInv, CauseOk, JudgeWanted, Finish, Sync,
       Wanted, mboxVars, shellVars, cmdVars
  <2>4. PresenceInv' /\ ReturnInv'
    BY <1>17 DEF PresenceInv, ReturnInv, JudgeWanted, Finish, Sync, Wanted,
       mboxVars, shellVars, cmdVars
  <2> QED
    BY <2>1, <2>2, <2>3, <2>4
<1>18. CASE JudgeBusy
  <2>1. MessageType'
    BY <1>18, MgmtAssumption DEF MessageType, ControlType, CountType,
       Commands, JudgeBusy, NewCmd, Finish, Sync, mboxVars, shellVars,
       cmdVars
  <2>2. StatusType' /\ ControlType' /\ CountType'
    BY <1>18, MgmtAssumption DEF StatusType, ControlType, CountType,
       Statuses, Returns, JudgeBusy, NewCmd, Finish, Sync, mboxVars,
       shellVars, cmdVars
  <2>3. IdInv' /\ CauseInv'
    BY <1>18 DEF IdInv, IdOk, CauseInv, CauseOk, JudgeBusy, NewCmd, Finish,
       Sync, mboxVars, shellVars, cmdVars
  <2>4. PresenceInv' /\ ReturnInv'
    BY <1>18 DEF PresenceInv, ReturnInv, ControlType, CountType, Commands,
       MessageType, JudgeBusy, NewCmd, Finish, Sync, mboxVars, shellVars,
       cmdVars
  <2> QED
    BY <2>1, <2>2, <2>3, <2>4
<1>19. CASE JudgeOther
  <2>1. MessageType'
    BY <1>19 DEF MessageType, JudgeOther, Finish, Sync, Wanted, mboxVars,
       shellVars, callVars, cmdVars
  <2>2. StatusType' /\ ControlType' /\ CountType'
    BY <1>19, MgmtAssumption DEF StatusType, ControlType, CountType,
       Statuses, Returns, JudgeOther, Finish, Sync, Wanted, mboxVars,
       shellVars, callVars, cmdVars
  <2>3. IdInv' /\ CauseInv'
    BY <1>19 DEF IdInv, IdOk, CauseInv, CauseOk, JudgeOther, Finish, Sync,
       Wanted, mboxVars, shellVars, callVars, cmdVars
  <2>4. PresenceInv' /\ ReturnInv'
    BY <1>19 DEF PresenceInv, ReturnInv, JudgeOther, Finish, Sync, Wanted,
       mboxVars, shellVars, callVars, cmdVars
  <2> QED
    BY <2>1, <2>2, <2>3, <2>4
<1>20. CASE PciFail
  <2>1. MessageType'
    BY <1>20 DEF MessageType, PciFail, Return, Finish, shellVars, callVars,
       cmdVars
  <2>2. StatusType' /\ ControlType' /\ CountType'
    <3>1. StatusType' /\ CountType'
      BY <1>20 DEF PciFail, StatusType, CountType, shellVars, callVars, cmdVars
    <3>2. pc' \in {"return", "idle", "judge"} /\ ret' \in Returns
      BY <1>20 DEF PciFail, Return, Finish, ControlType, Returns
    <3> QED
      BY <1>20, <3>1, <3>2 DEF PciFail, ControlType, callVars
  <2>3. IdInv' /\ CauseInv'
    BY <1>20 DEF IdInv, IdOk, CauseInv, CauseOk, PciFail, Return, Finish,
       shellVars, callVars, cmdVars
  <2>4. PresenceInv' /\ ReturnInv'
    <3>1. cmd' = cmd /\ rx' = rx
      BY <1>20 DEF PciFail, cmdVars
    <3>2. pc' = "return" => cmd \in Commands /\ ret' = "eio"
      BY <1>20 DEF PciFail, Return, Finish, PresenceInv
    <3>3. pc' \in {"return", "idle", "judge"}
      BY <1>20 DEF PciFail, Return, Finish
    <3>4. rxEvt' => rxEvt
      BY <1>20 DEF PciFail
    <3> QED
      BY <3>1, <3>2, <3>3, <3>4 DEF PresenceInv, ReturnInv
  <2> QED
    BY <2>1, <2>2, <2>3, <2>4
<1>21. CASE ShTake
  <2>1. MessageType'
    BY <1>21 DEF MessageType, ShTake, callVars, cmdVars
  <2>2. StatusType' /\ ControlType' /\ CountType'
    BY <1>21, MgmtAssumption DEF StatusType, ControlType, CountType,
       Statuses, Returns, ShTake, callVars, cmdVars
  <2>3. IdInv' /\ CauseInv'
    BY <1>21 DEF IdInv, IdOk, CauseInv, CauseOk, ShTake, callVars, cmdVars
  <2>4. PresenceInv' /\ ReturnInv'
    BY <1>21 DEF PresenceInv, ReturnInv, ShTake, callVars, cmdVars
  <2> QED
    BY <2>1, <2>2, <2>3, <2>4
<1>22. CASE ShMetrics
  <2>1. MessageType'
    BY <1>22 DEF MessageType, Commands, Answers, StatusType, ShMetrics,
       Answer, mboxVars, callVars, cmdVars
  <2>2. StatusType' /\ ControlType' /\ CountType'
    BY <1>22, MgmtAssumption DEF StatusType, ControlType, CountType,
       Statuses, Returns, ShMetrics, Answer, mboxVars, callVars, cmdVars
  <2>3. IdInv' /\ CauseInv'
    BY <1>22 DEF IdInv, IdOk, CauseInv, CauseOk, StatusType, ShMetrics,
       Answer, mboxVars, callVars, cmdVars
  <2>4. PresenceInv' /\ ReturnInv'
    BY <1>22 DEF PresenceInv, ReturnInv, ShMetrics, Answer, mboxVars,
       callVars, cmdVars
  <2> QED
    BY <2>1, <2>2, <2>3, <2>4
<1>23. CASE ShBegin
  <2>1. MessageType'
    BY <1>23 DEF MessageType, Commands, Answers, StatusType, ShBegin, Answer,
       Busy, mboxVars, callVars, cmdVars
  <2>2. StatusType' /\ ControlType' /\ CountType'
    <3>1. shCur.afi \in Afi \cup {None}
      BY <1>23 DEF ShBegin, MessageType, Commands
    <3> QED
      BY <1>23, <3>1 DEF StatusType, ControlType, CountType, Statuses, ShBegin,
         Answer, callVars, cmdVars
  <2>3. IdInv' /\ CauseInv'
    BY <1>23 DEF IdInv, IdOk, CauseInv, CauseOk, ShBegin, Answer, Busy,
       mboxVars, callVars, cmdVars
  <2>4. PresenceInv' /\ ReturnInv'
    BY <1>23 DEF PresenceInv, ReturnInv, ShBegin, Answer, Busy, mboxVars,
       callVars, cmdVars
  <2> QED
    BY <2>1, <2>2, <2>3, <2>4
<1>24. CASE ShError
  <2>1. MessageType'
    BY <1>24 DEF MessageType, Commands, Answers, StatusType, ShError, Answer,
       Busy, mboxVars, callVars, cmdVars
  <2>2. StatusType' /\ ControlType' /\ CountType'
    BY <1>24, MgmtAssumption DEF StatusType, ControlType, CountType,
       Statuses, Returns, ShError, Answer, Busy, mboxVars, callVars, cmdVars
  <2>3. IdInv' /\ CauseInv'
    BY <1>24 DEF IdInv, IdOk, CauseInv, CauseOk, ShError, Answer, Busy,
       mboxVars, callVars, cmdVars
  <2>4. PresenceInv' /\ ReturnInv'
    BY <1>24 DEF PresenceInv, ReturnInv, ShError, Answer, Busy, mboxVars,
       callVars, cmdVars
  <2> QED
    BY <2>1, <2>2, <2>3, <2>4
<1>25. CASE ShBad
  <2>1. MessageType'
    BY <1>25 DEF MessageType, Commands, Answers, StatusType, ShBad, Answer,
       mboxVars, callVars, cmdVars
  <2>2. StatusType' /\ ControlType' /\ CountType'
    BY <1>25, MgmtAssumption DEF StatusType, ControlType, CountType,
       Statuses, Returns, ShBad, Answer, mboxVars, callVars, cmdVars
  <2>3. IdInv' /\ CauseInv'
    BY <1>25 DEF IdInv, IdOk, CauseInv, CauseOk, ShBad, Answer, mboxVars,
       callVars, cmdVars
  <2>4. PresenceInv' /\ ReturnInv'
    BY <1>25 DEF PresenceInv, ReturnInv, ShBad, Answer, mboxVars, callVars,
       cmdVars
  <2> QED
    BY <2>1, <2>2, <2>3, <2>4
<1>26. CASE ShPost
  <2>1. MessageType'
    BY <1>26 DEF MessageType, ShPost, callVars, cmdVars
  <2>2. StatusType' /\ ControlType' /\ CountType'
    BY <1>26, MgmtAssumption DEF StatusType, ControlType, CountType,
       Statuses, Returns, ShPost, callVars, cmdVars
  <2>3. IdInv' /\ CauseInv'
    BY <1>26 DEF IdInv, IdOk, CauseInv, CauseOk, ShPost, callVars, cmdVars
  <2>4. PresenceInv' /\ ReturnInv'
    BY <1>26 DEF PresenceInv, ReturnInv, MessageType, ShPost, callVars,
       cmdVars
  <2> QED
    BY <2>1, <2>2, <2>3, <2>4
<1>27. CASE ShImage
  <2>1. MessageType'
    BY <1>27 DEF MessageType, ShImage, mboxVars, callVars, cmdVars
  <2>2. StatusType' /\ ControlType' /\ CountType'
    <3>1. StatusType'
      BY <1>27 DEF StatusType, Statuses, ShImage, callVars
    <3> QED
      BY <1>27, <3>1 DEF ControlType, CountType, ShImage, callVars, cmdVars
  <2>3. IdInv' /\ CauseInv'
    BY <1>27 DEF IdInv, IdOk, CauseInv, CauseOk, ShImage, mboxVars, callVars,
       cmdVars
  <2>4. PresenceInv' /\ ReturnInv'
    BY <1>27 DEF PresenceInv, ReturnInv, ShImage, mboxVars, callVars, cmdVars
  <2> QED
    BY <2>1, <2>2, <2>3, <2>4
<1>28. CASE Restart
  BY <1>28 DEF Restart
<1>29. CASE UNCHANGED vars
  BY <1>29 DEF vars, mboxVars, shellVars, callVars, cmdVars, MessageType,
     StatusType, ControlType, CountType, IdInv, IdOk, CauseInv, CauseOk,
     PresenceInv, ReturnInv
<1> QED
  BY <1>1, <1>2, <1>3, <1>4, <1>5, <1>6, <1>7, <1>8, <1>9, <1>10, <1>11,
     <1>12, <1>13, <1>14, <1>15, <1>16, <1>17, <1>18, <1>19, <1>20, <1>21,
     <1>22, <1>23, <1>24, <1>25, <1>26, <1>27, <1>28, <1>29 DEF Next, Host,
     Shell

----------------------------------------------------------------------------
(* What the library believes of the image.  Commands are answered in order,*)
(* so that once the shell has answered a load or clear, none older can     *)
(* still be on its way to change the image behind the caller's back; and a *)
(* status that an answer to the command under way reports is one that only *)
(* the caller itself could end.                                            *)

Transfer == {"attach", "clear", "write", "ack", "read", "return"}

\* A message of the command under way.
Current(m) == m # None /\ m.inst = cmd.inst

Before(m, n) == m # None => m.inst < n

\* Messages are older than the commands still to be made; one that has the
\* ordinal of the command under way is that command or its answer, and until
\* the command's first writing there is none.
OrderInv ==
    /\ Before(tx, nCmd) /\ Before(shCur, nCmd)
    /\ Before(shOut, nCmd) /\ Before(rx, nCmd) /\ Before(rsp, nCmd)
    /\ cmd # None => nCmd = cmd.inst + 1
    /\ Current(tx) => tx = cmd
    /\ Current(shCur) => shCur = cmd
    /\ pc \in {"attach", "clear", "write"} /\ resends = 0 =>
          /\ ~Current(tx) /\ ~Current(shCur)
          /\ ~Current(shOut) /\ ~Current(rx) /\ ~Current(rsp)
    /\ shCur = None \/ shOut = None

\* Where the parts of a call are.
StageInv ==
    /\ pc \in Transfer => stage \in {"cmd", "poll"}
    /\ pc \in Transfer /\ stage = "cmd" =>
          /\ resends = 0 /\ cmd.afi = want
          /\ cmd.op = (IF want = None THEN "clear" ELSE "load")
    /\ pc \in {"reload", "judge"} => stage = "poll"
    /\ stage = "poll" /\ pc # "idle" => cmd # None /\ cmd.op = "metrics"
    /\ stage \in {"pre", "cmd"} => info = NoInfo
    /\ stage = "cmd" => pc \in Transfer \cup {"idle"}
    /\ pc = "reload" => info.st = "loading_rl"

\* The image is on the way to what the call asked for, or there.
Ours ==
    /\ img.goal = want
    /\ img.st \in IF want = None THEN {"busy", "cleared"}
                  ELSE {"busy", "loading_rl", "loaded", "failed"}
    /\ want = None \/ img.st = "loaded" => img.afi = want

\* Nothing on its way to the shell would change the image.
Quiet == /\ tx # None => tx.op = "metrics"
         /\ shCur # None => shCur.op = "metrics"

\* The answer to the load or clear under way means that it has begun.
Begun(m) == Current(m) /\ m.op = cmd.op => tx = None /\ shCur = None /\ Ours

CmdInv ==
    pc \in Transfer /\ stage = "cmd" =>
        /\ Current(shCur) => tx = None
        /\ Begun(shOut) /\ Begun(rx) /\ Begun(rsp)

\* An answer to the description under way that reports the status waited for
\* reports it truly.
Tells(m) == Current(m) /\ m.st = Wanted => img.st = Wanted

PollInv ==
    Sync /\ stage = "poll" /\ pc # "idle" =>
        /\ Ours /\ Quiet
        /\ Tells(shOut) /\ Tells(rx) /\ Tells(rsp)
        /\ info.st = Wanted => img.st = Wanted

PostInv ==
    Sync /\ stage = "post" /\ (pc # "idle" \/ ret = "ok") =>
        Ours /\ Quiet /\ img.st = Wanted

\* The same of the request for an RL reload, until the call has given it.
Asks(m) == Current(m) /\ m.st = "loading_rl" => img.st = "loading_rl"

ReloadInv ==
    stage = "poll" /\ pc \notin {"idle", "judge"} =>
        /\ Asks(shOut) /\ Asks(rx) /\ Asks(rsp)
        /\ pc \in {"version", "reload"} /\ info.st = "loading_rl" =>
              img.st = "loading_rl"

ImageInv == OrderInv /\ StageInv /\ CmdInv /\ PollInv /\ PostInv /\ ReloadInv

----------------------------------------------------------------------------
\* A library that has made no command satisfies the invariant.
LEMMA ImageInit == Init => ImageInv
<1> SUFFICES ASSUME Init PROVE ImageInv
  OBVIOUS
<1>1. OrderInv
  BY DEF Init, OrderInv, Current, Before
<1>2. StageInv
  BY DEF Init, StageInv, Transfer, NoInfo
<1>3. CmdInv /\ PollInv /\ PostInv /\ ReloadInv
  BY DEF Init, CmdInv, PollInv, PostInv, ReloadInv
<1> QED
  BY <1>1, <1>2, <1>3 DEF ImageInv

\* Every step of the library and of its shell keeps it, one case per action.
LEMMA ImageStep ==
  ASSUME Restarts = FALSE, Distinct, MgmtInv, ImageInv, [Next]_vars
  PROVE  ImageInv'
<1> USE DEF ImageInv
<1>0. /\ MessageType /\ StatusType /\ ControlType /\ CountType
      /\ IdInv /\ CauseInv /\ PresenceInv /\ ReturnInv
  BY DEF MgmtInv, TypeOK
<1>00. /\ nextId = nCmd /\ nCmd \in Nat /\ None \notin Commands /\ None \notin Answers
  BY <1>0 DEF IdInv, CountType, Distinct
<1>N. /\ tx # None => tx.inst \in Nat
      /\ shCur # None => shCur.inst \in Nat
      /\ cmd # None => cmd.inst \in Nat
      /\ shOut # None => shOut.inst \in Nat
      /\ rx # None => rx.inst \in Nat
      /\ rsp # None => rsp.inst \in Nat
  BY <1>0 DEF MessageType, Commands, Answers
<1>P. PresenceInv' /\ (pc' = "attach" => cmd' # None)
  <2>1. MgmtInv'
    BY MgmtStep
  <2> QED
    BY <2>1 DEF MgmtInv, PresenceInv, Distinct
<1>1. CASE Describe
  <2>1. OrderInv'
    BY <1>1, <1>0, <1>00, <1>N, <1>P DEF OrderInv, Current, Before,
       Describe, NewCmd, NoInfo, mboxVars, shellVars
  <2>2. StageInv'
    BY <1>1, <1>0, <1>00, <1>N, <1>P DEF StageInv, Transfer, OrderInv,
       Describe, NewCmd, NoInfo, mboxVars, shellVars
  <2>3. CmdInv'
    BY <1>1, <1>0, <1>00, <1>N, <1>P DEF CmdInv, OrderInv, StageInv,
       Transfer, Begun, Current, Before, Ours, Describe, NewCmd, NoInfo,
       mboxVars, shellVars
  <2>4. PollInv'
    BY <1>1, <1>0, <1>00, <1>N, <1>P DEF PollInv, CmdInv, OrderInv,
       StageInv, Transfer, Begun, Current, Before, Ours, Quiet, Tells, Sync,
       Wanted, Describe, NewCmd, NoInfo, mboxVars, shellVars
  <2>5. PostInv'
    BY <1>1, <1>0, <1>00, <1>N, <1>P DEF PostInv, PollInv, StageInv,
       Transfer, Ours, Quiet, Sync, Wanted, Describe, NewCmd, NoInfo,
       mboxVars, shellVars
  <2>6. ReloadInv'
    BY <1>1, <1>0, <1>00, <1>N, <1>P DEF ReloadInv, OrderInv, StageInv,
       Transfer, Current, Before, Asks, Describe, NewCmd, NoInfo, mboxVars,
       shellVars
  <2> QED
    BY <2>1, <2>2, <2>3, <2>4, <2>5, <2>6
<1>2. ASSUME NEW a \in Afi \cup {None}, AsyncCall(a) PROVE ImageInv'
  <2>1. OrderInv'
    BY <1>2, <1>0, <1>00, <1>N, <1>P DEF OrderInv, Current, Before,
       AsyncCall, NewCmd, NoInfo, mboxVars, shellVars
  <2>2. StageInv'
    BY <1>2, <1>0, <1>00, <1>N, <1>P DEF StageInv, Transfer, OrderInv,
       AsyncCall, NewCmd, NoInfo, mboxVars, shellVars
  <2>3. CmdInv'
    BY <1>2, <1>0, <1>00, <1>N, <1>P DEF CmdInv, OrderInv, StageInv,
       Transfer, Begun, Current, Before, Ours, AsyncCall, NewCmd, NoInfo,
       mboxVars, shellVars
  <2>4. PollInv'
    BY <1>2, <1>0, <1>00, <1>N, <1>P DEF PollInv, CmdInv, OrderInv,
       StageInv, Transfer, Begun, Current, Before, Ours, Quiet, Tells, Sync,
       Wanted, AsyncCall, NewCmd, NoInfo, mboxVars, shellVars
  <2>5. PostInv'
    BY <1>2, <1>0, <1>00, <1>N, <1>P DEF PostInv, PollInv, StageInv,
       Transfer, Ours, Quiet, Sync, Wanted, AsyncCall, NewCmd, NoInfo,
       mboxVars, shellVars
  <2>6. ReloadInv'
    BY <1>2, <1>0, <1>00, <1>N, <1>P DEF ReloadInv, OrderInv, StageInv,
       Transfer, Current, Before, Asks, AsyncCall, NewCmd, NoInfo, mboxVars,
       shellVars
  <2> QED
    BY <2>1, <2>2, <2>3, <2>4, <2>5, <2>6
<1>3. ASSUME NEW a \in Afi \cup {None}, SyncCall(a) PROVE ImageInv'
  <2>1. OrderInv'
    BY <1>3, <1>0, <1>00 DEF OrderInv, Current, Before, SyncCall, NoInfo,
       mboxVars, shellVars, cmdVars
  <2>2. StageInv'
    BY <1>3, <1>0, <1>00 DEF StageInv, Transfer, OrderInv, SyncCall, NoInfo,
       mboxVars, shellVars, cmdVars
  <2>3. CmdInv'
    BY <1>3, <1>0, <1>00 DEF CmdInv, OrderInv, StageInv, Transfer, Begun,
       Current, Before, Ours, SyncCall, NoInfo, mboxVars, shellVars, cmdVars
  <2>4. PollInv'
    BY <1>3, <1>0, <1>00 DEF PollInv, CmdInv, OrderInv, StageInv, Transfer,
       Begun, Current, Before, Ours, Quiet, Tells, Sync, Wanted, SyncCall,
       NoInfo, mboxVars, shellVars, cmdVars
  <2>5. PostInv'
    BY <1>3, <1>0, <1>00 DEF PostInv, PollInv, StageInv, Transfer, Ours,
       Quiet, Sync, Wanted, SyncCall, NoInfo, mboxVars, shellVars, cmdVars
  <2>6. ReloadInv'
    BY <1>3, <1>0, <1>00 DEF ReloadInv, OrderInv, StageInv, Transfer,
       Current, Before, Asks, SyncCall, NoInfo, mboxVars, shellVars, cmdVars
  <2> QED
    BY <2>1, <2>2, <2>3, <2>4, <2>5, <2>6
<1>4. CASE Attach
  <2>1. OrderInv'
    BY <1>4, <1>0, <1>00 DEF OrderInv, Current, Before, Attach, shellVars,
       callVars, cmdVars
  <2>2. StageInv'
    BY <1>4, <1>0, <1>00 DEF StageInv, Transfer, OrderInv, Attach,
       shellVars, callVars, cmdVars
  <2>3. CmdInv'
    BY <1>4, <1>0, <1>00 DEF CmdInv, OrderInv, StageInv, Transfer, Begun,
       Current, Before, Ours, Attach, shellVars, callVars, cmdVars
  <2>4. PollInv'
    BY <1>4, <1>0, <1>00 DEF PollInv, CmdInv, OrderInv, StageInv, Transfer,
       Begun, Current, Before, Ours, Quiet, Tells, Sync, Wanted, Attach,
       shellVars, callVars, cmdVars
  <2>5. PostInv'
    BY <1>4, <1>0, <1>00 DEF PostInv, PollInv, StageInv, Transfer, Ours,
       Quiet, Sync, Wanted, Attach, shellVars, callVars, cmdVars
  <2>6. ReloadInv'
    BY <1>4, <1>0, <1>00 DEF ReloadInv, OrderInv, StageInv, Transfer,
       Current, Before, Asks, Attach, shellVars, callVars, cmdVars
  <2> QED
    BY <2>1, <2>2, <2>3, <2>4, <2>5, <2>6
<1>5. CASE WriteClear
  <2>1. OrderInv'
    BY <1>5, <1>0, <1>00 DEF OrderInv, Current, Before, WriteClear,
       shellVars, callVars, cmdVars
  <2>2. StageInv'
    BY <1>5, <1>0, <1>00 DEF StageInv, Transfer, OrderInv, WriteClear,
       shellVars, callVars, cmdVars
  <2>3. CmdInv'
    BY <1>5, <1>0, <1>00 DEF CmdInv, OrderInv, StageInv, Transfer, Begun,
       Current, Before, Ours, WriteClear, shellVars, callVars, cmdVars
  <2>4. PollInv'
    BY <1>5, <1>0, <1>00 DEF PollInv, CmdInv, OrderInv, StageInv, Transfer,
       Begun, Current, Before, Ours, Quiet, Tells, Sync, Wanted, WriteClear,
       shellVars, callVars, cmdVars
  <2>5. PostInv'
    BY <1>5, <1>0, <1>00 DEF PostInv, PollInv, StageInv, Transfer, Ours,
       Quiet, Sync, Wanted, WriteClear, shellVars, callVars, cmdVars
  <2>6. ReloadInv'
    BY <1>5, <1>0, <1>00 DEF ReloadInv, OrderInv, StageInv, Transfer,
       Current, Before, Asks, WriteClear, shellVars, callVars, cmdVars
  <2> QED
    BY <2>1, <2>2, <2>3, <2>4, <2>5, <2>6
<1>6. CASE Write
  <2>1. OrderInv'
    BY <1>6, <1>0, <1>00, <1>N, <1>P DEF OrderInv, Current, Before, Write,
       shellVars, callVars, cmdVars
  <2>2. StageInv'
    BY <1>6, <1>0, <1>00, <1>N, <1>P DEF StageInv, Transfer, OrderInv,
       Write, shellVars, callVars, cmdVars
  <2>3. CmdInv'
    BY <1>6, <1>0, <1>00, <1>N, <1>P DEF CmdInv, OrderInv, StageInv,
       Transfer, Begun, Current, Before, Ours, Write, shellVars, callVars,
       cmdVars
  <2>4. PollInv'
    BY <1>6, <1>0, <1>00, <1>N, <1>P DEF PollInv, CmdInv, OrderInv,
       StageInv, Transfer, Begun, Current, Before, Ours, Quiet, Tells, Sync,
       Wanted, Write, shellVars, callVars, cmdVars
  <2>5. PostInv'
    BY <1>6, <1>0, <1>00, <1>N, <1>P DEF PostInv, PollInv, StageInv,
       Transfer, Ours, Quiet, Sync, Wanted, Write, shellVars, callVars,
       cmdVars
  <2>6. ReloadInv'
    BY <1>6, <1>0, <1>00, <1>N, <1>P DEF ReloadInv, OrderInv, StageInv,
       Transfer, Current, Before, Asks, Write, shellVars, callVars, cmdVars
  <2> QED
    BY <2>1, <2>2, <2>3, <2>4, <2>5, <2>6
<1>7. CASE Ack
  <2>1. OrderInv'
    BY <1>7, <1>0, <1>00 DEF OrderInv, Current, Before, Ack, Return,
       shellVars, callVars, cmdVars
  <2>2. StageInv'
    BY <1>7, <1>0, <1>00 DEF StageInv, Transfer, OrderInv, Ack, Return,
       shellVars, callVars, cmdVars
  <2>3. CmdInv'
    BY <1>7, <1>0, <1>00 DEF CmdInv, OrderInv, StageInv, Transfer, Begun,
       Current, Before, Ours, Ack, Return, shellVars, callVars, cmdVars
  <2>4. PollInv'
    BY <1>7, <1>0, <1>00 DEF PollInv, CmdInv, OrderInv, StageInv, Transfer,
       Begun, Current, Before, Ours, Quiet, Tells, Sync, Wanted, Ack,
       Return, shellVars, callVars, cmdVars
  <2>5. PostInv'
    BY <1>7, <1>0, <1>00 DEF PostInv, PollInv, StageInv, Transfer, Ours,
       Quiet, Sync, Wanted, Ack, Return, shellVars, callVars, cmdVars
  <2>6. ReloadInv'
    BY <1>7, <1>0, <1>00 DEF ReloadInv, OrderInv, StageInv, Transfer,
       Current, Before, Asks, Ack, Return, shellVars, callVars, cmdVars
  <2> QED
    BY <2>1, <2>2, <2>3, <2>4, <2>5, <2>6
<1>8. CASE Read
  <2>1. OrderInv'
    BY <1>8, <1>0, <1>00 DEF OrderInv, Current, Before, Read, Return,
       Validate, shellVars, callVars, cmdVars
  <2>2. StageInv'
    BY <1>8, <1>0, <1>00 DEF StageInv, Transfer, OrderInv, Read, Return,
       Validate, shellVars, callVars, cmdVars
  <2>3. CmdInv'
    BY <1>8, <1>0, <1>00 DEF CmdInv, OrderInv, StageInv, Transfer, Begun,
       Current, Before, Ours, Read, Return, Validate, shellVars, callVars,
       cmdVars
  <2>4. PollInv'
    BY <1>8, <1>0, <1>00 DEF PollInv, CmdInv, OrderInv, StageInv, Transfer,
       Begun, Current, Before, Ours, Quiet, Tells, Sync, Wanted, Read,
       Return, Validate, shellVars, callVars, cmdVars
  <2>5. PostInv'
    BY <1>8, <1>0, <1>00 DEF PostInv, PollInv, StageInv, Transfer, Ours,
       Quiet, Sync, Wanted, Read, Return, Validate, shellVars, callVars,
       cmdVars
  <2>6. ReloadInv'
    BY <1>8, <1>0, <1>00 DEF ReloadInv, OrderInv, StageInv, Transfer,
       Current, Before, Asks, Read, Return, Validate, shellVars, callVars,
       cmdVars
  <2> QED
    BY <2>1, <2>2, <2>3, <2>4, <2>5, <2>6
<1>9. CASE ReadTimeout
  <2>1. OrderInv'
    BY <1>9, <1>0, <1>00 DEF OrderInv, Current, Before, ReadTimeout, Return,
       mboxVars, shellVars, callVars, cmdVars
  <2>2. StageInv'
    BY <1>9, <1>0, <1>00 DEF StageInv, Transfer, OrderInv, ReadTimeout,
       Return, mboxVars, shellVars, callVars, cmdVars
  <2>3. CmdInv'
    BY <1>9, <1>0, <1>00 DEF CmdInv, OrderInv, StageInv, Transfer, Begun,
       Current, Before, Ours, ReadTimeout, Return, mboxVars, shellVars,
       callVars, cmdVars
  <2>4. PollInv'
    BY <1>9, <1>0, <1>00 DEF PollInv, CmdInv, OrderInv, StageInv, Transfer,
       Begun, Current, Before, Ours, Quiet, Tells, Sync, Wanted,
       ReadTimeout, Return, mboxVars, shellVars, callVars, cmdVars
  <2>5. PostInv'
    BY <1>9, <1>0, <1>00 DEF PostInv, PollInv, StageInv, Transfer, Ours,
       Quiet, Sync, Wanted, ReadTimeout, Return, mboxVars, shellVars,
       callVars, cmdVars
  <2>6. ReloadInv'
    BY <1>9, <1>0, <1>00 DEF ReloadInv, OrderInv, StageInv, Transfer,
       Current, Before, Asks, ReadTimeout, Return, mboxVars, shellVars,
       callVars, cmdVars
  <2> QED
    BY <2>1, <2>2, <2>3, <2>4, <2>5, <2>6
<1>10. CASE DescribeRetry
  <2>1. OrderInv'
    BY <1>10, <1>0, <1>00, <1>N, <1>P DEF OrderInv, Current, Before,
       DescribeRetry, Resend, mboxVars, shellVars, callVars, CountType
  <2>2. StageInv'
    BY <1>10, <1>0, <1>00, <1>N, <1>P DEF StageInv, Transfer, OrderInv,
       DescribeRetry, Resend, mboxVars, shellVars, callVars
  <2>3. CmdInv'
    BY <1>10, <1>0, <1>00, <1>N, <1>P DEF CmdInv, OrderInv, StageInv,
       Transfer, Begun, Current, Before, Ours, DescribeRetry, Resend,
       mboxVars, shellVars, callVars
  <2>4. PollInv'
    BY <1>10, <1>0, <1>00, <1>N, <1>P DEF PollInv, CmdInv, OrderInv,
       StageInv, Transfer, Begun, Current, Before, Ours, Quiet, Tells, Sync,
       Wanted, DescribeRetry, Resend, mboxVars, shellVars, callVars
  <2>5. PostInv'
    BY <1>10, <1>0, <1>00, <1>N, <1>P DEF PostInv, PollInv, StageInv,
       Transfer, Ours, Quiet, Sync, Wanted, DescribeRetry, Resend, mboxVars,
       shellVars, callVars
  <2>6. ReloadInv'
    BY <1>10, <1>0, <1>00, <1>N, <1>P DEF ReloadInv, OrderInv, StageInv,
       Transfer, Current, Before, Asks, DescribeRetry, Resend, mboxVars,
       shellVars, callVars
  <2> QED
    BY <2>1, <2>2, <2>3, <2>4, <2>5, <2>6
<1>11. CASE CmdReturn
  <2>1. OrderInv'
    BY <1>11, <1>0, <1>00, <1>N, <1>P DEF OrderInv, Current, Before,
       CmdReturn, NewCmd, Finish, Sync, mboxVars, shellVars, cmdVars
  <2>2. StageInv'
    BY <1>11, <1>0, <1>00, <1>N, <1>P DEF StageInv, Transfer, OrderInv,
       CmdReturn, NewCmd, Finish, Sync, mboxVars, shellVars, cmdVars
  <2>3. CmdInv'
    BY <1>11, <1>0, <1>00, <1>N, <1>P DEF CmdInv, OrderInv, StageInv,
       Transfer, Begun, Current, Before, Ours, CmdReturn, NewCmd, Finish,
       Sync, mboxVars, shellVars, cmdVars
  <2>4. PollInv'
    <3> SUFFICES ASSUME pc = "return", stage = "cmd", Sync, ret = "ok"
                 PROVE  PollInv'
      BY <1>11 DEF CmdReturn, Finish, PollInv
    <3>1. Current(rsp) /\ rsp.op = cmd.op
      BY <1>0, <1>00 DEF ReturnInv, PresenceInv, IdInv, IdOk, Current
    <3>2. tx = None /\ shCur = None /\ Ours
      BY <3>1 DEF CmdInv, Begun, Transfer
    <3>3. info = NoInfo
      BY DEF StageInv
    <3>4. cmd' # None /\ cmd'.inst = nCmd
      BY <1>11, <1>00, <1>P DEF CmdReturn, NewCmd
    <3> QED
      BY <1>11, <1>N, <3>2, <3>3, <3>4 DEF CmdReturn, PollInv, Ours, Quiet, Tells,
         Current, Before, OrderInv, NoInfo, Wanted, mboxVars, shellVars
  <2>5. PostInv'
    BY <1>11, <1>0, <1>00, <1>N, <1>P DEF PostInv, PollInv, StageInv,
       Transfer, Ours, Quiet, Sync, Wanted, CmdReturn, NewCmd, Finish,
       mboxVars, shellVars, cmdVars
  <2>6. ReloadInv'
    BY <1>11, <1>0, <1>00, <1>N, <1>P DEF ReloadInv, OrderInv, StageInv,
       Transfer, Current, Before, Asks, CmdReturn, NewCmd, Finish, Sync,
       mboxVars, shellVars, cmdVars
  <2> QED
    BY <2>1, <2>2, <2>3, <2>4, <2>5, <2>6
<1>12. CASE Described
  <2>1. OrderInv'
    BY <1>12, <1>0, <1>00, <1>N DEF OrderInv, Current, Before, Described,
       mboxVars, shellVars, cmdVars, IdInv, IdOk, ReturnInv, PresenceInv
  <2>2. StageInv'
    BY <1>12, <1>0, <1>00, <1>N DEF StageInv, Transfer, OrderInv, Described,
       mboxVars, shellVars, cmdVars, IdInv, IdOk, ReturnInv, PresenceInv
  <2>3. CmdInv'
    BY <1>12, <1>0, <1>00, <1>N DEF CmdInv, OrderInv, StageInv, Transfer,
       Begun, Current, Before, Ours, Described, mboxVars, shellVars,
       cmdVars, IdInv, IdOk, ReturnInv, PresenceInv
  <2>4. PollInv'
    BY <1>12, <1>0, <1>00, <1>N DEF PollInv, CmdInv, OrderInv, StageInv,
       Transfer, Begun, Current, Before, Ours, Quiet, Tells, Sync, Wanted,
       Described, mboxVars, shellVars, cmdVars, IdInv, IdOk, ReturnInv,
       PresenceInv
  <2>5. PostInv'
    BY <1>12, <1>0, <1>00, <1>N DEF PostInv, PollInv, StageInv, Transfer,
       Ours, Quiet, Sync, Wanted, Described, mboxVars, shellVars, cmdVars,
       IdInv, IdOk, ReturnInv, PresenceInv
  <2>6. ReloadInv'
    BY <1>12, <1>0, <1>00, <1>N DEF ReloadInv, OrderInv, StageInv, Transfer,
       Current, Before, Asks, Described, mboxVars, shellVars, cmdVars,
       IdInv, IdOk, ReturnInv, PresenceInv
  <2> QED
    BY <2>1, <2>2, <2>3, <2>4, <2>5, <2>6
<1>13. CASE DescribeFailed
  <2>1. OrderInv'
    BY <1>13, <1>0, <1>00 DEF OrderInv, Current, Before, DescribeFailed,
       Finish, Resend, Sync, mboxVars, shellVars, callVars, cmdVars
  <2>2. StageInv'
    BY <1>13, <1>0, <1>00 DEF StageInv, Transfer, OrderInv, DescribeFailed,
       Finish, Resend, Sync, mboxVars, shellVars, callVars, cmdVars
  <2>3. CmdInv'
    BY <1>13, <1>0, <1>00 DEF CmdInv, OrderInv, StageInv, Transfer, Begun,
       Current, Before, Ours, DescribeFailed, Finish, Resend, Sync,
       mboxVars, shellVars, callVars, cmdVars
  <2>4. PollInv'
    BY <1>13, <1>0, <1>00 DEF PollInv, CmdInv, OrderInv, StageInv, Transfer,
       Begun, Current, Before, Ours, Quiet, Tells, Sync, Wanted,
       DescribeFailed, Finish, Resend, mboxVars, shellVars, callVars,
       cmdVars
  <2>5. PostInv'
    BY <1>13, <1>0, <1>00 DEF PostInv, PollInv, StageInv, Transfer, Ours,
       Quiet, Sync, Wanted, DescribeFailed, Finish, Resend, mboxVars,
       shellVars, callVars, cmdVars
  <2>6. ReloadInv'
    BY <1>13, <1>0, <1>00 DEF ReloadInv, OrderInv, StageInv, Transfer,
       Current, Before, Asks, DescribeFailed, Finish, Resend, Sync,
       mboxVars, shellVars, callVars, cmdVars
  <2> QED
    BY <2>1, <2>2, <2>3, <2>4, <2>5, <2>6
<1>14. CASE GetVersion
  <2>1. OrderInv'
    BY <1>14, <1>0, <1>00, <1>N, <1>P DEF OrderInv, Current, Before,
       GetVersion, NewCmd, Finish, shellVars, cmdVars
  <2>2. StageInv'
    BY <1>14, <1>0, <1>00, <1>N, <1>P DEF StageInv, Transfer, OrderInv,
       GetVersion, NewCmd, Finish, shellVars, cmdVars
  <2>3. CmdInv'
    BY <1>14, <1>0, <1>00, <1>N, <1>P DEF CmdInv, OrderInv, StageInv,
       Transfer, Begun, Current, Before, Ours, GetVersion, NewCmd, Finish,
       shellVars, cmdVars
  <2>4. PollInv'
    BY <1>14, <1>0, <1>00, <1>N, <1>P DEF PollInv, CmdInv, OrderInv,
       StageInv, Transfer, Begun, Current, Before, Ours, Quiet, Tells, Sync,
       Wanted, GetVersion, NewCmd, Finish, shellVars, cmdVars
  <2>5. PostInv'
    BY <1>14, <1>0, <1>00, <1>N, <1>P DEF PostInv, PollInv, StageInv,
       Transfer, Ours, Quiet, Sync, Wanted, GetVersion, NewCmd, Finish,
       shellVars, cmdVars
  <2>6. ReloadInv'
    BY <1>14, <1>0, <1>00, <1>N, <1>P DEF ReloadInv, OrderInv, StageInv,
       Transfer, Current, Before, Asks, GetVersion, NewCmd, Finish,
       shellVars, cmdVars
  <2> QED
    BY <2>1, <2>2, <2>3, <2>4, <2>5, <2>6
<1>15. CASE Reload
  <2>1. OrderInv'
    BY <1>15, <1>0, <1>00 DEF OrderInv, Current, Before, Reload, cmdVars
  <2>2. StageInv'
    BY <1>15, <1>0, <1>00 DEF StageInv, Transfer, OrderInv, Reload, cmdVars
  <2>3. CmdInv'
    BY <1>15, <1>0, <1>00 DEF CmdInv, OrderInv, StageInv, Transfer, Begun,
       Current, Before, Ours, Reload, cmdVars
  <2>4. PollInv'
    BY <1>15, <1>0, <1>00 DEF PollInv, CmdInv, OrderInv, StageInv, Transfer,
       Begun, Current, Before, Ours, Quiet, Tells, Sync, Wanted, Reload,
       cmdVars
  <2>5. PostInv'
    BY <1>15, <1>0, <1>00 DEF PostInv, PollInv, StageInv, Transfer, Ours,
       Quiet, Sync, Wanted, Reload, cmdVars
  <2>6. ReloadInv'
    BY <1>15, <1>0, <1>00 DEF ReloadInv, OrderInv, StageInv, Transfer,
       Current, Before, Asks, Reload, cmdVars
  <2> QED
    BY <2>1, <2>2, <2>3, <2>4, <2>5, <2>6
<1>16. CASE JudgePlain
  <2>1. OrderInv'
    BY <1>16, <1>0, <1>00 DEF OrderInv, Current, Before, JudgePlain, Finish,
       Sync, mboxVars, shellVars, callVars, cmdVars
  <2>2. StageInv'
    BY <1>16, <1>0, <1>00 DEF StageInv, Transfer, OrderInv, JudgePlain,
       Finish, Sync, mboxVars, shellVars, callVars, cmdVars
  <2>3. CmdInv'
    BY <1>16, <1>0, <1>00 DEF CmdInv, OrderInv, StageInv, Transfer, Begun,
       Current, Before, Ours, JudgePlain, Finish, Sync, mboxVars, shellVars,
       callVars, cmdVars
  <2>4. PollInv'
    BY <1>16, <1>0, <1>00 DEF PollInv, CmdInv, OrderInv, StageInv, Transfer,
       Begun, Current, Before, Ours, Quiet, Tells, Sync, Wanted, JudgePlain,
       Finish, mboxVars, shellVars, callVars, cmdVars
  <2>5. PostInv'
    BY <1>16, <1>0, <1>00 DEF PostInv, PollInv, StageInv, Transfer, Ours,
       Quiet, Sync, Wanted, JudgePlain, Finish, mboxVars, shellVars,
       callVars, cmdVars
  <2>6. ReloadInv'
    BY <1>16, <1>0, <1>00 DEF ReloadInv, OrderInv, StageInv, Transfer,
       Current, Before, Asks, JudgePlain, Finish, Sync, mboxVars, shellVars,
       callVars, cmdVars
  <2> QED
    BY <2>1, <2>2, <2>3, <2>4, <2>5, <2>6
<1>17. CASE JudgeWanted
  <2>1. OrderInv'
    BY <1>17, <1>0, <1>00 DEF OrderInv, Current, Before, JudgeWanted,
       Finish, Wanted, Sync, mboxVars, shellVars, cmdVars
  <2>2. StageInv'
    BY <1>17, <1>0, <1>00 DEF StageInv, Transfer, OrderInv, JudgeWanted,
       Finish, Wanted, Sync, mboxVars, shellVars, cmdVars
  <2>3. CmdInv'
    BY <1>17, <1>0, <1>00 DEF CmdInv, OrderInv, StageInv, Transfer, Begun,
       Current, Before, Ours, JudgeWanted, Finish, Wanted, Sync, mboxVars,
       shellVars, cmdVars
  <2>4. PollInv'
    BY <1>17, <1>0, <1>00 DEF PollInv, CmdInv, OrderInv, StageInv, Transfer,
       Begun, Current, Before, Ours, Quiet, Tells, Sync, Wanted,
       JudgeWanted, Finish, mboxVars, shellVars, cmdVars
  <2>5. PostInv'
    BY <1>17, <1>0, <1>00 DEF PostInv, PollInv, StageInv, Transfer, Ours,
       Quiet, Sync, Wanted, JudgeWanted, Finish, mboxVars, shellVars,
       cmdVars
  <2>6. ReloadInv'
    BY <1>17, <1>0, <1>00 DEF ReloadInv, OrderInv, StageInv, Transfer,
       Current, Before, Asks, JudgeWanted, Finish, Wanted, Sync, mboxVars,
       shellVars, cmdVars
  <2> QED
    BY <2>1, <2>2, <2>3, <2>4, <2>5, <2>6
<1>18. CASE JudgeBusy
  <2>1. OrderInv'
    BY <1>18, <1>0, <1>00, <1>N, <1>P DEF OrderInv, Current, Before,
       JudgeBusy, NewCmd, Finish, Sync, mboxVars, shellVars, cmdVars
  <2>2. StageInv'
    BY <1>18, <1>0, <1>00, <1>N, <1>P DEF StageInv, Transfer, OrderInv,
       JudgeBusy, NewCmd, Finish, Sync, mboxVars, shellVars, cmdVars
  <2>3. CmdInv'
    BY <1>18, <1>0, <1>00, <1>N, <1>P DEF CmdInv, OrderInv, StageInv,
       Transfer, Begun, Current, Before, Ours, JudgeBusy, NewCmd, Finish,
       Sync, mboxVars, shellVars, cmdVars
  <2>4. PollInv'
    BY <1>18, <1>0, <1>00, <1>N, <1>P DEF PollInv, CmdInv, OrderInv,
       StageInv, Transfer, Begun, Current, Before, Ours, Quiet, Tells, Sync,
       Wanted, JudgeBusy, NewCmd, Finish, mboxVars, shellVars, cmdVars
  <2>5. PostInv'
    BY <1>18, <1>0, <1>00, <1>N, <1>P DEF PostInv, PollInv, StageInv,
       Transfer, Ours, Quiet, Sync, Wanted, JudgeBusy, NewCmd, Finish,
       mboxVars, shellVars, cmdVars
  <2>6. ReloadInv'
    BY <1>18, <1>0, <1>00, <1>N, <1>P DEF ReloadInv, OrderInv, StageInv,
       Transfer, Current, Before, Asks, JudgeBusy, NewCmd, Finish, Sync,
       mboxVars, shellVars, cmdVars
  <2> QED
    BY <2>1, <2>2, <2>3, <2>4, <2>5, <2>6
<1>19. CASE JudgeOther
  <2>1. OrderInv'
    BY <1>19, <1>0, <1>00 DEF OrderInv, Current, Before, JudgeOther, Finish,
       Wanted, Sync, mboxVars, shellVars, callVars, cmdVars
  <2>2. StageInv'
    BY <1>19, <1>0, <1>00 DEF StageInv, Transfer, OrderInv, JudgeOther,
       Finish, Wanted, Sync, mboxVars, shellVars, callVars, cmdVars
  <2>3. CmdInv'
    BY <1>19, <1>0, <1>00 DEF CmdInv, OrderInv, StageInv, Transfer, Begun,
       Current, Before, Ours, JudgeOther, Finish, Wanted, Sync, mboxVars,
       shellVars, callVars, cmdVars
  <2>4. PollInv'
    BY <1>19, <1>0, <1>00 DEF PollInv, CmdInv, OrderInv, StageInv, Transfer,
       Begun, Current, Before, Ours, Quiet, Tells, Sync, Wanted, JudgeOther,
       Finish, mboxVars, shellVars, callVars, cmdVars
  <2>5. PostInv'
    BY <1>19, <1>0, <1>00 DEF PostInv, PollInv, StageInv, Transfer, Ours,
       Quiet, Sync, Wanted, JudgeOther, Finish, mboxVars, shellVars,
       callVars, cmdVars
  <2>6. ReloadInv'
    BY <1>19, <1>0, <1>00 DEF ReloadInv, OrderInv, StageInv, Transfer,
       Current, Before, Asks, JudgeOther, Finish, Wanted, Sync, mboxVars,
       shellVars, callVars, cmdVars
  <2> QED
    BY <2>1, <2>2, <2>3, <2>4, <2>5, <2>6
<1>20. CASE PciFail
  <2>1. OrderInv'
    BY <1>20, <1>0, <1>00 DEF OrderInv, Current, Before, PciFail, Return,
       Finish, shellVars, callVars, cmdVars
  <2>2. StageInv'
    BY <1>20, <1>0, <1>00 DEF StageInv, Transfer, OrderInv, PciFail, Return,
       Finish, shellVars, callVars, cmdVars
  <2>3. CmdInv'
    BY <1>20, <1>0, <1>00 DEF CmdInv, OrderInv, StageInv, Transfer, Begun,
       Current, Before, Ours, PciFail, Return, Finish, shellVars, callVars,
       cmdVars
  <2>4. PollInv'
    BY <1>20, <1>0, <1>00 DEF PollInv, CmdInv, OrderInv, StageInv, Transfer,
       Begun, Current, Before, Ours, Quiet, Tells, Sync, Wanted, PciFail,
       Return, Finish, shellVars, callVars, cmdVars
  <2>5. PostInv'
    BY <1>20, <1>0, <1>00 DEF PostInv, PollInv, StageInv, Transfer, Ours,
       Quiet, Sync, Wanted, PciFail, Return, Finish, shellVars, callVars,
       cmdVars
  <2>6. ReloadInv'
    BY <1>20, <1>0, <1>00 DEF ReloadInv, OrderInv, StageInv, Transfer,
       Current, Before, Asks, PciFail, Return, Finish, shellVars, callVars,
       cmdVars
  <2> QED
    BY <2>1, <2>2, <2>3, <2>4, <2>5, <2>6
<1>21. CASE ShTake
  <2>1. OrderInv'
    BY <1>21, <1>0, <1>00 DEF OrderInv, Current, Before, ShTake, callVars,
       cmdVars
  <2>2. StageInv'
    BY <1>21, <1>0, <1>00 DEF StageInv, Transfer, OrderInv, ShTake,
       callVars, cmdVars
  <2>3. CmdInv'
    BY <1>21, <1>0, <1>00 DEF CmdInv, OrderInv, StageInv, Transfer, Begun,
       Current, Before, Ours, ShTake, callVars, cmdVars
  <2>4. PollInv'
    BY <1>21, <1>0, <1>00 DEF PollInv, CmdInv, OrderInv, StageInv, Transfer,
       Begun, Current, Before, Ours, Quiet, Tells, Sync, Wanted, ShTake,
       callVars, cmdVars
  <2>5. PostInv'
    BY <1>21, <1>0, <1>00 DEF PostInv, PollInv, StageInv, Transfer, Ours,
       Quiet, Sync, Wanted, ShTake, callVars, cmdVars
  <2>6. ReloadInv'
    BY <1>21, <1>0, <1>00 DEF ReloadInv, OrderInv, StageInv, Transfer,
       Current, Before, Asks, ShTake, callVars, cmdVars
  <2> QED
    BY <2>1, <2>2, <2>3, <2>4, <2>5, <2>6
<1>22. CASE ShMetrics
  <2>1. OrderInv'
    BY <1>22, <1>0, <1>00 DEF OrderInv, Current, Before, ShMetrics, Answer,
       mboxVars, callVars, cmdVars
  <2>2. StageInv'
    BY <1>22, <1>0, <1>00 DEF StageInv, Transfer, OrderInv, ShMetrics,
       Answer, mboxVars, callVars, cmdVars
  <2>3. CmdInv'
    BY <1>22, <1>0, <1>00 DEF CmdInv, OrderInv, StageInv, Transfer, Begun,
       Current, Before, Ours, ShMetrics, Answer, mboxVars, callVars, cmdVars
  <2>4. PollInv'
    BY <1>22, <1>0, <1>00 DEF PollInv, CmdInv, OrderInv, StageInv, Transfer,
       Begun, Current, Before, Ours, Quiet, Tells, Sync, Wanted, ShMetrics,
       Answer, mboxVars, callVars, cmdVars
  <2>5. PostInv'
    BY <1>22, <1>0, <1>00 DEF PostInv, PollInv, StageInv, Transfer, Ours,
       Quiet, Sync, Wanted, ShMetrics, Answer, mboxVars, callVars, cmdVars
  <2>6. ReloadInv'
    BY <1>22, <1>0, <1>00 DEF ReloadInv, OrderInv, StageInv, Transfer,
       Current, Before, Asks, ShMetrics, Answer, mboxVars, callVars, cmdVars
  <2> QED
    BY <2>1, <2>2, <2>3, <2>4, <2>5, <2>6
<1>23. CASE ShBegin
  <2>1. OrderInv'
    BY <1>23, <1>0, <1>00 DEF OrderInv, Current, Before, ShBegin, Answer,
       Busy, mboxVars, callVars, cmdVars
  <2>2. StageInv'
    BY <1>23, <1>0, <1>00 DEF StageInv, Transfer, OrderInv, ShBegin, Answer,
       Busy, mboxVars, callVars, cmdVars
  <2>3. CmdInv'
    BY <1>23, <1>0, <1>00 DEF CmdInv, OrderInv, StageInv, Transfer, Begun,
       Current, Before, Ours, ShBegin, Answer, Busy, mboxVars, callVars,
       cmdVars
  <2>4. PollInv'
    BY <1>23, <1>0, <1>00 DEF PollInv, CmdInv, OrderInv, StageInv, Transfer,
       Begun, Current, Before, Ours, Quiet, Tells, Sync, Wanted, ShBegin,
       Answer, Busy, mboxVars, callVars, cmdVars
  <2>5. PostInv'
    BY <1>23, <1>0, <1>00 DEF PostInv, PollInv, StageInv, Transfer, Ours,
       Quiet, Sync, Wanted, ShBegin, Answer, Busy, mboxVars, callVars,
       cmdVars
  <2>6. ReloadInv'
    BY <1>23, <1>0, <1>00 DEF ReloadInv, OrderInv, StageInv, Transfer,
       Current, Before, Asks, ShBegin, Answer, Busy, mboxVars, callVars,
       cmdVars
  <2> QED
    BY <2>1, <2>2, <2>3, <2>4, <2>5, <2>6
<1>24. CASE ShError
  <2>1. OrderInv'
    BY <1>24, <1>0, <1>00 DEF OrderInv, Current, Before, ShError, Answer,
       Busy, mboxVars, callVars, cmdVars
  <2>2. StageInv'
    BY <1>24, <1>0, <1>00 DEF StageInv, Transfer, OrderInv, ShError, Answer,
       Busy, mboxVars, callVars, cmdVars
  <2>3. CmdInv'
    BY <1>24, <1>0, <1>00 DEF CmdInv, OrderInv, StageInv, Transfer, Begun,
       Current, Before, Ours, ShError, Answer, Busy, mboxVars, callVars,
       cmdVars
  <2>4. PollInv'
    BY <1>24, <1>0, <1>00 DEF PollInv, CmdInv, OrderInv, StageInv, Transfer,
       Begun, Current, Before, Ours, Quiet, Tells, Sync, Wanted, ShError,
       Answer, Busy, mboxVars, callVars, cmdVars
  <2>5. PostInv'
    BY <1>24, <1>0, <1>00 DEF PostInv, PollInv, StageInv, Transfer, Ours,
       Quiet, Sync, Wanted, ShError, Answer, Busy, mboxVars, callVars,
       cmdVars
  <2>6. ReloadInv'
    BY <1>24, <1>0, <1>00 DEF ReloadInv, OrderInv, StageInv, Transfer,
       Current, Before, Asks, ShError, Answer, Busy, mboxVars, callVars,
       cmdVars
  <2> QED
    BY <2>1, <2>2, <2>3, <2>4, <2>5, <2>6
<1>25. CASE ShBad
  <2>1. OrderInv'
    BY <1>25, <1>0, <1>00 DEF OrderInv, Current, Before, ShBad, Answer,
       mboxVars, callVars, cmdVars
  <2>2. StageInv'
    BY <1>25, <1>0, <1>00 DEF StageInv, Transfer, OrderInv, ShBad, Answer,
       mboxVars, callVars, cmdVars
  <2>3. CmdInv'
    BY <1>25, <1>0, <1>00 DEF CmdInv, OrderInv, StageInv, Transfer, Begun,
       Current, Before, Ours, ShBad, Answer, mboxVars, callVars, cmdVars
  <2>4. PollInv'
    BY <1>25, <1>0, <1>00 DEF PollInv, CmdInv, OrderInv, StageInv, Transfer,
       Begun, Current, Before, Ours, Quiet, Tells, Sync, Wanted, ShBad,
       Answer, mboxVars, callVars, cmdVars
  <2>5. PostInv'
    BY <1>25, <1>0, <1>00 DEF PostInv, PollInv, StageInv, Transfer, Ours,
       Quiet, Sync, Wanted, ShBad, Answer, mboxVars, callVars, cmdVars
  <2>6. ReloadInv'
    BY <1>25, <1>0, <1>00 DEF ReloadInv, OrderInv, StageInv, Transfer,
       Current, Before, Asks, ShBad, Answer, mboxVars, callVars, cmdVars
  <2> QED
    BY <2>1, <2>2, <2>3, <2>4, <2>5, <2>6
<1>26. CASE ShPost
  <2>1. OrderInv'
    BY <1>26, <1>0, <1>00 DEF OrderInv, Current, Before, ShPost, callVars,
       cmdVars
  <2>2. StageInv'
    BY <1>26, <1>0, <1>00 DEF StageInv, Transfer, OrderInv, ShPost,
       callVars, cmdVars
  <2>3. CmdInv'
    BY <1>26, <1>0, <1>00 DEF CmdInv, OrderInv, StageInv, Transfer, Begun,
       Current, Before, Ours, ShPost, callVars, cmdVars
  <2>4. PollInv'
    BY <1>26, <1>0, <1>00 DEF PollInv, CmdInv, OrderInv, StageInv, Transfer,
       Begun, Current, Before, Ours, Quiet, Tells, Sync, Wanted, ShPost,
       callVars, cmdVars
  <2>5. PostInv'
    BY <1>26, <1>0, <1>00 DEF PostInv, PollInv, StageInv, Transfer, Ours,
       Quiet, Sync, Wanted, ShPost, callVars, cmdVars
  <2>6. ReloadInv'
    BY <1>26, <1>0, <1>00 DEF ReloadInv, OrderInv, StageInv, Transfer,
       Current, Before, Asks, ShPost, callVars, cmdVars
  <2> QED
    BY <2>1, <2>2, <2>3, <2>4, <2>5, <2>6
<1>27. CASE ShImage
  <2>1. OrderInv'
    BY <1>27, <1>0, <1>00 DEF OrderInv, Current, Before, ShImage, mboxVars,
       callVars, cmdVars, StatusType
  <2>2. StageInv'
    BY <1>27, <1>0, <1>00 DEF StageInv, Transfer, OrderInv, ShImage,
       mboxVars, callVars, cmdVars, StatusType
  <2>3. CmdInv'
    BY <1>27, <1>0, <1>00 DEF CmdInv, OrderInv, StageInv, Transfer, Begun,
       Current, Before, Ours, ShImage, mboxVars, callVars, cmdVars,
       StatusType
  <2>4. PollInv'
    BY <1>27, <1>0, <1>00 DEF PollInv, CmdInv, OrderInv, StageInv, Transfer,
       Begun, Current, Before, Ours, Quiet, Tells, Sync, Wanted, ShImage,
       mboxVars, callVars, cmdVars, StatusType
  <2>5. PostInv'
    BY <1>27, <1>0, <1>00 DEF PostInv, PollInv, StageInv, Transfer, Ours,
       Quiet, Sync, Wanted, ShImage, mboxVars, callVars, cmdVars, StatusType
  <2>6. ReloadInv'
    BY <1>27, <1>0, <1>00 DEF ReloadInv, OrderInv, StageInv, Transfer,
       Current, Before, Asks, ShImage, mboxVars, callVars, cmdVars,
       StatusType
  <2> QED
    BY <2>1, <2>2, <2>3, <2>4, <2>5, <2>6
<1>28. CASE Restart
  BY <1>28 DEF Restart
<1>29. CASE UNCHANGED vars
  BY <1>29 DEF vars, mboxVars, shellVars, callVars, cmdVars, OrderInv, StageInv,
     CmdInv, PollInv, PostInv, ReloadInv, Current, Before, Begun, Ours, Quiet,
     Tells, Asks, Sync, Wanted
<1> QED
  BY <1>1, <1>2, <1>3, <1>4, <1>5, <1>6, <1>7, <1>8, <1>9, <1>10, <1>11,
     <1>12, <1>13, <1>14, <1>15, <1>16, <1>17, <1>18, <1>19, <1>20, <1>21,
     <1>22, <1>23, <1>24, <1>25, <1>26, <1>27, <1>28, <1>29 DEF Next, Host,
     Shell

----------------------------------------------------------------------------
\* Both invariants hold in every reachable state.
LEMMA MgmtInvariant ==
  ASSUME Restarts = FALSE
  PROVE  Spec => [](MgmtInv /\ ImageInv)
<1>1. Init => MgmtInv /\ ImageInv
  BY MgmtInit, ImageInit
<1>2. MgmtInv /\ ImageInv /\ [Next]_vars => (MgmtInv /\ ImageInv)'
  BY MgmtStep, ImageStep, DistinctAssumption
<1> QED
  BY <1>1, <1>2, PTL DEF Spec

\* The library, its mailbox and the shell keep their types, and the retries of
\* fpga_mgmt_send_cmd, fpga_mgmt_describe_cmd and of the synchronous calls their
\* limits, while one process lives.
THEOREM MgmtTypes ==
  ASSUME Restarts = FALSE
  PROVE  Spec => []TypeOK
<1>1. MgmtInv => TypeOK
  BY DEF MgmtInv
<1> QED
  BY <1>1, MgmtInvariant, PTL

\* A command that returns success has the shell's answer to this very command
\* (fpga_mgmt_process_cmd), however late the answers are.
THEOREM MgmtSafe ==
  ASSUME Restarts = FALSE
  PROVE  Spec => []OwnAnswer
<1>1. MgmtInv => OwnAnswer
  <2> SUFFICES ASSUME MgmtInv, pc = "return", ret = "ok"
               PROVE  rsp.inst = cmd.inst
    BY DEF MgmtInv, OwnAnswer
  <2>1. rsp # None /\ cmd # None /\ rsp.id = cmd.id
    BY DistinctAssumption DEF MgmtInv, PresenceInv, ReturnInv, Distinct
  <2> QED
    BY <2>1 DEF MgmtInv, IdInv, IdOk
<1> QED
  BY <1>1, MgmtInvariant, PTL

\* A synchronous load or clear that saw the status it waits for
\* (fpga_mgmt_load_local_image_sync_flags, fpga_mgmt_clear_local_image_sync) and
\* returns 0 leaves the slot with that status and the image asked for.
THEOREM SeenStatusIsTrue ==
  ASSUME Restarts = FALSE
  PROVE  Spec => []SeenIsTrue
<1>1. ImageInv => SeenIsTrue
  BY DEF ImageInv, PostInv, SeenIsTrue, Ours, Wanted
<1> QED
  BY <1>1, MgmtInvariant, PTL

\* fpga_mgmt_describe_cmd gives the RL reload signal only to a shell that still
\* waits for it.
THEOREM ReloadOnlyWhenAsked ==
  ASSUME Restarts = FALSE
  PROVE  Spec => ReloadWhenAsked
<1>1. ImageInv => [Reload => img.st = "loading_rl"]_vars
  <2> SUFFICES ASSUME ImageInv, Reload PROVE img.st = "loading_rl"
    OBVIOUS
  <2>1. pc = "reload" /\ stage = "poll" /\ info.st = "loading_rl"
    BY DEF Reload, ImageInv, StageInv
  <2> QED
    BY <2>1 DEF ImageInv, ReloadInv
<1> QED
  BY <1>1, MgmtInvariant, PTL DEF ReloadWhenAsked

----------------------------------------------------------------------------
(* Every call runs down, in this process and in those after it.            *)

\* The loops' counters, and where the caller's thread may be.
LoopInv ==
    /\ pc \in DOMAIN Place /\ stage \in DOMAIN StagesLeft
    /\ polls \in Nat /\ resends \in Nat /\ drains \in Nat
    /\ pc \in {"reload", "judge"} => stage = "poll"
    /\ DOMAIN img = {"st", "q", "afi", "goal"}

LEMMA LoopInit == Init => LoopInv
BY DEF Init, LoopInv, Place, StagesLeft

LEMMA LoopStep == LoopInv /\ [Next]_vars => LoopInv'
<1> SUFFICES ASSUME LoopInv, [Next]_vars PROVE LoopInv'
  OBVIOUS
<1> USE DEF LoopInv, Place, StagesLeft, NewCmd, Return, Finish,
            mboxVars, shellVars, callVars, cmdVars
<1>1. CASE Describe BY <1>1 DEF Describe
<1>2. CASE \E a \in Afi \cup {None} : AsyncCall(a) \/ SyncCall(a)
  BY <1>2 DEF AsyncCall, SyncCall
<1>3. CASE Attach \/ WriteClear \/ Write \/ Ack BY <1>3 DEF Attach, WriteClear, Write, Ack
<1>4. CASE Read BY <1>4 DEF Read
<1>5. CASE ReadTimeout BY <1>5 DEF ReadTimeout
<1>6. CASE DescribeRetry BY <1>6 DEF DescribeRetry
<1>7. CASE CmdReturn BY <1>7 DEF CmdReturn
<1>8. CASE Described \/ DescribeFailed BY <1>8 DEF Described, DescribeFailed
<1>9. CASE GetVersion BY <1>9 DEF GetVersion
<1>10. CASE Reload BY <1>10 DEF Reload
<1>11. CASE JudgePlain \/ JudgeWanted \/ JudgeOther
  BY <1>11 DEF JudgePlain, JudgeWanted, JudgeOther
<1>12. CASE JudgeBusy BY <1>12 DEF JudgeBusy
<1>13. CASE PciFail BY <1>13 DEF PciFail
<1>14. CASE Restart BY <1>14 DEF Restart
<1>15. CASE ShTake \/ ShPost BY <1>15 DEF ShTake, ShPost
<1>16. CASE ShMetrics \/ ShError \/ ShBad BY <1>16 DEF ShMetrics, ShError, ShBad, Answer
<1>17. CASE ShBegin BY <1>17 DEF ShBegin, Answer
<1>18. CASE ShImage BY <1>18 DEF ShImage
<1>19. CASE UNCHANGED vars BY <1>19 DEF vars
<1> QED
  BY <1>1, <1>2, <1>3, <1>4, <1>5, <1>6, <1>7, <1>8, <1>9, <1>10, <1>11, <1>12,
     <1>13, <1>14, <1>15, <1>16, <1>17, <1>18, <1>19 DEF Next, Host, Shell

\* What is left of a limit when a counter goes up.
LEMMA CountsUp ==
  ASSUME NEW m \in Nat, NEW h \in Nat, NEW g \in Nat
  PROVE  /\ g < h /\ h <= m => 0 <= m - h /\ m - h < m - g
         /\ h = g => m - h = m - g
OBVIOUS

\* Rank at work: what a step may do to the stage, the counters and the place.
SendingNow == IF Sending THEN 1 ELSE 0

LEMMA RankBelow ==
  ASSUME LoopInv, LoopInv',
         \/ StagesLeft[stage'] < StagesLeft[stage]
         \/ stage' = stage /\ polls < polls' /\ polls' <= SyncTimeout
         \/ stage' = stage /\ polls' = polls /\ ~Sending' /\ Sending
         \/ /\ stage' = stage /\ polls' = polls /\ Sending' = Sending
            /\ resends < resends' /\ resends' <= ReloadRetries + 1
         \/ /\ stage' = stage /\ polls' = polls /\ Sending' = Sending
            /\ resends' = resends /\ Place[pc'] < Place[pc]
         \/ /\ stage' = stage /\ polls' = polls /\ Sending' = Sending
            /\ resends' = resends /\ pc' = pc
            /\ drains < drains' /\ drains' <= MaxRetries
  PROVE  Below(Rank', Rank)
<1> DEFINE m == ReloadRetries + 1
           p1 == StagesLeft[stage']  a2 == SyncTimeout - polls'
           p0 == StagesLeft[stage]   b2 == SyncTimeout - polls
           s1 == SendingNow'  a4 == m - resends'
           s0 == SendingNow   b4 == m - resends
           l1 == Place[pc']   a6 == MaxRetries - drains'
           l0 == Place[pc]    b6 == MaxRetries - drains
<1>1. /\ p1 \in Nat /\ p0 \in Nat /\ l1 \in Nat /\ l0 \in Nat
      /\ s1 \in Nat /\ s0 \in Nat
  BY DEF LoopInv, StagesLeft, Place, SendingNow
<1>2. /\ polls \in Nat /\ resends \in Nat /\ drains \in Nat
      /\ polls' \in Nat /\ resends' \in Nat /\ drains' \in Nat
      /\ SyncTimeout \in Nat /\ m \in Nat /\ MaxRetries \in Nat
  BY MgmtAssumption DEF LoopInv
<1>3. /\ a2 \in Int /\ b2 \in Int /\ a4 \in Int /\ b4 \in Int /\ a6 \in Int /\ b6 \in Int
  <2> HIDE DEF m
  <2> QED BY <1>2
<1>4. /\ polls < polls' /\ polls' <= SyncTimeout => 0 <= a2 /\ a2 < b2
      /\ polls' = polls => a2 = b2
  BY <1>2, CountsUp
<1>5. /\ resends < resends' /\ resends' <= m => 0 <= a4 /\ a4 < b4
      /\ resends' = resends => a4 = b4
  <2> HIDE DEF m
  <2> QED BY <1>2, CountsUp
<1>6. drains < drains' /\ drains' <= MaxRetries => 0 <= a6 /\ a6 < b6
  BY <1>2, CountsUp
<1>7. /\ Sending' = Sending => s1 = s0
      /\ ~Sending' /\ Sending => s1 < s0
  BY DEF SendingNow
<1>8. /\ stage' = stage => p1 = p0
      /\ pc' = pc => l1 = l0
  OBVIOUS
<1>9. /\ StagesLeft[stage'] < StagesLeft[stage] => p1 < p0
      /\ Place[pc'] < Place[pc] => l1 < l0
  OBVIOUS
<1>10. Rank = <<p0, b2, s0, b4, l0, b6>>
  BY DEF Rank, SendingNow
<1>12. Rank' = <<p1, a2, s1, a4, l1, a6>>
  BY DEF Rank, SendingNow
<1> HIDE DEF p1, a2, s1, a4, l1, a6, p0, b2, s0, b4, l0, b6
<1>11. \/ p1 < p0
       \/ p1 = p0 /\ 0 <= a2 /\ a2 < b2
       \/ p1 = p0 /\ a2 = b2 /\ s1 < s0
       \/ p1 = p0 /\ a2 = b2 /\ s1 = s0 /\ 0 <= a4 /\ a4 < b4
       \/ p1 = p0 /\ a2 = b2 /\ s1 = s0 /\ a4 = b4 /\ l1 < l0
       \/ p1 = p0 /\ a2 = b2 /\ s1 = s0 /\ a4 = b4 /\ l1 = l0 /\ 0 <= a6 /\ a6 < b6
  BY <1>4, <1>5, <1>6, <1>7, <1>8, <1>9
<1> QED
  <2> HIDE DEF s1, s0
  <2> DEFINE r == <<p1, a2, s1, a4, l1, a6>>
             s == <<p0, b2, s0, b4, l0, b6>>
             At(i) == r[i] \in 0..(s[i] - 1) /\ \A j \in 1..(i - 1) : r[j] = s[j]
  <2>1. DOMAIN s = 1..6
    OBVIOUS
  <2>2. At(1) \/ At(2) \/ At(3) \/ At(4) \/ At(5) \/ At(6)
    BY <1>1, <1>3, <1>11
  <2>3. Below(r, s)
    BY <2>1, <2>2 DEF Below
  <2> QED
    BY <1>10, <1>12, <2>3

LEMMA RunsDownStep ==
  ASSUME LoopInv, LoopInv', Next, pc # "idle"
  PROVE  \/ pc' = "idle"
         \/ Below(Rank', Rank)
         \/ Rank' = Rank /\ shellVars' # shellVars
<1> SUFFICES ASSUME pc' # "idle"
             PROVE  Below(Rank', Rank) \/ (Rank' = Rank /\ shellVars' # shellVars)
  OBVIOUS
<1> USE DEF NewCmd, Return, Finish, callVars, cmdVars
<1>1. CASE Attach
  BY <1>1, RankBelow DEF Attach, Sending, Exchange, Place
<1>2. CASE WriteClear \/ Write
  BY <1>2, RankBelow DEF WriteClear, Write, Sending, Exchange, Place
<1>3. CASE Ack
  BY <1>3, RankBelow DEF Ack, Sending, Exchange, Place
<1>4. CASE Read
  BY <1>4, RankBelow, MgmtAssumption DEF Read, Sending, Exchange, Place, LoopInv
<1>5. CASE ReadTimeout
  BY <1>5, RankBelow DEF ReadTimeout, Sending, Exchange, Place
<1>6. CASE DescribeRetry
  BY <1>6, RankBelow, MgmtAssumption DEF DescribeRetry, Resend, Sending, Exchange, LoopInv
<1>7. CASE CmdReturn
  BY <1>7, RankBelow DEF CmdReturn, StagesLeft
<1>8. CASE Described
  BY <1>8, RankBelow DEF Described, Sending, Exchange
<1>9. CASE GetVersion
  BY <1>9, RankBelow DEF GetVersion, StagesLeft, Sending, Exchange, Place
<1>10. CASE Reload
  BY <1>10, RankBelow DEF Reload, Sending, Exchange, Place
<1>11. CASE JudgeWanted
  BY <1>11, RankBelow DEF JudgeWanted, StagesLeft, LoopInv
<1>12. CASE JudgeBusy
  BY <1>12, RankBelow, MgmtAssumption DEF JudgeBusy, LoopInv
<1>13. CASE PciFail
  <2>1. CASE pc \in Exchange
    <3>1. Sending /\ ~Sending'
      BY <1>13, <2>1 DEF PciFail, Sending, Resend, Exchange
    <3> QED
      BY <1>13, <2>1, <3>1, RankBelow DEF PciFail
  <2>2. CASE pc \notin Exchange
    <3>1. \/ pc = "version" /\ pc' = "return" /\ ret' = "eio"
          \/ pc = "reload" /\ pc' = "judge"
      BY <1>13, <2>2 DEF PciFail, Exchange
    <3>2. Sending' = Sending
      BY <3>1 DEF Sending, Resend, Exchange
    <3>3. Place[pc'] < Place[pc]
      BY <3>1 DEF Place
    <3>4. UNCHANGED <<stage, polls, resends>>
      BY <1>13 DEF PciFail
    <3> QED
      BY <3>2, <3>3, <3>4, RankBelow
  <2> QED
    BY <2>1, <2>2
<1>14. CASE Shell
  <2>1. Rank' = Rank
    BY <1>14 DEF Shell, ShTake, ShMetrics, ShBegin, ShError, ShBad, ShPost, ShImage,
                 Answer, Rank, Sending, Resend
  <2>2. shellVars' # shellVars
    BY <1>14 DEF Shell, ShTake, ShMetrics, ShBegin, ShError, ShBad, ShPost, ShImage,
                 Answer, shellVars, LoopInv
  <2> QED
    BY <2>1, <2>2
<1>15. CASE \/ Describe \/ \E a \in Afi \cup {None} : AsyncCall(a) \/ SyncCall(a)
            \/ DescribeFailed \/ JudgePlain \/ JudgeOther \/ Restart
  BY <1>15 DEF Describe, AsyncCall, SyncCall, DescribeFailed, JudgePlain, JudgeOther, Restart
<1> QED
  BY <1>1, <1>2, <1>3, <1>4, <1>5, <1>6, <1>7, <1>8, <1>9, <1>10, <1>11, <1>12,
     <1>13, <1>14, <1>15 DEF Next, Host

\* Every step of a call but its last lowers its rank, however often the library
\* resends, drops answers and polls (fpga_mgmt_describe_cmd, fpga_mgmt_send_cmd and
\* the synchronous calls), with failing accesses and restarts: a call makes a
\* bounded number of steps.
THEOREM CallsRunDown == Spec => CallRunsDown
<1>1. Init => LoopInv
  BY LoopInit
<1>2. LoopInv /\ [Next]_vars => LoopInv'
  BY LoopStep
<1>3. LoopInv /\ LoopInv' /\ [Next]_vars =>
          [pc # "idle" => \/ pc' = "idle"
                          \/ Below(Rank', Rank)
                          \/ Rank' = Rank /\ shellVars' # shellVars]_vars
  BY RunsDownStep
<1> QED
  BY <1>1, <1>2, <1>3, PTL DEF Spec, CallRunsDown

=============================================================================
