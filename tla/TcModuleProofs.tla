--------------------------- MODULE TcModuleProofs ---------------------------
(***************************************************************************)
(* Proofs about module TcModule: its threads use the lock manager as       *)
(* module TcLock allows, so that every theorem of module TcLockProofs      *)
(* holds of them, for any number of sessions and configuration names.      *)
(***************************************************************************)
EXTENDS TcModule, TcLockProofs

(* The records of the request threads, and the operations they carry.      *)
ThreadOK ==
    /\ thread \in [Threads -> [Sessions -> Request_]]
    /\ \A k \in Threads, s \in Sessions :
         LET t == thread[k][s]
         IN  /\ t.step = "notify" => t.op \in {"TC_NOTIFY_ACQUIRE", "TC_NOTIFY_RELEASE"}
             /\ t.step = "execute" => t.op \in WriteOps
             /\ t.step = "autosave" => t.op \in StartupOps \cap WriteOps

(* What the step of an event handler says of the state.                    *)
HandlerInv ==
    /\ HandlerStateAgrees
    /\ state_ \in HandlerStates
    /\ ev \in {"start", "start_locked"} => current_state = "TC_INIT"
    /\ ev \in {"start_done", "act", "act_locked", "startup"} => current_state = "TC_SBY"
    /\ ev \in {"setup_complete", "setup_done"} => current_state = "TC_ACT"
    /\ ev = "setup_done" => setup_complete_done
    /\ ev = "act_done" => \/ current_state = "TC_ACT_FAIL"
                          \/ current_state = "TC_ACT" /\ setup_complete_done
    /\ ev = "act_failed" => current_state \in {"TC_SBY", "TC_ACT"}
    /\ ev = "stop" => current_state # "TC_STOP"
    /\ ev = "stopping" => current_state = "TC_STOP"

ModuleInv == LockInv /\ ThreadOK /\ HandlerInv

-----------------------------------------------------------------------------
(* The request threads.                                                    *)

(* A thread moves to a step whose operation fits it.                       *)
LEMMA GotoOK ==
    ASSUME ThreadOK, NEW k \in Threads, NEW s \in Sessions,
           NEW step \in Steps, NEW op, NEW id \in 0..UINT32_MAX,
           op \in WriteOps \cup {"none", "TC_NOTIFY_ACQUIRE", "TC_NOTIFY_RELEASE"},
           step = "notify" => op \in {"TC_NOTIFY_ACQUIRE", "TC_NOTIFY_RELEASE"},
           step = "execute" => op \in WriteOps,
           step = "autosave" => op \in StartupOps \cap WriteOps,
           Goto(k, s, step, op, id)
    PROVE  ThreadOK' /\ UNCHANGED <<ev, state_>>
<1> DEFINE t == [step |-> step, op |-> op, config_id |-> id]
<1>1. t \in Request_
  BY DEF Request_
<1>2. thread' = [thread EXCEPT ![k] = [thread[k] EXCEPT ![s] = t]]
  BY DEF Goto, ThreadOK
<1>3. thread' \in [Threads -> [Sessions -> Request_]]
  BY <1>1, <1>2 DEF ThreadOK
<1>4. \A j \in Threads, r \in Sessions :
        thread'[j][r] = IF j = k /\ r = s THEN t ELSE thread[j][r]
  BY <1>2 DEF ThreadOK
<1> QED
  BY <1>3, <1>4 DEF ThreadOK, Goto

(* A thread becomes idle.                                                  *)
LEMMA DoneOK ==
    ASSUME ThreadOK, NEW k \in Threads, NEW s \in Sessions, Done(k, s)
    PROVE  ThreadOK' /\ UNCHANGED <<ev, state_>>
<1>1. Goto(k, s, "idle", "none", 0)
  BY DEF Done, Goto, Idle
<1> QED
  BY <1>1, GotoOK, UINT32Assumption DEF Steps

(* The id of a session's entry is an id.                                   *)
LEMMA EntryId ==
    ASSUME LockInv, NEW s \in Sessions, HasConfig(s)
    PROVE  Entry(s).config_id \in 0..UINT32_MAX
BY OwnEntry DEF Entry, TcConfigLock

(* What a step of a session may do: it calls the lock manager as any       *)
(* session may, and leaves the event handlers alone.                       *)
SessionStep ==
    /\ ConfigNext \/ ReadWriteNext \/ UNCHANGED lockVars
    /\ UNCHANGED <<stateVars, setup_complete_done, ev, state_>>
    /\ ThreadOK'

(* Configuration requests.                                                 *)
LEMMA ConfigSteps ==
    ASSUME ModuleInv, NEW s \in Sessions, NEW k \in Threads,
           \/ ConfigAcquire(s) \/ FillTcMsgData(s) \/ ConfigRelease(s)
           \/ ConfigReleaseExclusion(k, s) \/ GetExclusionForRelease(k, s)
           \/ ValidateGlobalModeDirty(s)
    PROVE  SessionStep
<1> USE UINT32Assumption DEF ModuleInv
<1>0. "client" \in Threads
  BY DEF Threads
<1>1. CASE ConfigAcquire(s)
  <2>1. ThreadOK' /\ UNCHANGED <<ev, state_>>
    BY <1>0, <1>1, GotoOK DEF ConfigAcquire, Steps
  <2>2. ConfigNext
    BY <1>1 DEF ConfigAcquire, ConfigNext
  <2> QED
    BY <1>1, <2>1, <2>2
       DEF SessionStep, ConfigAcquire, AcquireConfigLock, ForceAcquireConfigLock
<1>2. CASE FillTcMsgData(s)
  <2> DEFINE id == IF GetConfigData(s) THEN Entry(s).config_id ELSE 0
  <2>1. id \in 0..UINT32_MAX
    BY EntryId DEF GetConfigData
  <2>2. Goto("client", s, "notify", "TC_NOTIFY_ACQUIRE", id) /\ UNCHANGED lockVars
    BY <1>2 DEF FillTcMsgData
  <2> HIDE DEF id
  <2>3. ThreadOK' /\ UNCHANGED <<ev, state_>>
    BY <1>0, <2>1, <2>2, GotoOK DEF Steps
  <2> QED
    BY <2>2, <2>3 DEF SessionStep, lockVars
<1>3. CASE ConfigRelease(s)
  <2>1. Entry(s).config_id \in 0..UINT32_MAX
    BY <1>3, EntryId DEF ConfigRelease, GetConfigData
  <2>2. ThreadOK' /\ UNCHANGED <<ev, state_>>
    BY <1>0, <1>3, <2>1, GotoOK DEF ConfigRelease, Steps
  <2> QED
    BY <1>3, <2>2 DEF SessionStep, ConfigRelease, lockVars
<1>4. CASE ConfigReleaseExclusion(k, s)
  <2> DEFINE t == thread[k][s]
  <2>1. /\ t.op \in {"TC_NOTIFY_ACQUIRE", "TC_NOTIFY_RELEASE"}
        /\ t.config_id \in 0..UINT32_MAX
    BY <1>4 DEF ThreadOK, Request_, ConfigReleaseExclusion
  <2>2. ThreadOK' /\ UNCHANGED <<ev, state_>>
    BY <1>4, DoneOK DEF ConfigReleaseExclusion
  <2>3. CASE NotifyConfigIdSessionIdDone(t.config_id, s, t.op)
    <3>1. ConfigNext
      BY <2>1, <2>3 DEF ConfigNext
    <3> QED
      BY <2>2, <2>3, <3>1 DEF SessionStep, NotifyConfigIdSessionIdDone
  <2>4. CASE UNCHANGED lockVars
    BY <2>2, <2>4 DEF SessionStep, lockVars
  <2> QED
    BY <1>4, <2>3, <2>4 DEF ConfigReleaseExclusion
<1>5. CASE GetExclusionForRelease(k, s)
  <2> DEFINE id == thread[k][s].config_id
  <2>1. id \in 0..UINT32_MAX
    BY DEF ThreadOK, Request_
  <2>2. CASE ReleaseConfigLock(s, id) /\ Goto(k, s, "notify", "TC_NOTIFY_RELEASE", id)
    <3>1. ThreadOK' /\ UNCHANGED <<ev, state_>>
      BY <2>1, <2>2, GotoOK DEF Steps
    <3>2. ConfigNext
      BY <2>1, <2>2 DEF ConfigNext
    <3> QED
      BY <2>2, <3>1, <3>2 DEF SessionStep, ReleaseConfigLock
  <2>3. CASE UNCHANGED lockVars /\ Done(k, s)
    BY <2>3, DoneOK DEF SessionStep, lockVars
  <2> QED
    BY <1>5, <2>2, <2>3 DEF GetExclusionForRelease
<1>6. CASE ValidateGlobalModeDirty(s)
  BY <1>6 DEF ValidateGlobalModeDirty, SessionStep, lockVars, ThreadOK
<1> QED
  BY <1>1, <1>2, <1>3, <1>4, <1>5, <1>6

(* Candidate, database, audit, autosave and read requests.                 *)
LEMMA WriteSteps ==
    ASSUME ModuleInv, NEW s \in Sessions,
           \/ \E op \in WriteOps : CandidateRequest(s, op) \/ WriteRequest(s, op)
           \/ \E op \in StartupOps \cap WriteOps : AutoSaveRequest(s, op)
           \/ AutoSaveGetRequest(s) \/ ReadRequest(s) \/ ReadRelease(s)
           \/ WriteReleaseExclusion(s) \/ ReleaseMarkedSession(s)
           \/ AutoSaveReleaseExclusion(s)
    PROVE  SessionStep
<1> USE UINT32Assumption DEF ModuleInv
<1>0. "client" \in Threads
  BY DEF Threads
<1>1. ASSUME NEW op \in WriteOps, CandidateRequest(s, op) \/ WriteRequest(s, op)
      PROVE  SessionStep
  <2>1. ReadWriteNext
    BY <1>1 DEF ReadWriteNext, CandidateRequest, WriteRequest
  <2>2. CASE CandidateRequest(s, op)
    <3>1. Entry(s).config_id \in 0..UINT32_MAX
      BY <2>2, EntryId DEF CandidateRequest, AcquireWriteLock, HoldsConfig
    <3>2. ThreadOK' /\ UNCHANGED <<ev, state_>>
      BY <1>0, <2>2, <3>1, GotoOK DEF CandidateRequest, Steps
    <3> QED
      BY <2>1, <2>2, <3>2 DEF SessionStep, CandidateRequest, AcquireWriteLock
  <2>3. CASE WriteRequest(s, op)
    <3>1. ThreadOK' /\ UNCHANGED <<ev, state_>>
      BY <1>0, <2>3, GotoOK DEF WriteRequest, Steps
    <3> QED
      BY <2>1, <2>3, <3>1 DEF SessionStep, WriteRequest, AcquireWriteLock
  <2> QED
    BY <1>1, <2>2, <2>3
<1>2. ASSUME NEW op \in StartupOps \cap WriteOps, AutoSaveRequest(s, op) PROVE SessionStep
  <2>1. ThreadOK' /\ UNCHANGED <<ev, state_>>
    BY <1>0, <1>2, GotoOK DEF AutoSaveRequest, Steps
  <2>2. ReadWriteNext
    BY <1>2 DEF ReadWriteNext, AutoSaveRequest
  <2> QED
    BY <1>2, <2>1, <2>2 DEF SessionStep, AutoSaveRequest, AutoSaveWriteLock
<1>3. CASE AutoSaveGetRequest(s)
  <2>1. ThreadOK' /\ UNCHANGED <<ev, state_>>
    BY <1>0, <1>3, GotoOK DEF AutoSaveGetRequest, Steps
  <2>2. ReadWriteNext
    BY <1>3 DEF ReadWriteNext, AutoSaveGetRequest
  <2> QED
    BY <1>3, <2>1, <2>2 DEF SessionStep, AutoSaveGetRequest, AutoSaveEnable
<1>4. CASE ReadRequest(s) \/ ReadRelease(s)
  <2>1. ReadWriteNext
    BY <1>4 DEF ReadWriteNext, ReadRequest, ReadRelease
  <2> QED
    BY <1>4, <2>1 DEF SessionStep, ReadRequest, ReadRelease, AcquireReadLock,
                      ReleaseReadLock, moduleVars, ThreadOK
<1>5. CASE WriteReleaseExclusion(s)
  <2> DEFINE t == thread["client"][s]
  <2>1. t.op \in WriteOps /\ t.config_id \in 0..UINT32_MAX
    BY <1>0, <1>5 DEF ThreadOK, Request_, WriteReleaseExclusion
  <2>2. Goto("client", s, "released", t.op, t.config_id) \/ Done("client", s)
    BY <1>5 DEF WriteReleaseExclusion
  <2>3. ThreadOK' /\ UNCHANGED <<ev, state_>>
    BY <1>0, <2>1, <2>2, GotoOK, DoneOK DEF Steps
  <2>4. CASE ReleaseWriteLock(s, t.op)
    BY <2>1, <2>3, <2>4 DEF SessionStep, ReadWriteNext, ReleaseWriteLock
  <2>5. CASE UNCHANGED lockVars
    BY <2>3, <2>5 DEF SessionStep, lockVars
  <2> QED
    BY <1>5, <2>4, <2>5 DEF WriteReleaseExclusion
<1>6. CASE ReleaseMarkedSession(s)
  <2>1. thread["client"][s].config_id \in 0..UINT32_MAX
    BY <1>0 DEF ThreadOK, Request_
  <2>2. ThreadOK' /\ UNCHANGED <<ev, state_>>
    BY <1>0, <1>6, <2>1, GotoOK, DoneOK DEF ReleaseMarkedSession, Steps
  <2> QED
    BY <1>6, <2>2 DEF SessionStep, ReleaseMarkedSession, lockVars
<1>7. CASE AutoSaveReleaseExclusion(s)
  <2> DEFINE t == thread["client"][s]
  <2>1. ThreadOK' /\ UNCHANGED <<ev, state_>>
    BY <1>0, <1>7, DoneOK DEF AutoSaveReleaseExclusion
  <2>2. CASE t.step = "autosave" /\ AutoSaveWriteUnlock(s, t.op)
    <3>1. t.op \in StartupOps \cap WriteOps
      BY <1>0, <2>2 DEF ThreadOK
    <3> QED
      BY <2>1, <2>2, <3>1 DEF SessionStep, ReadWriteNext, AutoSaveWriteUnlock
  <2>3. CASE AutoSaveDisable
    BY <2>1, <2>3 DEF SessionStep, ReadWriteNext, AutoSaveDisable
  <2>4. CASE UNCHANGED lockVars
    BY <2>1, <2>4 DEF SessionStep, lockVars
  <2> QED
    BY <1>7, <2>2, <2>3, <2>4 DEF AutoSaveReleaseExclusion
<1> QED
  BY <1>1, <1>2, <1>3, <1>4, <1>5, <1>6, <1>7

(* TcReleaseSession.                                                       *)
LEMMA ReleaseSessionSteps ==
    ASSUME ModuleInv, NEW s \in Sessions,
           TcReleaseSession(s) \/ TcReleaseSessionBranch(s) \/ TcReleaseSessionAct(s)
    PROVE  SessionStep
<1> USE UINT32Assumption DEF ModuleInv
<1>0. "usess" \in Threads
  BY DEF Threads
<1>1. CASE TcReleaseSession(s)
  <2>1. ThreadOK' /\ UNCHANGED <<ev, state_>>
    BY <1>0, <1>1, GotoOK DEF TcReleaseSession, Steps
  <2> QED
    BY <1>1, <2>1 DEF SessionStep, TcReleaseSession, lockVars
<1>2. CASE TcReleaseSessionBranch(s)
  <2>1. GetSessionOperation(s) \in {"mark", "idle", "config", "read"}
    BY DEF GetSessionOperation
  <2>2. ThreadOK' /\ UNCHANGED <<ev, state_>>
    BY <1>0, <1>2, <2>1, GotoOK DEF TcReleaseSessionBranch, Steps
  <2> QED
    BY <1>2, <2>2 DEF SessionStep, TcReleaseSessionBranch, lockVars
<1>3. CASE TcReleaseSessionAct(s)
  <2>1. ThreadOK' /\ UNCHANGED <<ev, state_>>
    <3>1. CASE Done("usess", s)
      BY <1>0, <3>1, DoneOK
    <3>2. CASE GetConfigData(s) /\ Goto("usess", s, "release", "none", Entry(s).config_id)
      <4>1. Entry(s).config_id \in 0..UINT32_MAX
        BY <3>2, EntryId DEF GetConfigData
      <4> QED
        BY <1>0, <3>2, <4>1, GotoOK DEF Steps
    <3> QED
      BY <1>3, <3>1, <3>2 DEF TcReleaseSessionAct, ReleaseConfigSession
  <2>2. CASE TcMarkSessionId(s)
    BY <2>1, <2>2 DEF SessionStep, ConfigNext, TcMarkSessionId
  <2>3. CASE ReleaseReadLock(s)
    BY <2>1, <2>3 DEF SessionStep, ReadWriteNext, ReleaseReadLock
  <2>4. CASE UNCHANGED lockVars
    BY <2>1, <2>4 DEF SessionStep, lockVars
  <2> QED
    BY <1>3, <2>2, <2>3, <2>4 DEF TcReleaseSessionAct, ReleaseConfigSession
<1> QED
  BY <1>1, <1>2, <1>3

(* Every step of a session.                                                *)
LEMMA SessionSteps ==
    ASSUME ModuleInv, NEW s \in Sessions, Request(s) \/ ClientStep(s) \/ UsessStep(s)
    PROVE  SessionStep
<1>1. "client" \in Threads /\ "usess" \in Threads
  BY DEF Threads
<1>2. CASE Request(s)
  BY <1>1, <1>2, ConfigSteps, WriteSteps, ReleaseSessionSteps DEF Request
<1>3. CASE ClientStep(s)
  BY <1>1, <1>3, ConfigSteps, WriteSteps DEF ClientStep
<1>4. CASE UsessStep(s)
  BY <1>1, <1>4, ConfigSteps, ReleaseSessionSteps DEF UsessStep
<1> QED
  BY <1>2, <1>3, <1>4

-----------------------------------------------------------------------------
(* The driver audit task.                                                  *)

LEMMA AuditSteps ==
    ASSUME ModuleInv, DriverAudit \/ DriverAuditReleaseExclusion
    PROVE  /\ DriverAuditNext \/ UNCHANGED lockVars
           /\ UNCHANGED <<stateVars, setup_complete_done, ev, state_, thread>>
<1>1. CASE DriverAudit
  BY <1>1 DEF DriverAudit, DriverAuditNext, AuditDriverSleep, AcquireWriteLockForAuditDriver
<1>2. CASE DriverAuditReleaseExclusion
  <2>1. CASE ReleaseWriteLock(NoSession, "TC_AUDIT_DRIVER")
    <3>1. w_operation \in WriteOps \cup {"TC_WRITE_NONE"} /\ w_operation = "TC_AUDIT_DRIVER"
      BY <2>1 DEF ModuleInv, LockInv, LockTypeOK, ReleaseWriteLock, WriteUnlock, WriteHeldFor
    <3> QED
      BY <1>2, <2>1, <3>1 DEF DriverAuditReleaseExclusion, DriverAuditNext, ReleaseWriteLock
  <2>2. CASE UNCHANGED lockVars
    BY <1>2, <2>2 DEF DriverAuditReleaseExclusion, lockVars
  <2> QED
    BY <1>2, <2>1, <2>2 DEF DriverAuditReleaseExclusion
<1> QED
  BY <1>1, <1>2

-----------------------------------------------------------------------------
(* The event handlers.                                                     *)

HandlerStep == (StateChangeNext \/ UNCHANGED lockVars) /\ HandlerInv' /\ UNCHANGED thread

LEMMA EventStep ==
    ASSUME ModuleInv, Event
    PROVE  HandlerStep
<1>1. UNCHANGED <<lockVars, stateVars, setup_complete_done, state_, thread>>
  BY DEF Event, Step, lockVars, stateVars
<1> USE <1>1 DEF ModuleInv, HandlerInv, HandlerStateAgrees, HandlerStep, Step, Transition,
                 HandlerStates, stateVars
<1>2. CASE ev = "idle" /\ state_ = "INIT" /\ Step("start")
  BY <1>2
<1>3. CASE ev = "idle" /\ state_ = "SBY" /\ Step("act")
  BY <1>3
<1>4. CASE ev = "idle" /\ state_ # "STOP" /\ Step("stop")
  BY <1>4
<1> QED
  BY <1>2, <1>3, <1>4 DEF Event

(* A transition that starts in INIT or SBY is allowed.                     *)
LEMMA AcquireTransitionStep ==
    ASSUME ModuleInv, NEW from, NEW to, AcquireTransition(from, to),
           current_state \in {"TC_INIT", "TC_SBY"}
    PROVE  TcAcquireReadLockForStateTransition /\ Step(to)
BY DEF AcquireTransition, TcOperationIsAllowed

LEMMA HandleStartStep ==
    ASSUME ModuleInv, HandleStart
    PROVE  HandlerStep
<1> USE DEF ModuleInv, HandlerInv, HandlerStateAgrees, HandlerStep, Transition, Step, Finish,
           HandlerStates
<1>1. CASE AcquireTransition("start", "start_locked")
  <2>1. ev = "start" /\ current_state = "TC_INIT"
    BY <1>1 DEF AcquireTransition
  <2>2. TcAcquireReadLockForStateTransition /\ Step("start_locked")
    BY <1>1, <2>1, AcquireTransitionStep
  <2> QED
    BY <2>1, <2>2 DEF StateChangeNext, TcAcquireReadLockForStateTransition
<1>2. CASE ev = "start_locked" /\ TcUpdateUncState("TC_SBY") /\ Step("start_done")
  BY <1>2 DEF StateChangeNext, TcUpdateUncState
<1>3. CASE ReleaseTransition("start_done", "SBY")
  BY <1>3 DEF ReleaseTransition, StateChangeNext, TcReleaseReadLockForStateTransition
<1> QED
  BY <1>1, <1>2, <1>3 DEF HandleStart

LEMMA HandleActStep ==
    ASSUME ModuleInv, HandleAct
    PROVE  HandlerStep
<1> USE DEF ModuleInv, HandlerInv, HandlerStateAgrees, HandlerStep, Transition, Step, Finish,
           HandlerStates
<1>1. CASE AcquireTransition("act", "act_locked")
  <2>1. ev = "act" /\ current_state = "TC_SBY"
    BY <1>1 DEF AcquireTransition
  <2>2. TcAcquireReadLockForStateTransition /\ Step("act_locked")
    BY <1>1, <2>1, AcquireTransitionStep
  <2> QED
    BY <2>1, <2>2 DEF StateChangeNext, TcAcquireReadLockForStateTransition
<1>2. CASE ev = "act_locked" /\ ResetTcGlobalDataOnStateTransition /\ Step("startup")
  BY <1>2 DEF StateChangeNext, ResetTcGlobalDataOnStateTransition, stateVars
<1>3. CASE ev = "startup" /\ Step("act_failed") /\ UNCHANGED lockVars
  BY <1>3 DEF lockVars, stateVars
<1>4. CASE ev = "startup" /\ TcUpdateUncState("TC_ACT_FAIL") /\ Step("act_done")
  BY <1>4 DEF StateChangeNext, TcUpdateUncState
<1>5. CASE ev = "startup" /\ TcUpdateUncState("TC_ACT") /\ Step("setup_complete")
  BY <1>5 DEF StateChangeNext, TcUpdateUncState
<1>6. CASE ev = "setup_complete" /\ Step("act_failed") /\ UNCHANGED lockVars
  BY <1>6 DEF lockVars, stateVars
<1>7. CASE ev = "setup_complete" /\ TcSetSetupComplete /\ Step("setup_done")
  BY <1>7 DEF StateChangeNext, TcSetSetupComplete, stateVars
<1>8. CASE ev = "setup_done" /\ (Step("act_failed") \/ Step("act_done")) /\ UNCHANGED lockVars
  BY <1>8 DEF lockVars, stateVars
<1>9. CASE ReleaseTransition("act_done", "ACT")
  BY <1>9 DEF ReleaseTransition, StateChangeNext, TcReleaseReadLockForStateTransition
<1>10. CASE ReleaseTransition("act_failed", "FAILURE")
  BY <1>10 DEF ReleaseTransition, StateChangeNext, TcReleaseReadLockForStateTransition
<1> QED
  BY <1>1, <1>2, <1>3, <1>4, <1>5, <1>6, <1>7, <1>8, <1>9, <1>10 DEF HandleAct

LEMMA HandleStopStep ==
    ASSUME ModuleInv, HandleStop
    PROVE  HandlerStep
<1> USE DEF ModuleInv, HandlerInv, HandlerStateAgrees, HandlerStep, Transition, Step, Finish,
           HandlerStates
<1>1. CASE ev = "stop" /\ TcUpdateUncState("TC_STOP") /\ Step("stopping")
  BY <1>1 DEF StateChangeNext, TcUpdateUncState
<1>2. CASE ev = "stopping" /\ ResetTcGlobalDataOnStateTransition /\ Finish("STOP")
  BY <1>2 DEF StateChangeNext, ResetTcGlobalDataOnStateTransition, stateVars
<1> QED
  BY <1>1, <1>2 DEF HandleStop

-----------------------------------------------------------------------------
(* The invariant and the refinement.                                       *)

(* Steps that leave the handlers and the state alone keep HandlerInv.      *)
LEMMA HandlerFrame ==
    ASSUME HandlerInv, UNCHANGED <<stateVars, setup_complete_done, ev, state_>>
    PROVE  HandlerInv'
BY DEF HandlerInv, HandlerStateAgrees, stateVars

LEMMA ModuleInit == Init => ModuleInv
<1> SUFFICES ASSUME Init PROVE ModuleInv
  OBVIOUS
<1>1. LockInv
  BY InitInv DEF Init
<1>2. ThreadOK
  <2>1. Idle \in Request_
    BY UINT32Assumption DEF Idle, Request_, Steps
  <2> QED
    BY <2>1 DEF Init, ThreadOK, Idle
<1>3. HandlerInv
  BY DEF Init, LockInit, HandlerInv, HandlerStateAgrees, HandlerStates, Transition
<1> QED
  BY <1>1, <1>2, <1>3 DEF ModuleInv

(* Every step is a step of the lock manager, and preserves the invariant.  *)
LEMMA ModuleStep ==
    ASSUME ModuleInv, [Next]_vars
    PROVE  [LockNext]_lockVars /\ ModuleInv'
<1>0. LockInv /\ [LockNext]_lockVars => LockInv'
  BY ConfigNextInv, ReadWriteNextInv, DriverAuditNextInv, StateChangeNextInv, StutterInv
     DEF LockNext
<1>1. ASSUME NEW s \in Sessions, Request(s) \/ ClientStep(s) \/ UsessStep(s)
      PROVE  [LockNext]_lockVars /\ ModuleInv'
  <2>1. SessionStep
    BY <1>1, SessionSteps
  <2> QED
    BY <1>0, <2>1, HandlerFrame DEF ModuleInv, SessionStep, LockNext
<1>2. CASE DriverAudit \/ DriverAuditReleaseExclusion
  <2>1. ThreadOK'
    BY <1>2, AuditSteps DEF ModuleInv, ThreadOK
  <2> QED
    BY <1>0, <1>2, <2>1, AuditSteps, HandlerFrame DEF ModuleInv, LockNext
<1>3. CASE Event \/ Handle
  <2>1. HandlerStep
    BY <1>3, EventStep, HandleStartStep, HandleActStep, HandleStopStep DEF Handle
  <2>2. ThreadOK'
    BY <2>1 DEF HandlerStep, ModuleInv, ThreadOK
  <2> QED
    BY <1>0, <2>1, <2>2 DEF HandlerStep, ModuleInv, LockNext
<1>4. CASE UNCHANGED vars
  <2>1. UNCHANGED lockVars /\ UNCHANGED <<stateVars, setup_complete_done, ev, state_, thread>>
    BY <1>4 DEF vars, lockVars, moduleVars
  <2>2. ThreadOK'
    BY <2>1 DEF ModuleInv, ThreadOK
  <2> QED
    BY <1>0, <2>1, <2>2, HandlerFrame DEF ModuleInv
<1> QED
  BY <1>1, <1>2, <1>3, <1>4 DEF Next

(* The threads of the Transaction Coordinator use the lock manager as      *)
(* module TcLock allows: HandleStart, HandleAct and HandleStop meet the    *)
(* obligations of StateChangeNext on every path, so every theorem about    *)
(* LockSpec holds of the Transaction Coordinator.                          *)
THEOREM ModuleImplementsLock == Spec => ImplementsTcLock
<1>1. Init => LockInit
  BY DEF Init
<1> QED
  BY <1>1, ModuleInit, ModuleStep, PTL DEF Spec, ImplementsTcLock, LockSpec

(* The handler state and the UNC state agree, and no handler returns with  *)
(* the transition lock.                                                    *)
THEOREM HandlersAgree == Spec => []HandlerStateAgrees
<1>1. ModuleInv => HandlerStateAgrees
  BY DEF ModuleInv, HandlerInv
<1> QED
  BY <1>1, ModuleInit, ModuleStep, PTL DEF Spec

(* Carried over by the refinement: in the Transaction Coordinator a commit *)
(* or an abort keeps its configuration session while it runs, whatever the *)
(* other sessions, the session manager and the event handlers do.          *)
THEOREM ModuleCandidateWriterSafe == Spec => []CandidateWriterKeepsConfig
BY ModuleImplementsLock, CandidateWriterSafe, PTL DEF ImplementsTcLock
====
