------------------------------ MODULE TcModule ------------------------------
(***************************************************************************)
(* The threads of the Transaction Coordinator that use the lock manager of *)
(* module TcLock:                                                          *)
(*                                                                         *)
(*  - the event handlers (class UncStateHandler and TcModule::HandleStart, *)
(*    HandleAct, HandleStop), which the handler lock makes one thread;     *)
(*  - for every session a thread "client" that runs its requests           *)
(*    (TcConfigOperations, TcCandidateOperations, TcDbOperations,          *)
(*    TcAutoSaveOperations, TcReadOperations, TcAuditOperations), and a    *)
(*    thread "usess" in which the session manager calls TcReleaseSession;  *)
(*  - the task that runs driver audits.                                    *)
(*                                                                         *)
(* TcOperations::Dispatch secures an exclusion, executes and releases the  *)
(* exclusion.  Each call of the lock manager is one step; the messages of  *)
(* Execute take any time and succeed or fail, which is the same for the    *)
(* locks, because RevokeOperation releases what Dispatch would have        *)
(* released.  A request that is refused (by validation, by a wait queue or *)
(* by the lock manager) changes nothing.                                   *)
(***************************************************************************)
EXTENDS TcLock

CONSTANT StartupOutcomes   \* how TcStartUpOperations::Dispatch may end

ASSUME StartupAssumption ==
    StartupOutcomes \subseteq {"early_failure", "audit_db_failure",
                               "setup_complete_failure", "response_failure", "success"}

VARIABLES
    ev,         \* step of the event handler that runs, or "idle"
    state_,     \* UncStateHandler::state_
    thread,     \* step of each request thread
    audit,      \* "execute" while the driver audit task holds the write lock
    crashed     \* the daemon has dereferenced a null pointer

moduleVars == <<ev, state_, thread, audit, crashed>>
vars == <<lockVars, moduleVars>>

Threads == {"client", "usess"}

(* step, the operation (notification or write operation) and config_id_.   *)
Idle == [step |-> "idle", op |-> "none", config_id |-> 0]

Goto(k, s, step, op, config_id) ==
    /\ thread' = [thread EXCEPT ![k][s] = [step |-> step, op |-> op, config_id |-> config_id]]
    /\ UNCHANGED <<ev, state_, audit, crashed>>

Done(k, s) ==
    /\ thread' = [thread EXCEPT ![k][s] = Idle]
    /\ UNCHANGED <<ev, state_, audit, crashed>>

At(k, s, step) == thread[k][s].step = step

Entry(s) == tc_config_name_map[FindConfigName(s)]

(* GetConfigData that succeeds.                                            *)
GetConfigData(s) == current_state = "TC_ACT" /\ HasConfig(s) /\ Entry(s).is_taken

-----------------------------------------------------------------------------
(* Configuration requests.                                                 *)

(* Clients hold at most one configuration session at a time.               *)
ConfigAcquire(s) ==
    /\ At("client", s, "idle")
    /\ \/ ~HasConfig(s) /\ \E n \in ConfigNames : AcquireConfigLock(s, n)
       \/ ForceAcquireConfigLock(s)
    /\ Goto("client", s, "fill", "TC_NOTIFY_ACQUIRE", 0)

(* Mutant: the id of the new session is not collected.                     *)
FillTcMsgDataWithoutId(s) ==
    /\ At("client", s, "fill")
    /\ MutexFree
    /\ Goto("client", s, "notify", "TC_NOTIFY_ACQUIRE", 0)
    /\ UNCHANGED lockVars

(* FillTcMsgData collects the id of the new session: config_id_ stays 0    *)
(* when GetConfigData fails.                                               *)
FillTcMsgData(s) ==
    /\ At("client", s, "fill")
    /\ MutexFree
    /\ Goto("client", s, "notify", "TC_NOTIFY_ACQUIRE",
            IF GetConfigData(s) THEN Entry(s).config_id ELSE 0)
    /\ UNCHANGED lockVars

(* A release is validated first: GetConfigData must know the id.           *)
ConfigRelease(s) ==
    /\ At("client", s, "idle")
    /\ MutexFree
    /\ GetConfigData(s)
    /\ Goto("client", s, "release", "none", Entry(s).config_id)
    /\ UNCHANGED lockVars

(* TcConfigOperations::TcReleaseExclusion, after UPLL and UPPL were told.  *)
ConfigReleaseExclusion(k, s) ==
    LET t == thread[k][s]
    IN  /\ t.step = "notify"
        /\ MutexFree
        /\ IF NotifyMatches(t.config_id, s, t.op)
             THEN NotifyConfigIdSessionIdDone(t.config_id, s, t.op)
             ELSE UNCHANGED lockVars
        /\ Done(k, s)

(* TcConfigOperations::TcGetExclusion of a release, asked for by a client, *)
(* by TcReleaseSession or after the commit that TcReleaseSession waited    *)
(* for.  In the first two the database may fail first.                     *)
GetExclusionForRelease(k, s) ==
    LET id == thread[k][s].config_id
    IN  /\ thread[k][s].step \in {"release", "release_marked"}
        /\ MutexFree
        /\ \/ ReleaseConfigLock(s, id) /\ Goto(k, s, "notify", "TC_NOTIFY_RELEASE", id)
           \/ /\ ~CanReleaseConfig(s, id) \/ At(k, s, "release")
              /\ UNCHANGED lockVars
              /\ Done(k, s)

(* The release after a commit has no database handler, and uses it when    *)
(* the session is global and the candidate is clean.  The mode it looks at *)
(* is uninitialised when GetConfigData fails.                              *)
ValidateGlobalModeDirty(s) ==
    /\ At("client", s, "release_marked")
    /\ MutexFree
    /\ GetConfigData(s) => FindConfigName(s) = GlobalMode
    /\ crashed' = TRUE
    /\ UNCHANGED <<lockVars, ev, state_, thread, audit>>

-----------------------------------------------------------------------------
(* Write requests.                                                         *)

CandidateRequest(s, op) ==
    /\ At("client", s, "idle")
    /\ op \in CandidateOps
    /\ AcquireWriteLock(s, op)
    /\ Goto("client", s, "execute", op, Entry(s).config_id)

WriteRequest(s, op) ==
    /\ At("client", s, "idle")
    /\ op \notin CandidateOps
    /\ AcquireWriteLock(s, op)
    /\ Goto("client", s, "execute", op, 0)

AutoSaveRequest(s, op) ==
    /\ At("client", s, "idle")
    /\ AutoSaveWriteLock(s, op)
    /\ Goto("client", s, "autosave", op, 0)

AutoSaveGetRequest(s) ==
    /\ At("client", s, "idle")
    /\ AutoSaveEnable(s)
    /\ Goto("client", s, "autosave_get", "none", 0)

(* Mutant: a failing commit returns without releasing the write lock.      *)
WriteReleaseSkipped(s) ==
    /\ At("client", s, "execute")
    /\ MutexFree
    /\ UNCHANGED lockVars
    /\ Done("client", s)

(* TcReleaseExclusion of a commit, an abort, a save, a clear or an audit.  *)
WriteReleaseExclusion(s) ==
    LET t == thread["client"][s]
    IN  /\ t.step = "execute"
        /\ MutexFree
        /\ IF WriteHeldFor(s, t.op)
             THEN /\ ReleaseWriteLock(s, t.op)
                  /\ IF t.op \in CandidateOps
                       THEN Goto("client", s, "released", t.op, t.config_id)
                       ELSE Done("client", s)
             ELSE UNCHANGED lockVars /\ Done("client", s)

(* GetMarkedSessionId, after a commit or an abort has released its lock.   *)
ReleaseMarkedSession(s) ==
    /\ At("client", s, "released")
    /\ MutexFree
    /\ IF HasConfig(s) /\ Entry(s).marked_session_id = s
         THEN Goto("client", s, "release_marked", "none", thread["client"][s].config_id)
         ELSE Done("client", s)
    /\ UNCHANGED lockVars

(* TcAutoSaveOperations::TcReleaseExclusion.                               *)
AutoSaveReleaseExclusion(s) ==
    LET t == thread["client"][s]
    IN  /\ MutexFree
        /\ \/ /\ t.step = "autosave"
              /\ IF is_enable /\ WriteHeldFor(s, t.op)
                   THEN AutoSaveWriteUnlock(s, t.op)
                   ELSE UNCHANGED lockVars
           \/ /\ t.step = "autosave_get"
              /\ IF is_enable THEN AutoSaveDisable ELSE UNCHANGED lockVars
        /\ Done("client", s)

(* A read session is acquired by its client, and released by its client or *)
(* by its timer.                                                           *)
ReadRequest(s) ==
    /\ At("client", s, "idle")
    /\ AcquireReadLock(s)
    /\ UNCHANGED moduleVars

ReadRelease(s) ==
    /\ ReleaseReadLock(s)
    /\ UNCHANGED moduleVars

(* The driver audit task: it takes the write lock, or sleeps, or waits and *)
(* tries again.                                                            *)
DriverAudit ==
    /\ "TC_AUDIT_DRIVER" \in WriteOps
    /\ audit = "idle"
    /\ \/ AuditDriverSleep /\ UNCHANGED audit
       \/ /\ AcquireWriteLockForAuditDriver
          /\ audit' = IF canWriteLock THEN "execute" ELSE "idle"
    /\ UNCHANGED <<ev, state_, thread, crashed>>

DriverAuditReleaseExclusion ==
    /\ audit = "execute"
    /\ MutexFree
    /\ IF WriteHeldFor(NoSession, "TC_AUDIT_DRIVER")
         THEN ReleaseWriteLock(NoSession, "TC_AUDIT_DRIVER")
         ELSE UNCHANGED lockVars
    /\ audit' = "idle"
    /\ UNCHANGED <<ev, state_, thread, crashed>>

-----------------------------------------------------------------------------
(* TcReleaseSession, called when a session ends: it reads the state, asks  *)
(* what the session does, and acts on the answer.                          *)

TcReleaseSession(s) ==
    /\ At("usess", s, "idle")
    /\ MutexFree
    /\ current_state \in {"TC_ACT", "TC_SBY"}
    /\ Goto("usess", s, "operation", "none", 0)
    /\ UNCHANGED lockVars

GetSessionOperation(s) ==
    LET candidate == isWriteHeldBy(s) /\ w_operation \in CandidateOps
                       /\ HasConfig(s) /\ Entry(s).is_taken
        other == isWriteHeldBy(s) /\ w_operation \notin CandidateOps
        config == HasConfig(s) /\ Busy(FindConfigName(s))
    IN  CASE candidate -> "mark"
          [] other -> "idle"
          [] ~candidate /\ ~other /\ config ->
               IF Entry(s).notify_operation = "TC_NOTIFY_NONE" THEN "config" ELSE "idle"
          [] OTHER -> IF s \in read_sessions THEN "read" ELSE "idle"

TcReleaseSessionBranch(s) ==
    /\ At("usess", s, "operation")
    /\ MutexFree
    /\ Goto("usess", s, GetSessionOperation(s), "none", 0)
    /\ UNCHANGED lockVars

(* It asks for the id of the session, and releases it like a client.       *)
ReleaseConfigSession(s) ==
    /\ At("usess", s, "config")
    /\ IF GetConfigData(s)
         THEN Goto("usess", s, "release", "none", Entry(s).config_id)
         ELSE Done("usess", s)
    /\ UNCHANGED lockVars

TcReleaseSessionAct(s) ==
    /\ MutexFree
    /\ \/ /\ At("usess", s, "mark")
          /\ IF CanMark(s) THEN TcMarkSessionId(s) ELSE UNCHANGED lockVars
          /\ Done("usess", s)
       \/ /\ At("usess", s, "read")
          /\ IF s \in read_sessions THEN ReleaseReadLock(s) ELSE UNCHANGED lockVars
          /\ Done("usess", s)
       \/ ReleaseConfigSession(s)

-----------------------------------------------------------------------------
(* The event handlers.                                                     *)

Step(to) == ev' = to /\ UNCHANGED <<state_, thread, audit, crashed>>

Finish(state) == ev' = "idle" /\ state_' = state /\ UNCHANGED <<thread, audit, crashed>>

(* Events: SYS_START in INIT, ACT in SBY, SYS_STOP in any state but STOP.  *)
Event ==
    /\ ev = "idle"
    /\ \/ state_ = "INIT" /\ Step("start")
       \/ state_ = "SBY" /\ Step("act")
       \/ state_ # "STOP" /\ Step("stop")
    /\ UNCHANGED lockVars

(* The transition lock: GetLock waits for a writer, and fails in a state   *)
(* that allows no transition.                                              *)
AcquireTransition(from, to) ==
    /\ ev = from
    /\ MutexFree
    /\ IF TcOperationIsAllowed(NoSession, "TC_ACQUIRE_READ_LOCK_FOR_STATE_TRANSITION")
         THEN TcAcquireReadLockForStateTransition /\ Step(to)
         ELSE UNCHANGED lockVars /\ Finish("FAILURE")

ReleaseTransition(from, state) ==
    /\ ev = from
    /\ TcReleaseReadLockForStateTransition
    /\ Finish(state)

HandleStart ==
    \/ AcquireTransition("start", "start_locked")
    \/ ev = "start_locked" /\ TcUpdateUncState("TC_SBY") /\ Step("start_done")
    \/ ReleaseTransition("start_done", "SBY")

(* Mutant: a failed start-up keeps the transition lock.                    *)
HandleActKeepsLock ==
    \/ AcquireTransition("act", "act_locked")
    \/ ev = "act_locked" /\ ResetTcGlobalDataOnStateTransition /\ Step("startup")
    \/ ev = "startup" /\ "early_failure" \in StartupOutcomes
         /\ Finish("FAILURE") /\ UNCHANGED lockVars

(* Mutant: SETUP_COMPLETE is not recorded.                                 *)
HandleActWithoutSetupComplete ==
    \/ AcquireTransition("act", "act_locked")
    \/ ev = "act_locked" /\ ResetTcGlobalDataOnStateTransition /\ Step("startup")
    \/ ev = "startup" /\ TcUpdateUncState("TC_ACT") /\ Step("act_done")
    \/ ReleaseTransition("act_done", "ACT")

(* AUDITDB and SETUP come before the state becomes ACT, SETUP_COMPLETE and *)
(* the update of the recovery table after it.  A node whose AUDITDB has    *)
(* failed often enough becomes ACT_FAIL.                                   *)
HandleAct ==
    \/ AcquireTransition("act", "act_locked")
    \/ ev = "act_locked" /\ ResetTcGlobalDataOnStateTransition /\ Step("startup")
    \/ /\ ev = "startup"
       /\ \/ /\ "early_failure" \in StartupOutcomes
             /\ Step("act_failed") /\ UNCHANGED lockVars
          \/ /\ "audit_db_failure" \in StartupOutcomes
             /\ TcUpdateUncState("TC_ACT_FAIL") /\ Step("act_done")
          \/ TcUpdateUncState("TC_ACT") /\ Step("setup_complete")
    \/ /\ ev = "setup_complete"
       /\ \/ /\ "setup_complete_failure" \in StartupOutcomes
             /\ Step("act_failed") /\ UNCHANGED lockVars
          \/ TcSetSetupComplete /\ Step("setup_done")
    \/ /\ ev = "setup_done"
       /\ \/ "response_failure" \in StartupOutcomes /\ Step("act_failed")
          \/ Step("act_done")
       /\ UNCHANGED lockVars
    \/ ReleaseTransition("act_done", "ACT")
    \/ ReleaseTransition("act_failed", "FAILURE")

(* Mutant: the data is reset before the state becomes STOP.                *)
HandleStopResetsFirst ==
    \/ ev = "stop" /\ ResetTcGlobalDataOnStateTransition /\ Step("stopping")
    \/ ev = "stopping" /\ TcUpdateUncState("TC_STOP") /\ Finish("STOP")

(* Sessions are cancelled and the wait queues cleared between the two.     *)
HandleStop ==
    \/ ev = "stop" /\ TcUpdateUncState("TC_STOP") /\ Step("stopping")
    \/ ev = "stopping" /\ ResetTcGlobalDataOnStateTransition /\ Finish("STOP")

-----------------------------------------------------------------------------
Init ==
    /\ LockInit
    /\ ev = "idle"
    /\ state_ = "INIT"
    /\ thread = [k \in Threads |-> [s \in Sessions |-> Idle]]
    /\ audit = "idle"
    /\ crashed = FALSE

Request(s) ==
    \/ ConfigAcquire(s)
    \/ ConfigRelease(s)
    \/ \E op \in WriteOps : CandidateRequest(s, op) \/ WriteRequest(s, op)
    \/ \E op \in StartupOps \cap WriteOps : AutoSaveRequest(s, op)
    \/ AutoSaveGetRequest(s)
    \/ ReadRequest(s)
    \/ ReadRelease(s)
    \/ TcReleaseSession(s)

(* The steps of a request that has been accepted.                          *)
ClientStep(s) ==
    \/ FillTcMsgData(s)
    \/ ConfigReleaseExclusion("client", s)
    \/ GetExclusionForRelease("client", s)
    \/ ValidateGlobalModeDirty(s)
    \/ WriteReleaseExclusion(s)
    \/ ReleaseMarkedSession(s)
    \/ AutoSaveReleaseExclusion(s)

UsessStep(s) ==
    \/ TcReleaseSessionBranch(s)
    \/ TcReleaseSessionAct(s)
    \/ GetExclusionForRelease("usess", s)
    \/ ConfigReleaseExclusion("usess", s)

Handle == HandleStart \/ HandleAct \/ HandleStop

Next ==
    /\ ~crashed
    /\ \/ \E s \in Sessions : Request(s) \/ ClientStep(s) \/ UsessStep(s)
       \/ DriverAudit
       \/ DriverAuditReleaseExclusion
       \/ Event
       \/ Handle

Spec == Init /\ [][Next]_vars

(* A request, an audit or a handler that has begun goes on: messages are   *)
(* answered or cancelled, and the mutexes are released.  Nothing is        *)
(* assumed of the clients, of the session manager or of the events.        *)
LiveSpec ==
    /\ Spec
    /\ \A s \in Sessions :
         WF_vars(~crashed /\ ClientStep(s)) /\ WF_vars(~crashed /\ UsessStep(s))
    /\ WF_vars(~crashed /\ audit_asleep /\ DriverAudit)
    /\ WF_vars(~crashed /\ DriverAuditReleaseExclusion)
    /\ WF_vars(~crashed /\ Handle)

-----------------------------------------------------------------------------
(* Properties.                                                             *)

Steps == {"idle", "fill", "notify", "release", "release_marked", "execute", "released",
          "autosave", "autosave_get", "operation", "mark", "read", "config"}

Request_ ==
    [step : Steps,
     op : WriteOps \cup {"none", "TC_NOTIFY_ACQUIRE", "TC_NOTIFY_RELEASE"},
     config_id : 0..UINT32_MAX]

HandlerStates == {"INIT", "SBY", "ACT", "FAILURE", "STOP"}

Transition == {"start_locked", "start_done", "act_locked", "startup", "setup_complete",
               "setup_done", "act_done", "act_failed"}

(* The variables of the threads stay in their ranges.                      *)
ModuleTypeOK ==
    /\ LockTypeOK
    /\ ev \in Transition \cup {"idle", "start", "act", "stop", "stopping"}
    /\ state_ \in HandlerStates
    /\ thread \in [Threads -> [Sessions -> Request_]]
    /\ audit \in {"idle", "execute"}
    /\ crashed \in BOOLEAN

(* Every call the threads make of the lock manager is one that module      *)
(* TcLock allows; the event handlers meet the obligations of               *)
(* StateChangeNext, on their failure paths too.                            *)
ImplementsTcLock == LockSpec

(* The handler state and the UNC state agree between events, and the       *)
(* transition lock is held exactly while a handler runs that took it: no   *)
(* path of HandleStart or HandleAct, failing ones included, keeps it.      *)
HandlerStateAgrees ==
    /\ state_transition_in_progress <=> ev \in Transition
    /\ ev = "idle" =>
         /\ state_ = "INIT" => current_state = "TC_INIT"
         /\ state_ = "SBY" => current_state = "TC_SBY"
         /\ state_ = "ACT" => \/ current_state = "TC_ACT_FAIL"
                              \/ current_state = "TC_ACT" /\ setup_complete_done
         /\ state_ = "FAILURE" => current_state \in {"TC_SBY", "TC_ACT"}
         /\ state_ = "STOP" => current_state = "TC_STOP"

(* Whoever holds the write lock or the autosave flag is an operation that  *)
(* still runs and will release it: no path of Dispatch or RevokeOperation  *)
(* leaks them.                                                             *)
LocksHaveOwners ==
    /\ isWriteHeld =>
         \/ w_operation = "TC_AUDIT_DRIVER" /\ audit = "execute"
         \/ \E s \in Sessions :
              /\ s = w_session_id
              /\ thread["client"][s].op = w_operation
              /\ thread["client"][s].step \in {"execute", "autosave"}
    /\ is_enable =>
         \E s \in Sessions : thread["client"][s].step \in {"autosave", "autosave_get"}

(* On an active node every announcement that is pending belongs to a       *)
(* configuration operation that will complete it: no entry stays pending,  *)
(* which would refuse every later acquisition, forced ones included.       *)
PendingHasNotifier ==
    current_state = "TC_ACT" =>
        \A n \in ConfigNames :
            LET e == tc_config_name_map[n]
            IN  e.is_notify_pending =>
                  \E k \in Threads :
                      LET t == thread[k][e.session_id]
                      IN  /\ t.op = e.notify_operation
                          /\ t.step = "fill" \/ (t.step = "notify" /\ t.config_id = e.config_id)

(* What RevokeOperation logs as fatal does not happen on an active node:   *)
(* an operation that has executed can release the lock it secured.         *)
ReleaseSucceedsWhenActive ==
    current_state = "TC_ACT" =>
        /\ \A k \in Threads, s \in Sessions :
             At(k, s, "notify") => NotifyMatches(thread[k][s].config_id, s, thread[k][s].op)
        /\ \A s \in Sessions :
             /\ thread["client"][s].step \in {"execute", "autosave"} =>
                  WriteHeldFor(s, thread["client"][s].op)
             /\ thread["client"][s].step \in {"autosave", "autosave_get"} => is_enable
        /\ audit = "execute" => WriteHeldFor(NoSession, "TC_AUDIT_DRIVER")

(* Every event is handled to its end, unless the daemon crashes: HandleAct *)
(* and HandleStop are not blocked for good by a reader, by a writer or by  *)
(* a driver audit that sleeps with the mutex held.  It holds of start-ups  *)
(* whose SETUP_COMPLETE succeeds; for the others see AuditLockReturns.     *)
EventsComplete == ev # "idle" ~> (ev = "idle" \/ crashed)

(* Every request that has secured its exclusion ends and gives it up.      *)
RequestsComplete ==
    \A k \in Threads, s \in Sessions : ~At(k, s, "idle") ~> (At(k, s, "idle") \/ crashed)

(* AcquireWriteLockForAuditDriver: "@return TC_LOCK_SUCCESS When got the   *)
(* write lock", "TC_LOCK_INVALID_UNC_STATE The lock can not be held in     *)
(* this state".  A driver audit that waits for SETUP_COMPLETE returns.     *)
AuditLockReturns == audit_asleep ~> (~audit_asleep \/ crashed)

Marked(s) == current_state = "TC_ACT" /\ HasConfig(s) /\ Entry(s).marked_session_id = s

(* TcReleaseSession, on a session that commits or aborts: "Mark the        *)
(* session for release".  A marked session is released.                    *)
MarkedSessionIsReleased == \A s \in Sessions : Marked(s) ~> (~Marked(s) \/ crashed)

(* TcCandidateOperations::TcReleaseExclusion: "After release of current    *)
(* candidate operation, trigger next waiting op".  A commit or an abort    *)
(* that has released the write lock gets there.                            *)
CandidateReleaseEnds ==
    \A s \in Sessions : At("client", s, "released") ~> At("client", s, "idle")
====
