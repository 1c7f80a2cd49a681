------------------------------- MODULE TcLock -------------------------------
(***************************************************************************)
(* The lock manager of the Transaction Coordinator (class TcLock and the   *)
(* reader/writer lock TcReadWriteLock it owns): the configuration sessions *)
(* of tc_config_name_map_, the read sessions, the write lock, the autosave *)
(* flag, the UNC state and the lock a state transition holds.              *)
(*                                                                         *)
(* Every method runs under one mutex (getGlobalLock()), so every method is *)
(* one action.  The exception is AcquireWriteLockForAuditDriver, which     *)
(* sleeps with the mutex held until SETUP_COMPLETE is answered: it is two  *)
(* actions, and audit_asleep holds between them.  Driver audits run        *)
(* without a session, under session id 0.                                  *)
(* A call that returns an error changes nothing and is a stuttering step.  *)
(*                                                                         *)
(* Spec lets any session call any method at any time.  The only            *)
(* obligations put on the callers are those of the three methods a state   *)
(* change uses, stated in StateChangeNext; module TcModule shows that the  *)
(* event handlers meet them.                                               *)
(***************************************************************************)
EXTENDS Integers, FiniteSets

CONSTANTS
    Sessions,      \* session ids of the clients (never 0)
    NoSession,     \* session id 0: nobody, a state change, or a driver audit
    ConfigNames,   \* keys of tc_config_name_map_: "global-mode", "real-mode",
                   \* "virtual-mode" and the names of VTNs
    Rank,          \* the order in which the map lists its keys
    WriteOps,      \* TcWriteOperation values that clients ask for
    UINT32_MAX     \* largest uint32_t, scaled down

GlobalMode == "global-mode"

ASSUME SessionAssumption == IsFiniteSet(Sessions) /\ NoSession \notin Sessions

ASSUME NameAssumption == GlobalMode \in ConfigNames

(* std::map lists its keys in a total order, so every non-empty set of     *)
(* keys has a first one.                                                   *)
ASSUME RankAssumption ==
    \A S \in SUBSET ConfigNames : 
        S # {} => \E n \in S : \A m \in S : Rank[n] <= Rank[m]

(* There are fewer sessions than uint32_t values (setReader asserts that   *)
(* rw_owner stays at most R_READERS_MAX).                                  *)
ASSUME UINT32Assumption ==
    UINT32_MAX \in Nat /\ Cardinality(Sessions) + 1 < UINT32_MAX

VARIABLES
    tc_config_name_map,     \* name -> TcConfigLock
    prev_config_id,         \* last configuration id handed out
    read_sessions,          \* tc_read_lock_.read_sessions
    rw_owner,               \* number of readers, or RW_OWNER_WRLOCKED
    w_session_id,           \* owner of the write lock
    w_operation,            \* operation that holds the write lock
    last_write_op,          \* operation that held it last
    is_enable,              \* tc_auto_save_.is_enable
    current_state,          \* tc_state_lock_.current_state
    state_transition_in_progress,
    setup_complete_done,    \* setup_complete_done_
    audit_asleep            \* a driver audit sleeps with the mutex held

configVars == <<tc_config_name_map, prev_config_id>>
rwVars == <<read_sessions, rw_owner, w_session_id, w_operation, last_write_op>>
stateVars == <<current_state, state_transition_in_progress>>
lockVars == <<configVars, rwVars, is_enable, stateVars, setup_complete_done,
              audit_asleep>>

RW_OWNER_WRLOCKED == UINT32_MAX

CandidateOps == {"TC_COMMIT", "TC_ABORT_CANDIDATE_CONFIG"}

StartupOps == {"TC_CLEAR_STARTUP_CONFIG", "TC_SAVE_STARTUP_CONFIG"}

ASSUME WriteOpsAssumption ==
    WriteOps \subseteq CandidateOps \cup StartupOps \cup {"TC_AUDIT_USER", "TC_AUDIT_DRIVER"}

TcStates == {"TC_INIT", "TC_SBY", "TC_ACT", "TC_ACT_FAIL", "TC_STOP"}

TcConfigLock ==
    [config_id : 0..UINT32_MAX,
     session_id : Sessions \cup {NoSession},
     marked_session_id : Sessions \cup {NoSession},
     is_taken : BOOLEAN,
     is_notify_pending : BOOLEAN,
     notify_operation : {"TC_NOTIFY_NONE", "TC_NOTIFY_ACQUIRE", "TC_NOTIFY_RELEASE"}]

(* The default-constructed entry, which stands for a name the map lacks.   *)
NoEntry ==
    [config_id |-> 0, session_id |-> NoSession, marked_session_id |-> NoSession,
     is_taken |-> FALSE, is_notify_pending |-> FALSE,
     notify_operation |-> "TC_NOTIFY_NONE"]

EmptyMap == [n \in ConfigNames |-> NoEntry]

Present(n) == tc_config_name_map[n] # NoEntry

-----------------------------------------------------------------------------
(* uint32_t arithmetic: both ends wrap.                                    *)
Increment(x) == IF x = UINT32_MAX THEN 0 ELSE x + 1

Decrement(x) == IF x = 0 THEN UINT32_MAX ELSE x - 1

(* Mutants: the id is never wrapped; it wraps to 0.                        *)
GetConfigIdUnwrapped == prev_config_id + 1

GetConfigIdToZero == Increment(prev_config_id)

GetConfigId == IF prev_config_id = UINT32_MAX THEN 1 ELSE prev_config_id + 1

NamesOf(s) == {n \in ConfigNames : Present(n) /\ tc_config_name_map[n].session_id = s}

HasConfig(s) == NamesOf(s) # {}

(* The first entry of the map that belongs to session s.                   *)
FindConfigName(s) ==
    CHOOSE n \in NamesOf(s) : \A m \in NamesOf(s) : Rank[n] <= Rank[m]

Busy(n) == tc_config_name_map[n].is_taken \/ tc_config_name_map[n].is_notify_pending

isWriteHeld == rw_owner = RW_OWNER_WRLOCKED

isWriteHeldBy(s) == isWriteHeld /\ w_session_id = s

canReadLock == rw_owner # RW_OWNER_WRLOCKED

canWriteLock == rw_owner = 0

MutexFree == ~audit_asleep

(* Mutant: read sessions are refused in INIT only.                         *)
TcOperationIsAllowedAfterStop(s, op) ==
    \/ current_state = "TC_ACT"
    \/ /\ current_state # "TC_INIT"
       /\ op \in {"TC_ACQUIRE_READ_SESSION", "TC_ACQUIRE_READ_LOCK_FOR_STATE_TRANSITION"}
    \/ /\ current_state = "TC_INIT"
       /\ op = "TC_ACQUIRE_READ_LOCK_FOR_STATE_TRANSITION"

TcOperationIsAllowed(s, op) ==
    /\ \/ current_state = "TC_ACT"
       \/ /\ current_state \in {"TC_SBY", "TC_ACT_FAIL"}
          /\ op \in {"TC_ACQUIRE_READ_SESSION", "TC_ACQUIRE_READ_LOCK_FOR_STATE_TRANSITION"}
       \/ /\ current_state = "TC_INIT"
          /\ op = "TC_ACQUIRE_READ_LOCK_FOR_STATE_TRANSITION"
    /\ current_state = "TC_ACT" /\ HasConfig(s)
         => tc_config_name_map[FindConfigName(s)].marked_session_id # s

-----------------------------------------------------------------------------
(* Configuration sessions.                                                 *)

(* The entry of name n is handed to session s in map (which is the current *)
(* one, or the emptied one of a forced acquisition).                       *)
UpdateConfigData(map, s, n) ==
    /\ tc_config_name_map' =
         [map EXCEPT ![n] = [@ EXCEPT !.session_id = s,
                                      !.config_id = GetConfigId,
                                      !.is_taken = TRUE,
                                      !.is_notify_pending = TRUE,
                                      !.notify_operation = "TC_NOTIFY_ACQUIRE"]]
    /\ prev_config_id' = GetConfigId

(* Mutants: a partial mode does not look at the global mode; a transition  *)
(* in progress is ignored.                                                 *)
AcquireConfigLockBesideGlobal(s, n) ==
    /\ MutexFree
    /\ TcOperationIsAllowed(s, "TC_ACQUIRE_CONFIG_SESSION")
    /\ ~state_transition_in_progress
    /\ IF n = GlobalMode THEN tc_config_name_map = EmptyMap ELSE ~Busy(n)
    /\ UpdateConfigData(tc_config_name_map, s, n)
    /\ UNCHANGED <<rwVars, is_enable, stateVars, setup_complete_done, audit_asleep>>

AcquireConfigLockInTransition(s, n) ==
    /\ MutexFree
    /\ TcOperationIsAllowed(s, "TC_ACQUIRE_CONFIG_SESSION")
    /\ tc_config_name_map = EmptyMap
    /\ UpdateConfigData(tc_config_name_map, s, n)
    /\ UNCHANGED <<rwVars, is_enable, stateVars, setup_complete_done, audit_asleep>>

CanAcquireConfig(s, n) ==
    /\ TcOperationIsAllowed(s, "TC_ACQUIRE_CONFIG_SESSION")
    /\ ~state_transition_in_progress
    /\ IF n = GlobalMode
         THEN tc_config_name_map = EmptyMap
         ELSE ~Busy(GlobalMode) /\ ~Busy(n)

AcquireConfigLock(s, n) ==
    /\ MutexFree
    /\ CanAcquireConfig(s, n)
    /\ UpdateConfigData(tc_config_name_map, s, n)
    /\ UNCHANGED <<rwVars, is_enable, stateVars, setup_complete_done, audit_asleep>>

(* Mutants: a running commit or abort does not stop a forced acquisition;  *)
(* a pending announcement does not.                                        *)
ForceAcquireConfigLockOverCommit(s) ==
    /\ MutexFree
    /\ TcOperationIsAllowed(s, "TC_FORCE_ACQUIRE_CONFIG_SESSION")
    /\ ~state_transition_in_progress
    /\ \A n \in ConfigNames : ~tc_config_name_map[n].is_notify_pending
    /\ UpdateConfigData(EmptyMap, s, GlobalMode)
    /\ UNCHANGED <<rwVars, is_enable, stateVars, setup_complete_done, audit_asleep>>

ForceAcquireConfigLockOverNotify(s) ==
    /\ MutexFree
    /\ TcOperationIsAllowed(s, "TC_FORCE_ACQUIRE_CONFIG_SESSION")
    /\ ~state_transition_in_progress
    /\ ~(isWriteHeld /\ w_operation \in CandidateOps)
    /\ UpdateConfigData(EmptyMap, s, GlobalMode)
    /\ UNCHANGED <<rwVars, is_enable, stateVars, setup_complete_done, audit_asleep>>

ForceAcquireConfigLock(s) ==
    /\ MutexFree
    /\ TcOperationIsAllowed(s, "TC_FORCE_ACQUIRE_CONFIG_SESSION")
    /\ ~state_transition_in_progress
    /\ \A n \in ConfigNames :
         /\ ~tc_config_name_map[n].is_notify_pending
         /\ ~(tc_config_name_map[n].is_taken /\ isWriteHeld /\ w_operation \in CandidateOps)
    /\ UpdateConfigData(EmptyMap, s, GlobalMode)
    /\ UNCHANGED <<rwVars, is_enable, stateVars, setup_complete_done, audit_asleep>>

CanReleaseConfig(s, config_id) ==
    LET n == FindConfigName(s)
    IN  /\ HasConfig(s)
        /\ tc_config_name_map[n].is_taken
        /\ tc_config_name_map[n].config_id = config_id
        /\ ~tc_config_name_map[n].is_notify_pending
        /\ ~(w_operation \in CandidateOps /\ isWriteHeldBy(s))

ReleaseConfigLock(s, config_id) ==
    LET n == FindConfigName(s)
    IN  /\ MutexFree
        /\ CanReleaseConfig(s, config_id)
        /\ tc_config_name_map' =
             [tc_config_name_map EXCEPT ![n].is_notify_pending = TRUE,
                                        ![n].is_taken = FALSE,
                                        ![n].notify_operation = "TC_NOTIFY_RELEASE"]
        /\ UNCHANGED <<prev_config_id, rwVars, is_enable, stateVars,
                       setup_complete_done, audit_asleep>>

NotifyMatches(config_id, s, notify) ==
    LET n == FindConfigName(s)
    IN  /\ HasConfig(s)
        /\ tc_config_name_map[n].notify_operation = notify
        /\ tc_config_name_map[n].config_id = config_id

NotifyConfigIdSessionIdDone(config_id, s, notify) ==
    LET n == FindConfigName(s)
    IN  /\ MutexFree
        /\ NotifyMatches(config_id, s, notify)
        /\ tc_config_name_map' =
             [tc_config_name_map EXCEPT
                ![n] = IF notify = "TC_NOTIFY_RELEASE"
                         THEN NoEntry
                         ELSE [@ EXCEPT !.notify_operation = "TC_NOTIFY_NONE",
                                        !.is_notify_pending = FALSE]]
        /\ UNCHANGED <<prev_config_id, rwVars, is_enable, stateVars,
                       setup_complete_done, audit_asleep>>

CanMark(s) ==
    /\ HasConfig(s)
    /\ tc_config_name_map[FindConfigName(s)].is_taken
    /\ tc_config_name_map[FindConfigName(s)].marked_session_id = NoSession

TcMarkSessionId(s) ==
    LET n == FindConfigName(s)
    IN  /\ MutexFree
        /\ CanMark(s)
        /\ tc_config_name_map' = [tc_config_name_map EXCEPT ![n].marked_session_id = s]
        /\ UNCHANGED <<prev_config_id, rwVars, is_enable, stateVars,
                       setup_complete_done, audit_asleep>>

-----------------------------------------------------------------------------
(* The reader/writer lock: read sessions, the write lock, autosave.        *)

(* Mutant: a session may acquire the read lock twice.                      *)
AcquireReadLockTwice(s) ==
    /\ MutexFree
    /\ TcOperationIsAllowed(s, "TC_ACQUIRE_READ_SESSION")
    /\ canReadLock
    /\ read_sessions' = read_sessions \cup {s}
    /\ rw_owner' = Increment(rw_owner)
    /\ UNCHANGED <<configVars, w_session_id, w_operation, last_write_op, is_enable,
                   stateVars, setup_complete_done, audit_asleep>>

AcquireReadLock(s) ==
    /\ MutexFree
    /\ TcOperationIsAllowed(s, "TC_ACQUIRE_READ_SESSION")
    /\ canReadLock
    /\ s \notin read_sessions
    /\ read_sessions' = read_sessions \cup {s}
    /\ rw_owner' = Increment(rw_owner)
    /\ UNCHANGED <<configVars, w_session_id, w_operation, last_write_op, is_enable,
                   stateVars, setup_complete_done, audit_asleep>>

ReleaseReadLock(s) ==
    /\ MutexFree
    /\ s \in read_sessions
    /\ read_sessions' = read_sessions \ {s}
    /\ rw_owner' = Decrement(rw_owner)
    /\ UNCHANGED <<configVars, w_session_id, w_operation, last_write_op, is_enable,
                   stateVars, setup_complete_done, audit_asleep>>

(* tryLock(session_id, op) that succeeds.                                  *)
WriteLock(s, op) ==
    /\ canWriteLock
    /\ rw_owner' = RW_OWNER_WRLOCKED
    /\ w_session_id' = s
    /\ w_operation' = op
    /\ UNCHANGED <<read_sessions, last_write_op>>

WriteHeldFor(s, op) == isWriteHeldBy(s) /\ w_operation = op

(* unlock(session_id, op) that succeeds.                                   *)
WriteUnlock(s, op) ==
    /\ WriteHeldFor(s, op)
    /\ last_write_op' = w_operation
    /\ w_session_id' = NoSession
    /\ w_operation' = "TC_WRITE_NONE"
    /\ rw_owner' = 0
    /\ UNCHANGED read_sessions

(* A commit or an abort needs a configuration session that is acquired and *)
(* announced to UPLL and UPPL.                                             *)
HoldsConfig(s) ==
    /\ HasConfig(s)
    /\ tc_config_name_map[FindConfigName(s)].is_taken
    /\ ~tc_config_name_map[FindConfigName(s)].is_notify_pending

AcquireWriteLock(s, op) ==
    /\ MutexFree
    /\ op # "TC_AUDIT_DRIVER"
    /\ TcOperationIsAllowed(s, "TC_ACQUIRE_WRITE_SESSION")
    /\ op \in CandidateOps => HoldsConfig(s)
    /\ WriteLock(s, op)
    /\ UNCHANGED <<configVars, is_enable, stateVars, setup_complete_done, audit_asleep>>

ReleaseWriteLock(s, op) ==
    /\ MutexFree
    /\ WriteUnlock(s, op)
    /\ UNCHANGED <<configVars, is_enable, stateVars, setup_complete_done, audit_asleep>>

(* Mutant: the sleep comes before the state is checked.                    *)
AuditDriverSleepUnchecked ==
    /\ MutexFree
    /\ ~setup_complete_done
    /\ audit_asleep' = TRUE
    /\ UNCHANGED <<configVars, rwVars, is_enable, stateVars, setup_complete_done>>

(* AcquireWriteLockForAuditDriver, up to its sleep with the mutex held.    *)
AuditDriverSleep ==
    /\ MutexFree
    /\ TcOperationIsAllowed(NoSession, "TC_ACQUIRE_WRITE_SESSION")
    /\ ~setup_complete_done
    /\ audit_asleep' = TRUE
    /\ UNCHANGED <<configVars, rwVars, is_enable, stateVars, setup_complete_done>>

(* AcquireWriteLockForAuditDriver from the end of its loop: it takes the   *)
(* write lock, or returns TC_LOCK_BUSY.                                    *)
AcquireWriteLockForAuditDriver ==
    /\ audit_asleep \/ TcOperationIsAllowed(NoSession, "TC_ACQUIRE_WRITE_SESSION")
    /\ setup_complete_done
    /\ IF canWriteLock THEN WriteLock(NoSession, "TC_AUDIT_DRIVER") ELSE UNCHANGED rwVars
    /\ audit_asleep' = FALSE
    /\ UNCHANGED <<configVars, is_enable, stateVars, setup_complete_done>>

(* TC_AUTO_SAVE_ENABLE (op TC_CLEAR_STARTUP_CONFIG), TC_AUTO_SAVE_DISABLE  *)
(* (op TC_SAVE_STARTUP_CONFIG): the flag and the write lock, or neither.   *)
AutoSaveWriteLock(s, op) ==
    /\ MutexFree
    /\ TcOperationIsAllowed(s, "TC_AUTO_SAVE_ENABLE")
    /\ ~is_enable
    /\ is_enable' = TRUE
    /\ WriteLock(s, op)
    /\ UNCHANGED <<configVars, stateVars, setup_complete_done, audit_asleep>>

AutoSaveWriteUnlock(s, op) ==
    /\ MutexFree
    /\ is_enable
    /\ is_enable' = FALSE
    /\ WriteUnlock(s, op)
    /\ UNCHANGED <<configVars, stateVars, setup_complete_done, audit_asleep>>

(* TC_AUTO_SAVE_GET: the flag alone.                                       *)
AutoSaveEnable(s) ==
    /\ MutexFree
    /\ TcOperationIsAllowed(s, "TC_AUTO_SAVE_GET")
    /\ ~is_enable
    /\ is_enable' = TRUE
    /\ UNCHANGED <<configVars, rwVars, stateVars, setup_complete_done, audit_asleep>>

AutoSaveDisable ==
    /\ MutexFree
    /\ is_enable
    /\ is_enable' = FALSE
    /\ UNCHANGED <<configVars, rwVars, stateVars, setup_complete_done, audit_asleep>>

-----------------------------------------------------------------------------
(* State changes.                                                          *)

TcAcquireReadLockForStateTransition ==
    /\ MutexFree
    /\ TcOperationIsAllowed(NoSession, "TC_ACQUIRE_READ_LOCK_FOR_STATE_TRANSITION")
    /\ canReadLock
    /\ ~state_transition_in_progress
    /\ state_transition_in_progress' = TRUE
    /\ rw_owner' = Increment(rw_owner)
    /\ UNCHANGED <<configVars, read_sessions, w_session_id, w_operation, last_write_op,
                   is_enable, current_state, setup_complete_done, audit_asleep>>

TcReleaseReadLockForStateTransition ==
    /\ MutexFree
    /\ state_transition_in_progress
    /\ state_transition_in_progress' = FALSE
    /\ rw_owner' = Decrement(rw_owner)
    /\ UNCHANGED <<configVars, read_sessions, w_session_id, w_operation, last_write_op,
                   is_enable, current_state, setup_complete_done, audit_asleep>>

TcUpdateUncState(new_state) ==
    /\ MutexFree
    /\ current_state' = IF current_state = "TC_STOP" THEN current_state ELSE new_state
    /\ UNCHANGED <<configVars, rwVars, is_enable, state_transition_in_progress,
                   setup_complete_done, audit_asleep>>

(* Mutant: the reset forgets the lock of the transition that runs it.      *)
ResetTcGlobalDataToZero ==
    /\ MutexFree
    /\ tc_config_name_map' = EmptyMap
    /\ read_sessions' = {}
    /\ rw_owner' = 0
    /\ w_session_id' = NoSession
    /\ w_operation' = "TC_WRITE_NONE"
    /\ last_write_op' = "TC_WRITE_NONE"
    /\ is_enable' = FALSE
    /\ setup_complete_done' = FALSE
    /\ UNCHANGED <<prev_config_id, stateVars, audit_asleep>>

(* The transition is left in progress: the lock it holds is the one reader *)
(* that rw_owner is set to.                                                *)
ResetTcGlobalDataOnStateTransition ==
    /\ MutexFree
    /\ tc_config_name_map' = EmptyMap
    /\ read_sessions' = {}
    /\ rw_owner' = 1
    /\ w_session_id' = NoSession
    /\ w_operation' = "TC_WRITE_NONE"
    /\ last_write_op' = "TC_WRITE_NONE"
    /\ is_enable' = FALSE
    /\ setup_complete_done' = FALSE
    /\ UNCHANGED <<prev_config_id, stateVars, audit_asleep>>

(* The flag has a mutex of its own.                                        *)
TcSetSetupComplete ==
    /\ setup_complete_done' = TRUE
    /\ UNCHANGED <<configVars, rwVars, is_enable, stateVars, audit_asleep>>

-----------------------------------------------------------------------------
LockInit ==
    /\ tc_config_name_map = EmptyMap
    /\ prev_config_id = 0
    /\ read_sessions = {}
    /\ rw_owner = 0
    /\ w_session_id = NoSession
    /\ w_operation = "TC_WRITE_NONE"
    /\ last_write_op = "TC_WRITE_NONE"
    /\ is_enable = FALSE
    /\ current_state = "TC_INIT"
    /\ state_transition_in_progress = FALSE
    /\ setup_complete_done = FALSE
    /\ audit_asleep = FALSE

ConfigNext ==
    \E s \in Sessions :
        \/ \E n \in ConfigNames : AcquireConfigLock(s, n)
        \/ ForceAcquireConfigLock(s)
        \/ \E id \in 0..UINT32_MAX :
             \/ ReleaseConfigLock(s, id)
             \/ NotifyConfigIdSessionIdDone(id, s, "TC_NOTIFY_ACQUIRE")
             \/ NotifyConfigIdSessionIdDone(id, s, "TC_NOTIFY_RELEASE")
        \/ TcMarkSessionId(s)

ReadWriteNext ==
    \E s \in Sessions :
        \/ AcquireReadLock(s)
        \/ ReleaseReadLock(s)
        \/ \E op \in WriteOps : AcquireWriteLock(s, op) \/ ReleaseWriteLock(s, op)
        \/ \E op \in StartupOps \cap WriteOps :
             AutoSaveWriteLock(s, op) \/ AutoSaveWriteUnlock(s, op)
        \/ AutoSaveEnable(s)
        \/ AutoSaveDisable

DriverAuditNext ==
    /\ "TC_AUDIT_DRIVER" \in WriteOps
    /\ \/ AuditDriverSleep
       \/ AcquireWriteLockForAuditDriver
       \/ ReleaseWriteLock(NoSession, "TC_AUDIT_DRIVER")

(* The obligations of the event handlers: a transition starts before the   *)
(* node is active; the state moves along INIT, SBY, ACT or ACT_FAIL while  *)
(* a transition holds its lock, and to STOP at any time; the data is reset *)
(* by a transition out of SBY or after STOP; SETUP_COMPLETE is recorded by *)
(* the transition that made the node active.                               *)
StateChangeNext ==
    \/ current_state \in {"TC_INIT", "TC_SBY"} /\ TcAcquireReadLockForStateTransition
    \/ TcReleaseReadLockForStateTransition
    \/ state_transition_in_progress /\ current_state = "TC_INIT" /\ TcUpdateUncState("TC_SBY")
    \/ /\ state_transition_in_progress /\ current_state = "TC_SBY"
       /\ \E new \in {"TC_ACT", "TC_ACT_FAIL"} : TcUpdateUncState(new)
    \/ TcUpdateUncState("TC_STOP")
    \/ state_transition_in_progress /\ current_state = "TC_SBY"
         /\ ResetTcGlobalDataOnStateTransition
    \/ current_state = "TC_STOP" /\ ResetTcGlobalDataOnStateTransition
    \/ state_transition_in_progress /\ current_state = "TC_ACT" /\ TcSetSetupComplete

LockNext == ConfigNext \/ ReadWriteNext \/ DriverAuditNext \/ StateChangeNext

LockSpec == LockInit /\ [][LockNext]_lockVars

-----------------------------------------------------------------------------
(* Properties.                                                             *)

(* Every variable of TcLock stays in the range of its C++ type.            *)
LockTypeOK ==
    /\ tc_config_name_map \in [ConfigNames -> TcConfigLock]
    /\ prev_config_id \in 0..UINT32_MAX
    /\ read_sessions \in SUBSET Sessions
    /\ rw_owner \in 0..UINT32_MAX
    /\ w_session_id \in Sessions \cup {NoSession}
    /\ w_operation \in WriteOps \cup {"TC_WRITE_NONE"}
    /\ last_write_op \in WriteOps \cup {"TC_WRITE_NONE"}
    /\ is_enable \in BOOLEAN
    /\ current_state \in TcStates
    /\ state_transition_in_progress \in BOOLEAN
    /\ setup_complete_done \in BOOLEAN
    /\ audit_asleep \in BOOLEAN

Readers == Cardinality(read_sessions) + (IF state_transition_in_progress THEN 1 ELSE 0)

(* rw_owner counts exactly the read sessions and the transition lock until *)
(* the node stops, also across ResetTcGlobalDataOnStateTransition, so that *)
(* unlock() never decrements 0 into RW_OWNER_WRLOCKED; after the reset of  *)
(* HandleStop, which holds no lock, it counts at most one reader too many. *)
(* A writer is alone, and its operation is recorded exactly while rw_owner *)
(* says so, with its session unless it is a driver audit.                  *)
RwOwnerCountsHolders ==
    /\ isWriteHeld => read_sessions = {} /\ ~state_transition_in_progress
    /\ ~isWriteHeld => \/ rw_owner = Readers
                       \/ current_state = "TC_STOP" /\ rw_owner = Readers + 1
    /\ isWriteHeld <=> w_operation # "TC_WRITE_NONE"
    /\ w_session_id = NoSession <=> w_operation \in {"TC_WRITE_NONE", "TC_AUDIT_DRIVER"}

(* What the disabled PFC_VERIFY of ResetTcGlobalDataOnStateTransition says *)
(* of a node that is not stopping: the reset by HandleAct finds exactly    *)
(* the read sessions and its own transition lock, and no writer.           *)
ResetFindsOwnLock ==
    current_state # "TC_STOP" /\ state_transition_in_progress
      => rw_owner = Cardinality(read_sessions) + 1

(* A global-mode session, from its acquisition until its release has been  *)
(* announced, excludes every other configuration session.                  *)
GlobalModeExcludesOthers ==
    Present(GlobalMode) => \A n \in ConfigNames \ {GlobalMode} : ~Present(n)

ConsistentEntry(e) ==
    /\ e.session_id \in Sessions
    /\ e.config_id # 0
    /\ e.is_notify_pending <=> e.notify_operation # "TC_NOTIFY_NONE"
    /\ e.is_taken <=> e.notify_operation # "TC_NOTIFY_RELEASE"
    /\ e.marked_session_id \in {NoSession, e.session_id}

(* An entry of the map is acquired, being announced or being withdrawn,    *)
(* and carries a session and a non-zero id: id 0 tells UPLL and UPPL that  *)
(* a session is released, and is skipped when GetConfigId wraps.           *)
EntriesAreAnnounced ==
    \A n \in ConfigNames : Present(n) => ConsistentEntry(tc_config_name_map[n])

(* While a commit or an abort of the candidate configuration runs, its     *)
(* session keeps an announced configuration session: neither a release nor *)
(* a forced acquisition by another session takes it away.                  *)
CandidateWriterKeepsConfig ==
    isWriteHeld /\ w_operation \in CandidateOps =>
        \E n \in NamesOf(w_session_id) :
            /\ tc_config_name_map[n].is_taken
            /\ ~tc_config_name_map[n].is_notify_pending

(* A node that is not active has no configuration session and no writer,   *)
(* and neither has one whose state is changing: AcquireConfigLock refuses  *)
(* during a transition, and the transition's own read lock keeps writers   *)
(* out.  Hence the wait loop of TcAcquireReadLockForStateTransition is     *)
(* never entered by a handler that starts in INIT or SBY.                  *)
IdleUnlessActive ==
    (current_state \notin {"TC_ACT", "TC_STOP"} \/ state_transition_in_progress)
      => tc_config_name_map = EmptyMap /\ ~isWriteHeld

(* Only an active node has SETUP_COMPLETE recorded, or a driver audit      *)
(* waiting for it with the mutex held.                                     *)
SetupOnlyWhenActive ==
    /\ setup_complete_done => current_state \in {"TC_ACT", "TC_STOP"}
    /\ audit_asleep => current_state = "TC_ACT"

GrantsNothing ==
    current_state = "TC_STOP" =>
        /\ current_state' = "TC_STOP"
        /\ read_sessions' \subseteq read_sessions
        /\ isWriteHeld' => isWriteHeld
        /\ \A n \in ConfigNames : Present(n)' => Present(n)
        /\ is_enable' => is_enable
        /\ state_transition_in_progress' => state_transition_in_progress

(* A stopped node grants no lock: nobody starts reading or writing, no     *)
(* configuration session appears, autosave is not taken and no transition  *)
(* begins; it never leaves TC_STOP.                                        *)
StopGrantsNothing == [][GrantsNothing]_lockVars
====
