---------------------------- MODULE TcConfigQueue ----------------------------
(***************************************************************************)
(* Timed acquisition of the configuration mode (TcConfigOperations): the   *)
(* queue config_req_queue_ of requests that wait on a condition variable,  *)
(* in front of the lock manager and beside the event handlers of module    *)
(* TcModule.                                                               *)
(*                                                                         *)
(* The queue has a mutex, and a waiter takes the mutex of its condition    *)
(* variable before it gives up the mutex of the queue, so each operation   *)
(* on the queue is one step.  A signal reaches a request that waits, and   *)
(* is lost on one that has been woken or whose time is up.                 *)
(*                                                                         *)
(* Only configuration requests run here, each on the client thread of its  *)
(* session.  A release asked for by the session manager runs the same code *)
(* as one asked for by the client.                                         *)
(***************************************************************************)
EXTENDS TcModule, Sequences

CONSTANTS
    Timeouts,        \* values of timeout_: 0, 1 (positive), -1 (infinite)
    SettledOnly,     \* clients wait for a node whose activation is complete
    NotifyFails      \* UPLL or UPPL may answer a release with an error

ASSUME QueueAssumption ==
    Timeouts \subseteq {0, 1, -1} /\ SettledOnly \in BOOLEAN /\ NotifyFails \in BOOLEAN

VARIABLES
    config_req_queue,   \* sessions of the requests that wait, in order
    req,                \* where the request of each session stands
    timeout,            \* timeout_ of a request that waits
    release,            \* steps of a release after TcReleaseExclusion
    cleared             \* ClearConfigAcquisitionQueue has run

queueVars == <<config_req_queue, req, timeout, release, cleared>>

Free(s) == At("client", s, "idle") /\ req[s] = "none" /\ release[s] = "none"

(* Mutant: the mode is handed out while another session has it.            *)
TcGetExclusionUnchecked(s) ==
    /\ MutexFree
    /\ TcOperationIsAllowed(s, "TC_ACQUIRE_CONFIG_SESSION")
    /\ UpdateConfigData(tc_config_name_map, s, GlobalMode)
    /\ UNCHANGED <<rwVars, is_enable, stateVars, setup_complete_done, audit_asleep>>
    /\ Goto("client", s, "fill", "TC_NOTIFY_ACQUIRE", 0)

(* TcGetExclusion that succeeds for the global mode, or that fails.        *)
TcGetExclusion(s) ==
    /\ AcquireConfigLock(s, GlobalMode)
    /\ Goto("client", s, "fill", "TC_NOTIFY_ACQUIRE", 0)

NoExclusion(s) == ~CanAcquireConfig(s, GlobalMode) /\ MutexFree /\ UNCHANGED <<lockVars, moduleVars>>

-----------------------------------------------------------------------------
(* Acquisition without a timeout looks at the queue first.                 *)

IsConfigReqQueueEmpty(s) ==
    /\ Free(s) /\ ~HasConfig(s)
    /\ config_req_queue = <<>>
    /\ req' = [req EXCEPT ![s] = "checked"]
    /\ UNCHANGED <<lockVars, moduleVars, config_req_queue, timeout, release, cleared>>

ConfigAcquireNow(s) ==
    /\ req[s] = "checked"
    /\ TcGetExclusion(s) \/ NoExclusion(s)
    /\ req' = [req EXCEPT ![s] = "none"]
    /\ UNCHANGED <<config_req_queue, timeout, release, cleared>>

(* A forced acquisition does not look at the queue.                        *)
ConfigAcquireForce(s) ==
    /\ Free(s)
    /\ ForceAcquireConfigLock(s)
    /\ Goto("client", s, "fill", "TC_NOTIFY_ACQUIRE", 0)
    /\ UNCHANGED queueVars

-----------------------------------------------------------------------------
(* Timed acquisition.                                                      *)

InsertConfigRequest(s, t) ==
    /\ config_req_queue' = Append(config_req_queue, s)
    /\ req' = [req EXCEPT ![s] = "waiting"]
    /\ timeout' = [timeout EXCEPT ![s] = t]

(* HandleTimedConfigAcquisition up to its wait: every failure of           *)
(* TcGetExclusion leads to the queue, unless the timeout is 0.             *)
HandleTimedConfigAcquisition(s, t) ==
    /\ Free(s) /\ ~HasConfig(s)
    /\ SettledOnly => current_state = "TC_ACT" /\ ~state_transition_in_progress
    /\ \/ config_req_queue = <<>> /\ TcGetExclusion(s) /\ UNCHANGED <<config_req_queue, req, timeout>>
       \/ /\ t # 0
          /\ IF config_req_queue = <<>> THEN NoExclusion(s) ELSE UNCHANGED <<lockVars, moduleVars>>
          /\ InsertConfigRequest(s, t)
    /\ UNCHANGED <<release, cleared>>

TimerExpiry(s) ==
    /\ req[s] = "waiting" /\ timeout[s] = 1
    /\ req' = [req EXCEPT ![s] = "expired"]
    /\ UNCHANGED <<lockVars, moduleVars, config_req_queue, timeout, release, cleared>>

(* Mutant: the first request is removed, whoever it belongs to.            *)
RemoveConfigRequestFirst(s) ==
    config_req_queue' = IF config_req_queue = <<>> THEN <<>> ELSE Tail(config_req_queue)

RemoveConfigRequest(s) ==
    config_req_queue' = SelectSeq(config_req_queue, LAMBDA r : r # s)

(* The wait ends with ETIMEDOUT.                                           *)
ConfigAcquireTimedOut(s) ==
    /\ req[s] = "expired"
    /\ RemoveConfigRequest(s)
    /\ req' = [req EXCEPT ![s] = "none"]
    /\ timeout' = [timeout EXCEPT ![s] = 0]
    /\ UNCHANGED <<lockVars, moduleVars, release, cleared>>

(* The wait ends with a signal: one more try, whose failure is final.      *)
ConfigAcquireWoken(s) ==
    /\ req[s] = "woken"
    /\ TcGetExclusion(s) \/ NoExclusion(s)
    /\ RemoveConfigRequest(s)
    /\ req' = [req EXCEPT ![s] = "none"]
    /\ timeout' = [timeout EXCEPT ![s] = 0]
    /\ UNCHANGED <<release, cleared>>

-----------------------------------------------------------------------------
(* Releases.                                                               *)

(* Dispatch of a release, from the answers of UPLL and UPPL on.  When one  *)
(* of them reports an error, RevokeOperation completes the release.        *)
ConfigDispatchEnd(s) ==
    LET released == /\ thread["client"][s].op = "TC_NOTIFY_RELEASE"
                    /\ NotifyMatches(thread["client"][s].config_id, s, "TC_NOTIFY_RELEASE")
    IN  /\ ConfigReleaseExclusion("client", s)
        /\ \/ release' = [release EXCEPT ![s] = IF released THEN "released" ELSE "none"]
           \/ NotifyFails /\ UNCHANGED release
        /\ UNCHANGED <<config_req_queue, req, timeout, cleared>>

GetConfigMap(s) ==
    /\ release[s] = "released"
    /\ MutexFree
    /\ release' = [release EXCEPT ![s] = IF tc_config_name_map = EmptyMap THEN "signal" ELSE "none"]
    /\ UNCHANGED <<lockVars, moduleVars, config_req_queue, req, timeout, cleared>>

Signal(S) == req' = [s \in Sessions |-> IF s \in S /\ req[s] = "waiting" THEN "woken" ELSE req[s]]

(* Mutants: the request that came last is signalled; none is.              *)
HandleConfigReleaseLast(s) ==
    /\ release[s] = "signal"
    /\ Signal(IF config_req_queue = <<>> THEN {}
              ELSE {config_req_queue[Len(config_req_queue)]})
    /\ release' = [release EXCEPT ![s] = "none"]
    /\ UNCHANGED <<lockVars, moduleVars, config_req_queue, timeout, cleared>>

HandleConfigReleaseNone(s) ==
    /\ release[s] = "signal"
    /\ release' = [release EXCEPT ![s] = "none"]
    /\ UNCHANGED <<lockVars, moduleVars, config_req_queue, req, timeout, cleared>>

HandleConfigRelease(s) ==
    /\ release[s] = "signal"
    /\ Signal(IF config_req_queue = <<>> THEN {} ELSE {Head(config_req_queue)})
    /\ release' = [release EXCEPT ![s] = "none"]
    /\ UNCHANGED <<lockVars, moduleVars, config_req_queue, timeout, cleared>>

(* Mutant: the queue is emptied and nobody is told.                        *)
ClearConfigAcquisitionQueueSilently ==
    /\ ev = "stopping" /\ ~cleared
    /\ config_req_queue' = <<>>
    /\ cleared' = TRUE
    /\ UNCHANGED <<lockVars, moduleVars, req, timeout, release>>

(* A step of HandleStop between the change of the state and the reset.     *)
ClearConfigAcquisitionQueue ==
    /\ ev = "stopping" /\ ~cleared
    /\ Signal({config_req_queue[i] : i \in DOMAIN config_req_queue})
    /\ config_req_queue' = <<>>
    /\ cleared' = TRUE
    /\ UNCHANGED <<lockVars, moduleVars, timeout, release>>

-----------------------------------------------------------------------------
QueueInit ==
    /\ Init
    /\ config_req_queue = <<>>
    /\ req = [s \in Sessions |-> "none"]
    /\ timeout = [s \in Sessions |-> 0]
    /\ release = [s \in Sessions |-> "none"]
    /\ cleared = FALSE

QueueStep(s) ==
    \/ ConfigAcquireNow(s)
    \/ FillTcMsgData(s) /\ UNCHANGED queueVars
    \/ ConfigAcquireTimedOut(s)
    \/ ConfigAcquireWoken(s)
    \/ GetExclusionForRelease("client", s) /\ UNCHANGED queueVars
    \/ ConfigDispatchEnd(s)
    \/ GetConfigMap(s)
    \/ HandleConfigRelease(s)

QueueHandle ==
    \/ HandleStart /\ UNCHANGED queueVars
    \/ HandleAct /\ UNCHANGED queueVars
    \/ HandleStop /\ (ev = "stopping" => cleared) /\ UNCHANGED queueVars
    \/ ClearConfigAcquisitionQueue

QueueNext ==
    \/ \E s \in Sessions :
         \/ IsConfigReqQueueEmpty(s)
         \/ ConfigAcquireForce(s)
         \/ \E t \in Timeouts : HandleTimedConfigAcquisition(s, t)
         \/ TimerExpiry(s)
         \/ Free(s) /\ ConfigRelease(s) /\ UNCHANGED queueVars
         \/ QueueStep(s)
    \/ Event /\ UNCHANGED queueVars
    \/ QueueHandle

allVars == <<vars, queueVars>>

(* Threads that can run do run; nothing is assumed of the clients.         *)
QueueSpec ==
    /\ QueueInit
    /\ [][QueueNext]_allVars
    /\ \A s \in Sessions : WF_allVars(QueueStep(s)) /\ WF_allVars(TimerExpiry(s))
    /\ WF_allVars(QueueHandle)

-----------------------------------------------------------------------------
(* Properties.                                                             *)

InQueue == {config_req_queue[i] : i \in DOMAIN config_req_queue}

(* The queue is transparent to the lock manager and to the handlers: every *)
(* step is a step of module TcModule or leaves its variables alone.        *)
ImplementsTcModule == Spec

(* A request that waits is in the queue, where a release finds it, once;   *)
(* and the queue names only requests that have not returned: an entry is a *)
(* pointer into the stack of the thread that waits.                        *)
QueueHoldsWaiters ==
    /\ \A s \in Sessions : req[s] = "waiting" => s \in InQueue
    /\ \A s \in InQueue : req[s] \in {"waiting", "woken", "expired"}
    /\ \A i, j \in DOMAIN config_req_queue :
         config_req_queue[i] = config_req_queue[j] => i = j

(* Requests are served in the order they came: until the node stops, only  *)
(* the first request of the queue is ever woken.                           *)
FirstWaiterIsWoken ==
    current_state # "TC_STOP" =>
        \A s \in Sessions : req[s] = "woken" => config_req_queue # <<>> /\ Head(config_req_queue) = s

(* HandleStop: "Release any config or candidate requests waiting in        *)
(* queue".                                                                 *)
StopReleasesWaiters ==
    \A s \in Sessions : current_state = "TC_STOP" /\ req[s] = "waiting" ~> req[s] # "waiting"

Available ==
    /\ current_state = "TC_ACT" /\ ~state_transition_in_progress
    /\ tc_config_name_map = EmptyMap

(* HandleTimedConfigAcquisition: "Wait infinitely for                      *)
(* config-mode-availability", "Timer expiry or config-release triggers     *)
(* cond_signal".  A request does not go on waiting while the mode stays    *)
(* available.                                                              *)
WaitersAreServed ==
    \A s \in Sessions :
        req[s] = "waiting" /\ Available ~> req[s] # "waiting" \/ ~Available
====
