---------------------------- MODULE TcLockProofs ----------------------------
(***************************************************************************)
(* The safety properties of module TcLock, proved for every set of         *)
(* sessions and configuration names and every uint32_t range.              *)
(***************************************************************************)
EXTENDS TcLock, FiniteSetTheorems, TLAPS

(* The inductive invariant: no conjunct is inductive without the others.   *)
LockInv ==
    /\ LockTypeOK
    /\ RwOwnerCountsHolders
    /\ GlobalModeExcludesOthers
    /\ EntriesAreAnnounced
    /\ CandidateWriterKeepsConfig
    /\ IdleUnlessActive
    /\ SetupOnlyWhenActive

(* FindConfigName returns an entry of the session whenever it has one.     *)
LEMMA FindConfigNameFinds ==
    ASSUME NEW s, HasConfig(s)
    PROVE  FindConfigName(s) \in NamesOf(s)
<1>1. NamesOf(s) \in SUBSET ConfigNames
  BY DEF NamesOf
<1>2. \E n \in NamesOf(s) : \A m \in NamesOf(s) : Rank[n] <= Rank[m]
  BY <1>1, RankAssumption DEF HasConfig
<1> QED
  BY <1>2 DEF FindConfigName

(* The number of read sessions is a natural number below UINT32_MAX - 1.   *)
LEMMA ReadersBound ==
    ASSUME LockTypeOK
    PROVE  /\ IsFiniteSet(read_sessions)
           /\ Cardinality(read_sessions) \in Nat
           /\ Cardinality(read_sessions) + 1 < UINT32_MAX
           /\ Cardinality(Sessions) \in Nat
<1>1. read_sessions \subseteq Sessions
  BY DEF LockTypeOK
<1>2. /\ IsFiniteSet(read_sessions)
      /\ Cardinality(read_sessions) <= Cardinality(Sessions)
  BY <1>1, SessionAssumption, FS_Subset
<1>3. Cardinality(read_sessions) \in Nat /\ Cardinality(Sessions) \in Nat
  BY <1>2, SessionAssumption, FS_CardinalityType
<1> QED
  BY <1>2, <1>3, UINT32Assumption

(* The empty map is a map.                                                 *)
LEMMA EmptyMapType ==
    /\ NoEntry \in TcConfigLock
    /\ EmptyMap \in [ConfigNames -> TcConfigLock]
    /\ \A n \in ConfigNames : EmptyMap[n] = NoEntry
<1>1. NoEntry \in TcConfigLock
  BY UINT32Assumption DEF NoEntry, TcConfigLock
<1> QED
  BY <1>1 DEF EmptyMap

(* The initial state satisfies the invariant.                              *)
LEMMA InitInv == LockInit => LockInv
<1> SUFFICES ASSUME LockInit PROVE LockInv
  OBVIOUS
<1> USE SessionAssumption, NameAssumption, UINT32Assumption DEF LockInit
<1>1. LockTypeOK
  <2>1. prev_config_id \in 0..UINT32_MAX /\ rw_owner \in 0..UINT32_MAX
    OBVIOUS
  <2>2. tc_config_name_map \in [ConfigNames -> TcConfigLock]
    BY EmptyMapType
  <2> QED
    BY <2>1, <2>2, Zenon DEF LockTypeOK, TcStates
<1>2. RwOwnerCountsHolders
  <2>1. Cardinality({}) = 0
    BY FS_EmptySet
  <2>2. Cardinality(Sessions) \in Nat
    BY FS_CardinalityType
  <2> QED
    BY <2>1, <2>2 DEF RwOwnerCountsHolders, isWriteHeld, RW_OWNER_WRLOCKED, Readers
<1>3. \A n \in ConfigNames : ~Present(n)
  BY DEF Present, EmptyMap
<1>4. GlobalModeExcludesOthers /\ EntriesAreAnnounced
  BY <1>3 DEF GlobalModeExcludesOthers, EntriesAreAnnounced
<1>5. ~isWriteHeld
  <2>1. Cardinality(Sessions) \in Nat
    BY FS_CardinalityType
  <2> QED
    BY <2>1 DEF isWriteHeld, RW_OWNER_WRLOCKED
<1>6. CandidateWriterKeepsConfig /\ IdleUnlessActive /\ SetupOnlyWhenActive
  BY <1>5 DEF CandidateWriterKeepsConfig, IdleUnlessActive, SetupOnlyWhenActive
<1> QED
  BY <1>1, <1>2, <1>4, <1>6 DEF LockInv
-----------------------------------------------------------------------------
(* Configuration sessions: each method replaces one entry of the map, or   *)
(* the whole map (ForceAcquireConfigLock).                                 *)

OthersUnchanged ==
    UNCHANGED <<rwVars, is_enable, stateVars, setup_complete_done, audit_asleep>>

(* An entry that lets a candidate operation of session s go on.            *)
Serves(e, s) == e.session_id = s /\ e.is_taken /\ ~e.is_notify_pending

(* Replacing one entry keeps the invariant when the new entry is           *)
(* consistent or erased, respects the global mode, and does not end the    *)
(* session of a running candidate operation.                               *)
LEMMA ReplaceEntry ==
    ASSUME LockInv, OthersUnchanged,
           NEW n \in ConfigNames, NEW e \in TcConfigLock,
           tc_config_name_map' = [tc_config_name_map EXCEPT ![n] = e],
           prev_config_id' \in 0..UINT32_MAX,
           e # NoEntry => ConsistentEntry(e),
           e # NoEntry => Present(n) \/ IF n = GlobalMode
                                          THEN tc_config_name_map = EmptyMap
                                          ELSE ~Present(GlobalMode),
           current_state \in {"TC_ACT", "TC_STOP"}, ~state_transition_in_progress,
           isWriteHeld /\ w_operation \in CandidateOps
               /\ Serves(tc_config_name_map[n], w_session_id) => Serves(e, w_session_id)
    PROVE  LockInv'
<1> USE DEF LockInv, OthersUnchanged, rwVars, stateVars
<1>1. LockTypeOK'
  BY DEF LockTypeOK
<1>2. RwOwnerCountsHolders'
  BY DEF RwOwnerCountsHolders, isWriteHeld, Readers
<1>3. /\ tc_config_name_map'[n] = e
      /\ \A m \in ConfigNames : m # n => tc_config_name_map'[m] = tc_config_name_map[m]
  BY DEF LockTypeOK
<1>4. GlobalModeExcludesOthers'
  BY <1>3, NameAssumption, EmptyMapType DEF GlobalModeExcludesOthers, Present
<1>5. EntriesAreAnnounced'
  <2> SUFFICES ASSUME NEW m \in ConfigNames, Present(m)'
               PROVE  ConsistentEntry(tc_config_name_map[m])'
    BY DEF EntriesAreAnnounced
  <2>1. CASE m = n
    BY <1>3, <2>1 DEF Present, ConsistentEntry
  <2>2. CASE m # n
    BY <1>3, <2>2 DEF Present, EntriesAreAnnounced, ConsistentEntry
  <2> QED
    BY <2>1, <2>2
<1>6. CandidateWriterKeepsConfig'
  <2> SUFFICES ASSUME isWriteHeld, w_operation \in CandidateOps
               PROVE  \E m \in NamesOf(w_session_id)' : Serves(tc_config_name_map'[m], w_session_id)
    BY DEF CandidateWriterKeepsConfig, isWriteHeld, RW_OWNER_WRLOCKED, Serves
  <2>1. PICK m \in NamesOf(w_session_id) : Serves(tc_config_name_map[m], w_session_id)
    BY DEF CandidateWriterKeepsConfig, NamesOf, Serves
  <2>2. Serves(tc_config_name_map'[m], w_session_id)
    BY <1>3, <2>1 DEF NamesOf
  <2>3. tc_config_name_map'[m] # NoEntry
    BY <2>2 DEF Serves, NoEntry
  <2>4. m \in NamesOf(w_session_id)'
    BY <2>1, <2>2, <2>3 DEF NamesOf, Present, Serves
  <2> QED
    BY <2>2, <2>4
<1>7. IdleUnlessActive'
  BY DEF IdleUnlessActive
<1>8. SetupOnlyWhenActive'
  BY DEF SetupOnlyWhenActive
<1> QED
  BY <1>1, <1>2, <1>4, <1>5, <1>6, <1>7, <1>8

(* GetConfigId never returns 0.                                            *)
LEMMA GetConfigIdType ==
    ASSUME LockTypeOK
    PROVE  GetConfigId \in 0..UINT32_MAX /\ GetConfigId # 0
BY ReadersBound, UINT32Assumption DEF LockTypeOK, GetConfigId

(* A session that has an entry works on an active node, outside a          *)
(* transition, and FindConfigName names a consistent entry of its own.     *)
LEMMA OwnEntry ==
    ASSUME LockInv, NEW s \in Sessions, HasConfig(s)
    PROVE  /\ FindConfigName(s) \in ConfigNames
           /\ Present(FindConfigName(s))
           /\ tc_config_name_map[FindConfigName(s)] \in TcConfigLock
           /\ ConsistentEntry(tc_config_name_map[FindConfigName(s)])
           /\ tc_config_name_map[FindConfigName(s)].session_id = s
           /\ current_state \in {"TC_ACT", "TC_STOP"}
           /\ ~state_transition_in_progress
<1> DEFINE n == FindConfigName(s)
<1>1. n \in ConfigNames /\ Present(n) /\ tc_config_name_map[n].session_id = s
  BY FindConfigNameFinds DEF NamesOf
<1>2. tc_config_name_map[n] \in TcConfigLock /\ ConsistentEntry(tc_config_name_map[n])
  BY <1>1 DEF LockInv, LockTypeOK, EntriesAreAnnounced
<1>3. tc_config_name_map # EmptyMap
  BY <1>1, EmptyMapType DEF Present
<1>4. current_state \in {"TC_ACT", "TC_STOP"} /\ ~state_transition_in_progress
  BY <1>3 DEF LockInv, IdleUnlessActive
<1> QED
  BY <1>1, <1>2, <1>4

(* What an entry becomes when it is handed to session s.                   *)
Acquired(e, s) ==
    [e EXCEPT !.session_id = s, !.config_id = GetConfigId, !.is_taken = TRUE,
              !.is_notify_pending = TRUE, !.notify_operation = "TC_NOTIFY_ACQUIRE"]

(* A fresh entry handed to a session is consistent.                        *)
LEMMA AcquiredEntry ==
    ASSUME LockTypeOK, NEW s \in Sessions
    PROVE  /\ Acquired(NoEntry, s) \in TcConfigLock
           /\ ConsistentEntry(Acquired(NoEntry, s))
           /\ Acquired(NoEntry, s) # NoEntry
BY GetConfigIdType, SessionAssumption
   DEF Acquired, NoEntry, TcConfigLock, ConsistentEntry

(* AcquireConfigLock fills an entry the map lacks, and respects the        *)
(* global mode.                                                            *)
LEMMA AcquireConfigLockInv ==
    ASSUME LockInv, NEW s \in Sessions, NEW n \in ConfigNames, AcquireConfigLock(s, n)
    PROVE  LockInv'
<1> DEFINE e == Acquired(NoEntry, s)
<1>1. LockTypeOK
  BY DEF LockInv
<1>2. tc_config_name_map[n] = NoEntry
  <2>1. CASE n = GlobalMode
    BY <2>1, EmptyMapType DEF AcquireConfigLock, CanAcquireConfig
  <2>2. CASE n # GlobalMode
    <3>1. ~tc_config_name_map[n].is_taken /\ ~tc_config_name_map[n].is_notify_pending
      BY <2>2 DEF AcquireConfigLock, CanAcquireConfig, Busy
    <3> QED
      BY <3>1 DEF LockInv, EntriesAreAnnounced, ConsistentEntry, Present
  <2> QED
    BY <2>1, <2>2
<1>3. n # GlobalMode => ~Present(GlobalMode)
  <2> SUFFICES ASSUME n # GlobalMode, Present(GlobalMode) PROVE FALSE
    OBVIOUS
  <2>1. /\ ~tc_config_name_map[GlobalMode].is_taken
        /\ ~tc_config_name_map[GlobalMode].is_notify_pending
    BY DEF AcquireConfigLock, CanAcquireConfig, Busy
  <2> QED
    BY <2>1, NameAssumption DEF LockInv, EntriesAreAnnounced, ConsistentEntry
<1>4. /\ tc_config_name_map' = [tc_config_name_map EXCEPT ![n] = e]
      /\ prev_config_id' = GetConfigId
  BY <1>1, <1>2 DEF AcquireConfigLock, CanAcquireConfig, UpdateConfigData, Acquired, LockTypeOK
<1>5. current_state = "TC_ACT" /\ ~state_transition_in_progress
  BY DEF AcquireConfigLock, CanAcquireConfig, TcOperationIsAllowed
<1>6. ~Serves(tc_config_name_map[n], w_session_id)
  BY <1>2 DEF Serves, NoEntry
<1>7. e \in TcConfigLock /\ ConsistentEntry(e) /\ prev_config_id' \in 0..UINT32_MAX
  BY <1>1, <1>4, AcquiredEntry, GetConfigIdType
<1>8. n = GlobalMode => tc_config_name_map = EmptyMap
  BY DEF AcquireConfigLock, CanAcquireConfig
<1>9. OthersUnchanged
  BY DEF AcquireConfigLock, CanAcquireConfig, OthersUnchanged
<1> HIDE DEF e
<1> QED
  BY <1>3, <1>4, <1>5, <1>6, <1>7, <1>8, <1>9, ReplaceEntry

(* ReleaseConfigLock refuses while its session commits or aborts.          *)
LEMMA ReleaseConfigLockInv ==
    ASSUME LockInv, NEW s \in Sessions, NEW id, ReleaseConfigLock(s, id)
    PROVE  LockInv'
<1> DEFINE n == FindConfigName(s)
           e == [tc_config_name_map[n] EXCEPT !.is_notify_pending = TRUE,
                                              !.is_taken = FALSE,
                                              !.notify_operation = "TC_NOTIFY_RELEASE"]
<1>1. /\ n \in ConfigNames /\ Present(n)
      /\ tc_config_name_map[n] \in TcConfigLock
      /\ ConsistentEntry(tc_config_name_map[n])
      /\ tc_config_name_map[n].session_id = s
      /\ current_state \in {"TC_ACT", "TC_STOP"} /\ ~state_transition_in_progress
  BY OwnEntry DEF ReleaseConfigLock, CanReleaseConfig
<1>2. tc_config_name_map' = [tc_config_name_map EXCEPT ![n] = e]
  BY <1>1 DEF ReleaseConfigLock, CanReleaseConfig, LockInv, LockTypeOK
<1>3. e \in TcConfigLock /\ ConsistentEntry(e)
  BY <1>1 DEF TcConfigLock, ConsistentEntry
<1>4. ~(w_operation \in CandidateOps /\ isWriteHeld /\ w_session_id = s)
  BY DEF ReleaseConfigLock, CanReleaseConfig, isWriteHeldBy
<1>5. OthersUnchanged /\ prev_config_id' \in 0..UINT32_MAX
  BY DEF ReleaseConfigLock, CanReleaseConfig, OthersUnchanged, LockInv, LockTypeOK
<1>6. isWriteHeld /\ w_operation \in CandidateOps
          => ~Serves(tc_config_name_map[n], w_session_id)
  BY <1>1, <1>4 DEF Serves
<1> HIDE DEF n, e
<1> QED
  BY <1>1, <1>2, <1>3, <1>5, <1>6, ReplaceEntry

(* NotifyConfigIdSessionIdDone ends the announcement of an entry, or       *)
(* erases the entry of a session that is being released.                   *)
LEMMA NotifyInv ==
    ASSUME LockInv, NEW s \in Sessions, NEW id,
           NEW notify \in {"TC_NOTIFY_ACQUIRE", "TC_NOTIFY_RELEASE"},
           NotifyConfigIdSessionIdDone(id, s, notify)
    PROVE  LockInv'
<1> DEFINE n == FindConfigName(s)
           old == tc_config_name_map[n]
           e == IF notify = "TC_NOTIFY_RELEASE"
                  THEN NoEntry
                  ELSE [old EXCEPT !.notify_operation = "TC_NOTIFY_NONE",
                                   !.is_notify_pending = FALSE]
<1>1. /\ n \in ConfigNames /\ Present(n)
      /\ old \in TcConfigLock
      /\ ConsistentEntry(old)
      /\ current_state \in {"TC_ACT", "TC_STOP"} /\ ~state_transition_in_progress
  BY OwnEntry DEF NotifyConfigIdSessionIdDone, NotifyMatches
<1>2. tc_config_name_map' = [tc_config_name_map EXCEPT ![n] = e]
  BY <1>1 DEF NotifyConfigIdSessionIdDone, NotifyMatches, LockInv, LockTypeOK
<1>3. old.notify_operation = notify
  BY DEF NotifyConfigIdSessionIdDone, NotifyMatches
<1>4. e \in TcConfigLock
  BY <1>1, EmptyMapType DEF TcConfigLock
<1>5. e # NoEntry => ConsistentEntry(e)
  BY <1>1, <1>3 DEF TcConfigLock, ConsistentEntry
<1>6. ~Serves(old, w_session_id)
  BY <1>1, <1>3 DEF Serves, ConsistentEntry
<1>7. OthersUnchanged /\ prev_config_id' \in 0..UINT32_MAX
  BY DEF NotifyConfigIdSessionIdDone, NotifyMatches, OthersUnchanged, LockInv, LockTypeOK
<1> HIDE DEF n, e
<1> QED
  BY <1>1, <1>2, <1>4, <1>5, <1>6, <1>7, ReplaceEntry

(* TcMarkSessionId leaves the entry as usable as it was.                   *)
LEMMA MarkInv ==
    ASSUME LockInv, NEW s \in Sessions, TcMarkSessionId(s)
    PROVE  LockInv'
<1> DEFINE n == FindConfigName(s)
           old == tc_config_name_map[n]
           e == [old EXCEPT !.marked_session_id = s]
<1>1. /\ n \in ConfigNames /\ Present(n)
      /\ old \in TcConfigLock
      /\ ConsistentEntry(old)
      /\ old.session_id = s
      /\ current_state \in {"TC_ACT", "TC_STOP"} /\ ~state_transition_in_progress
  BY OwnEntry DEF TcMarkSessionId, CanMark
<1>2. tc_config_name_map' = [tc_config_name_map EXCEPT ![n] = e]
  BY <1>1 DEF TcMarkSessionId, CanMark, LockInv, LockTypeOK
<1>3. e \in TcConfigLock /\ ConsistentEntry(e)
  BY <1>1 DEF TcConfigLock, ConsistentEntry
<1>4. Serves(old, w_session_id) => Serves(e, w_session_id)
  BY <1>1 DEF Serves, TcConfigLock
<1>5. OthersUnchanged /\ prev_config_id' \in 0..UINT32_MAX
  BY DEF TcMarkSessionId, CanMark, OthersUnchanged, LockInv, LockTypeOK
<1> HIDE DEF n, e
<1> QED
  BY <1>1, <1>2, <1>3, <1>4, <1>5, ReplaceEntry

(* ForceAcquireConfigLock discards every entry, but only while no commit   *)
(* or abort relies on one.                                                 *)
LEMMA ForceAcquireInv ==
    ASSUME LockInv, NEW s \in Sessions, ForceAcquireConfigLock(s)
    PROVE  LockInv'
<1> DEFINE e == Acquired(NoEntry, s)
<1> USE DEF ForceAcquireConfigLock, rwVars, stateVars
<1>1. LockTypeOK
  BY DEF LockInv
<1>2. e \in TcConfigLock /\ ConsistentEntry(e)
  BY <1>1, AcquiredEntry
<1>3. tc_config_name_map' = [EmptyMap EXCEPT ![GlobalMode] = e]
  BY EmptyMapType, NameAssumption DEF UpdateConfigData, Acquired
<1>4. /\ tc_config_name_map'[GlobalMode] = e
      /\ \A m \in ConfigNames : m # GlobalMode => tc_config_name_map'[m] = NoEntry
  BY <1>3, EmptyMapType, NameAssumption
<1>5. LockTypeOK'
  <2>1. tc_config_name_map' \in [ConfigNames -> TcConfigLock]
    BY <1>2, <1>3, EmptyMapType
  <2>2. prev_config_id' \in 0..UINT32_MAX
    BY <1>1, GetConfigIdType DEF UpdateConfigData
  <2> QED
    BY <1>1, <2>1, <2>2 DEF LockTypeOK
<1>6. RwOwnerCountsHolders'
  BY DEF LockInv, RwOwnerCountsHolders, isWriteHeld, Readers
<1>7. GlobalModeExcludesOthers' /\ EntriesAreAnnounced'
  BY <1>2, <1>4 DEF GlobalModeExcludesOthers, EntriesAreAnnounced, Present, ConsistentEntry
<1>8. ~(isWriteHeld /\ w_operation \in CandidateOps)
  BY DEF LockInv, CandidateWriterKeepsConfig, NamesOf
<1>9. CandidateWriterKeepsConfig'
  BY <1>8 DEF CandidateWriterKeepsConfig, isWriteHeld, RW_OWNER_WRLOCKED
<1>10. IdleUnlessActive' /\ SetupOnlyWhenActive'
  BY DEF LockInv, IdleUnlessActive, SetupOnlyWhenActive, TcOperationIsAllowed
<1> QED
  BY <1>5, <1>6, <1>7, <1>9, <1>10 DEF LockInv

(* Every operation on configuration sessions preserves the invariant.      *)
LEMMA ConfigNextInv == LockInv /\ ConfigNext => LockInv'
BY AcquireConfigLockInv, ForceAcquireInv, ReleaseConfigLockInv, NotifyInv, MarkInv
   DEF ConfigNext

-----------------------------------------------------------------------------
(* The reader/writer lock and autosave: the map stays as it is.            *)

(* The conjuncts about the map alone depend on nothing else.               *)
LEMMA ConfigFrame ==
    ASSUME LockInv, UNCHANGED configVars
    PROVE  GlobalModeExcludesOthers' /\ EntriesAreAnnounced'
BY DEF LockInv, configVars, GlobalModeExcludesOthers, EntriesAreAnnounced, Present

(* TC_WRITE_NONE is not an operation that takes the write lock.            *)
LEMMA WriteOpsNotNone == "TC_WRITE_NONE" \notin WriteOps
BY WriteOpsAssumption DEF CandidateOps, StartupOps

(* Taking the write lock: rw_owner is 0, so there is neither a reader nor  *)
(* a transition, and a candidate operation holds its configuration.        *)
LEMMA WriteLockInv ==
    ASSUME LockInv, NEW s \in Sessions \cup {NoSession}, NEW op \in WriteOps,
           WriteLock(s, op), s = NoSession <=> op = "TC_AUDIT_DRIVER",
           UNCHANGED <<configVars, stateVars, setup_complete_done>>,
           is_enable' \in BOOLEAN, audit_asleep' = FALSE,
           current_state = "TC_ACT",
           op \in CandidateOps => HoldsConfig(s)
    PROVE  LockInv'
<1> USE DEF WriteLock, stateVars, configVars
<1>1. LockTypeOK /\ Cardinality(read_sessions) \in Nat /\ UINT32_MAX \in Nat \ {0}
  BY ReadersBound, UINT32Assumption DEF LockInv
<1>2. rw_owner = Readers
  BY <1>1 DEF LockInv, RwOwnerCountsHolders, isWriteHeld, RW_OWNER_WRLOCKED, canWriteLock
<1>3. Cardinality(read_sessions) = 0 /\ ~state_transition_in_progress
  BY <1>1, <1>2 DEF Readers, canWriteLock, LockTypeOK
<1>4. read_sessions = {}
  BY <1>3, ReadersBound, FS_EmptySet DEF LockInv
<1>5. LockTypeOK'
  <2>1. rw_owner' \in 0..UINT32_MAX
    BY <1>1 DEF RW_OWNER_WRLOCKED
  <2> QED
    BY <1>1, <2>1, Zenon DEF LockTypeOK
<1>6. RwOwnerCountsHolders'
  <2>1. isWriteHeld' /\ op # "TC_WRITE_NONE"
    BY WriteOpsNotNone DEF isWriteHeld, RW_OWNER_WRLOCKED
  <2> QED
    BY <1>3, <1>4, <2>1 DEF RwOwnerCountsHolders
<1>7. CandidateWriterKeepsConfig'
  <2> SUFFICES ASSUME op \in CandidateOps
               PROVE  CandidateWriterKeepsConfig'
    BY DEF CandidateWriterKeepsConfig
  <2>1. FindConfigName(s) \in NamesOf(s)
    BY FindConfigNameFinds DEF HoldsConfig
  <2>2. NamesOf(s)' = NamesOf(s)
    BY DEF NamesOf, Present
  <2> QED
    BY <2>1, <2>2 DEF CandidateWriterKeepsConfig, HoldsConfig, NamesOf, Present
<1>8. IdleUnlessActive' /\ SetupOnlyWhenActive'
  BY <1>3 DEF IdleUnlessActive, SetupOnlyWhenActive
<1> QED
  BY <1>5, <1>6, <1>7, <1>8, ConfigFrame DEF LockInv

(* Giving the write lock up leaves no holder at all.                       *)
LEMMA WriteUnlockInv ==
    ASSUME LockInv, NEW s, NEW op \in WriteOps, WriteUnlock(s, op),
           UNCHANGED <<configVars, stateVars, setup_complete_done, audit_asleep>>,
           is_enable' \in BOOLEAN
    PROVE  LockInv'
<1> USE DEF WriteUnlock, WriteHeldFor, stateVars, configVars, isWriteHeldBy
<1>1. LockTypeOK /\ UINT32_MAX \in Nat \ {0}
  BY ReadersBound, UINT32Assumption DEF LockInv
<1>2. read_sessions = {} /\ ~state_transition_in_progress
  BY DEF LockInv, RwOwnerCountsHolders
<1>3. LockTypeOK'
  BY <1>1 DEF LockTypeOK
<1>4. ~isWriteHeld'
  BY <1>1 DEF isWriteHeld, RW_OWNER_WRLOCKED
<1>5. RwOwnerCountsHolders'
  BY <1>2, <1>4, FS_EmptySet DEF RwOwnerCountsHolders, Readers
<1>6. CandidateWriterKeepsConfig'
  BY <1>4 DEF CandidateWriterKeepsConfig
<1>7. IdleUnlessActive' /\ SetupOnlyWhenActive'
  BY <1>4 DEF LockInv, IdleUnlessActive, SetupOnlyWhenActive
<1> QED
  BY <1>3, <1>5, <1>6, <1>7, ConfigFrame DEF LockInv

(* A step that changes neither the holders of the locks nor the state.     *)
LEMMA FlagInv ==
    ASSUME LockInv, UNCHANGED <<configVars, rwVars, stateVars, setup_complete_done>>,
           is_enable' \in BOOLEAN,
           audit_asleep' \in BOOLEAN,
           audit_asleep' => current_state = "TC_ACT"
    PROVE  LockInv'
<1> USE DEF rwVars, stateVars, configVars
<1>1. LockTypeOK'
  BY DEF LockInv, LockTypeOK
<1>2. RwOwnerCountsHolders'
  BY DEF LockInv, RwOwnerCountsHolders, isWriteHeld, Readers
<1>3. CandidateWriterKeepsConfig'
  BY DEF LockInv, CandidateWriterKeepsConfig, isWriteHeld, NamesOf, Present, RW_OWNER_WRLOCKED
<1>4. IdleUnlessActive' /\ SetupOnlyWhenActive'
  BY DEF LockInv, IdleUnlessActive, SetupOnlyWhenActive, isWriteHeld
<1> QED
  BY <1>1, <1>2, <1>3, <1>4, ConfigFrame DEF LockInv

(* Reading and changing state take and give up one share of rw_owner.      *)
LEMMA ReaderChangeInv ==
    ASSUME LockInv, LockTypeOK', RwOwnerCountsHolders', ~isWriteHeld, ~isWriteHeld',
           UNCHANGED <<configVars, current_state, setup_complete_done, audit_asleep>>,
           state_transition_in_progress' => state_transition_in_progress
               \/ current_state \in {"TC_INIT", "TC_SBY"}
    PROVE  LockInv'
<1>1. CandidateWriterKeepsConfig'
  BY DEF CandidateWriterKeepsConfig
<1>2. IdleUnlessActive' /\ SetupOnlyWhenActive'
  BY DEF LockInv, IdleUnlessActive, SetupOnlyWhenActive, configVars
<1> QED
  BY <1>1, <1>2, ConfigFrame DEF LockInv

(* While nobody writes, rw_owner is the number of readers, or one more on  *)
(* a stopped node: incrementing it does not reach RW_OWNER_WRLOCKED.       *)
LEMMA OwnerBound ==
    ASSUME LockInv, ~isWriteHeld
    PROVE  /\ Cardinality(read_sessions) \in Nat
           /\ IsFiniteSet(read_sessions)
           /\ Readers \in Nat
           /\ Readers < UINT32_MAX
           /\ rw_owner = Readers \/ (current_state = "TC_STOP" /\ rw_owner = Readers + 1)
           /\ UINT32_MAX \in Nat
           /\ rw_owner \in 0..UINT32_MAX /\ rw_owner # UINT32_MAX
<1>1. LockTypeOK
  BY DEF LockInv
<1>2. /\ Cardinality(read_sessions) \in Nat /\ IsFiniteSet(read_sessions)
      /\ Cardinality(read_sessions) + 1 < UINT32_MAX
      /\ UINT32_MAX \in Nat
  BY <1>1, ReadersBound, UINT32Assumption
<1>3. Readers \in Nat /\ Readers < UINT32_MAX
  BY <1>2 DEF Readers
<1>4. rw_owner = Readers \/ (current_state = "TC_STOP" /\ rw_owner = Readers + 1)
  BY DEF LockInv, RwOwnerCountsHolders
<1>5. rw_owner \in 0..UINT32_MAX /\ rw_owner # UINT32_MAX
  BY <1>1 DEF LockTypeOK, isWriteHeld, RW_OWNER_WRLOCKED
<1> QED
  BY <1>2, <1>3, <1>4, <1>5

(* AcquireReadLock adds one read session and one to rw_owner.              *)
LEMMA AcquireReadInv ==
    ASSUME LockInv, NEW s \in Sessions, AcquireReadLock(s)
    PROVE  LockInv'
<1> USE DEF AcquireReadLock, stateVars
<1>1. ~isWriteHeld
  BY DEF canReadLock, isWriteHeld
<1>2. current_state # "TC_STOP"
  BY DEF TcOperationIsAllowed
<1>3. Cardinality(read_sessions') = Cardinality(read_sessions) + 1
  BY <1>1, OwnerBound, FS_AddElement
<1>4. read_sessions' \subseteq Sessions
  BY DEF LockInv, LockTypeOK
<1>5. rw_owner' = rw_owner + 1 /\ rw_owner = Readers
  BY <1>1, <1>2, OwnerBound DEF Increment
<1>6. Cardinality(read_sessions') <= Cardinality(Sessions)
  BY <1>4, SessionAssumption, FS_Subset
<1>7. Cardinality(Sessions) \in Nat
  BY SessionAssumption, FS_CardinalityType
<1>8. rw_owner' \in Nat /\ rw_owner' < UINT32_MAX /\ rw_owner' = Readers'
  BY <1>1, <1>3, <1>5, <1>6, <1>7, OwnerBound, UINT32Assumption DEF Readers
<1>9. ~isWriteHeld'
  BY <1>8, UINT32Assumption DEF isWriteHeld, RW_OWNER_WRLOCKED
<1>10. LockTypeOK'
  <2>1. rw_owner' \in 0..UINT32_MAX
    BY <1>8, UINT32Assumption
  <2> QED
    BY <1>4, <2>1 DEF LockInv, LockTypeOK, configVars
<1>11. RwOwnerCountsHolders'
  BY <1>1, <1>8, <1>9 DEF LockInv, RwOwnerCountsHolders
<1> QED
  BY <1>1, <1>9, <1>10, <1>11, ReaderChangeInv

(* ReleaseReadLock never decrements a rw_owner of 0.                       *)
LEMMA ReleaseReadInv ==
    ASSUME LockInv, NEW s \in Sessions, ReleaseReadLock(s)
    PROVE  LockInv'
<1> USE DEF ReleaseReadLock, stateVars
<1>1. ~isWriteHeld
  BY DEF LockInv, RwOwnerCountsHolders
<1>2. Cardinality(read_sessions') = Cardinality(read_sessions) - 1
  BY <1>1, OwnerBound, FS_RemoveElement
<1>3. Cardinality(read_sessions') \in Nat
  BY <1>1, OwnerBound, FS_RemoveElement, FS_CardinalityType
<1>4. Readers' = Readers - 1 /\ Readers' \in Nat
  BY <1>1, <1>2, <1>3, OwnerBound DEF Readers
<1>5. rw_owner' = rw_owner - 1
  BY <1>1, <1>4, OwnerBound DEF Decrement
<1>6. ~isWriteHeld' /\ rw_owner' \in 0..UINT32_MAX
  BY <1>1, <1>4, <1>5, OwnerBound DEF isWriteHeld, RW_OWNER_WRLOCKED
<1>7. LockTypeOK'
  BY <1>6 DEF LockInv, LockTypeOK, configVars
<1>8. rw_owner' = Readers' \/ (current_state' = "TC_STOP" /\ rw_owner' = Readers' + 1)
  BY <1>1, <1>4, <1>5, OwnerBound
<1>9. RwOwnerCountsHolders'
  BY <1>1, <1>6, <1>8 DEF LockInv, RwOwnerCountsHolders
<1> QED
  BY <1>1, <1>6, <1>7, <1>9, ReaderChangeInv

(* Every read, write and autosave operation preserves the invariant.       *)
LEMMA ReadWriteNextInv == LockInv /\ ReadWriteNext => LockInv'
<1> SUFFICES ASSUME LockInv, ReadWriteNext PROVE LockInv'
  OBVIOUS
<1>1. PICK s \in Sessions :
        \/ AcquireReadLock(s)
        \/ ReleaseReadLock(s)
        \/ \E op \in WriteOps : AcquireWriteLock(s, op) \/ ReleaseWriteLock(s, op)
        \/ \E op \in StartupOps \cap WriteOps :
             AutoSaveWriteLock(s, op) \/ AutoSaveWriteUnlock(s, op)
        \/ AutoSaveEnable(s)
        \/ AutoSaveDisable
  BY DEF ReadWriteNext
<1>2. is_enable \in BOOLEAN /\ audit_asleep \in BOOLEAN
  BY DEF LockInv, LockTypeOK
<1>3. audit_asleep => current_state = "TC_ACT"
  BY DEF LockInv, SetupOnlyWhenActive
<1>4. CASE AcquireReadLock(s) \/ ReleaseReadLock(s)
  BY <1>4, AcquireReadInv, ReleaseReadInv
<1>5. ASSUME NEW op \in WriteOps, AcquireWriteLock(s, op)
      PROVE  LockInv'
  BY <1>2, <1>5, SessionAssumption, WriteLockInv
     DEF AcquireWriteLock, TcOperationIsAllowed, MutexFree
<1>6. ASSUME NEW op \in WriteOps, ReleaseWriteLock(s, op)
      PROVE  LockInv'
  BY <1>2, <1>6, WriteUnlockInv DEF ReleaseWriteLock
<1>7. ASSUME NEW op \in StartupOps \cap WriteOps, AutoSaveWriteLock(s, op)
      PROVE  LockInv'
  <2>1. op \notin CandidateOps /\ op # "TC_AUDIT_DRIVER"
    BY DEF StartupOps, CandidateOps
  <2>2. is_enable' \in BOOLEAN /\ audit_asleep' = FALSE
    BY <1>2, <1>7, Zenon DEF AutoSaveWriteLock, MutexFree
  <2> QED
    BY <1>7, <2>1, <2>2, SessionAssumption, WriteLockInv
       DEF AutoSaveWriteLock, TcOperationIsAllowed
<1>8. ASSUME NEW op \in StartupOps \cap WriteOps, AutoSaveWriteUnlock(s, op)
      PROVE  LockInv'
  <2>1. is_enable' \in BOOLEAN
    BY <1>8, Zenon DEF AutoSaveWriteUnlock
  <2> QED
    BY <1>8, <2>1, WriteUnlockInv DEF AutoSaveWriteUnlock
<1>9. CASE AutoSaveEnable(s) \/ AutoSaveDisable
  <2>1. is_enable' \in BOOLEAN
    BY <1>9, Zenon DEF AutoSaveEnable, AutoSaveDisable
  <2> QED
    BY <1>2, <1>3, <1>9, <2>1, FlagInv DEF AutoSaveEnable, AutoSaveDisable
<1> QED
  BY <1>1, <1>4, <1>5, <1>6, <1>7, <1>8, <1>9

(* A driver audit, which runs without a session, preserves the invariant.  *)
LEMMA DriverAuditNextInv == LockInv /\ DriverAuditNext => LockInv'
<1> SUFFICES ASSUME LockInv, DriverAuditNext PROVE LockInv'
  OBVIOUS
<1>1. /\ "TC_AUDIT_DRIVER" \in WriteOps
      /\ is_enable \in BOOLEAN
      /\ audit_asleep => current_state = "TC_ACT"
  BY DEF DriverAuditNext, LockInv, LockTypeOK, SetupOnlyWhenActive
<1>2. CASE AuditDriverSleep
  BY <1>1, <1>2, FlagInv DEF AuditDriverSleep, TcOperationIsAllowed
<1>3. CASE AcquireWriteLockForAuditDriver
  <2>1. current_state = "TC_ACT"
    BY <1>1, <1>3 DEF AcquireWriteLockForAuditDriver, TcOperationIsAllowed
  <2>2. CASE canWriteLock
    BY <1>1, <1>3, <2>1, <2>2, WriteLockInv
       DEF AcquireWriteLockForAuditDriver, CandidateOps
  <2>3. CASE ~canWriteLock
    <3>1. UNCHANGED rwVars /\ audit_asleep' = FALSE
      BY <1>3, <2>3 DEF AcquireWriteLockForAuditDriver
    <3> QED
      BY <1>1, <1>3, <3>1, FlagInv DEF AcquireWriteLockForAuditDriver
  <2> QED
    BY <2>2, <2>3
<1>4. CASE ReleaseWriteLock(NoSession, "TC_AUDIT_DRIVER")
  BY <1>1, <1>4, WriteUnlockInv DEF ReleaseWriteLock
<1> QED
  BY <1>2, <1>3, <1>4 DEF DriverAuditNext

-----------------------------------------------------------------------------
(* State changes.                                                          *)

(* The transition lock is one more share of rw_owner.                      *)
LEMMA AcquireTransitionInv ==
    ASSUME LockInv, current_state \in {"TC_INIT", "TC_SBY"},
           TcAcquireReadLockForStateTransition
    PROVE  LockInv'
<1> USE DEF TcAcquireReadLockForStateTransition
<1>1. ~isWriteHeld
  BY DEF canReadLock, isWriteHeld
<1>2. rw_owner = Readers /\ rw_owner' = rw_owner + 1 /\ Readers' = Readers + 1
  BY <1>1, OwnerBound DEF Increment, Readers
<1>3. Cardinality(read_sessions) + 1 < UINT32_MAX /\ Readers = Cardinality(read_sessions)
  BY <1>1, OwnerBound, ReadersBound DEF LockInv, Readers
<1>4. rw_owner' \in 0..UINT32_MAX /\ ~isWriteHeld'
  BY <1>1, <1>2, <1>3, OwnerBound DEF isWriteHeld, RW_OWNER_WRLOCKED
<1>5. LockTypeOK'
  BY <1>4 DEF LockInv, LockTypeOK, configVars
<1>6. RwOwnerCountsHolders'
  BY <1>1, <1>2, <1>4 DEF LockInv, RwOwnerCountsHolders
<1> QED
  BY <1>1, <1>4, <1>5, <1>6, ReaderChangeInv

(* Releasing it never decrements a rw_owner of 0.                          *)
LEMMA ReleaseTransitionInv ==
    ASSUME LockInv, TcReleaseReadLockForStateTransition
    PROVE  LockInv'
<1> USE DEF TcReleaseReadLockForStateTransition
<1>1. ~isWriteHeld
  BY DEF LockInv, RwOwnerCountsHolders
<1>2. Readers' = Readers - 1 /\ Readers' \in Nat
  BY <1>1, OwnerBound DEF Readers
<1>3. rw_owner' = rw_owner - 1
  BY <1>1, <1>2, OwnerBound DEF Decrement
<1>4. rw_owner' \in 0..UINT32_MAX /\ ~isWriteHeld'
  BY <1>1, <1>2, <1>3, OwnerBound DEF isWriteHeld, RW_OWNER_WRLOCKED
<1>5. LockTypeOK'
  BY <1>4 DEF LockInv, LockTypeOK, configVars
<1>6. rw_owner' = Readers' \/ (current_state' = "TC_STOP" /\ rw_owner' = Readers' + 1)
  BY <1>1, <1>2, <1>3, OwnerBound
<1>7. RwOwnerCountsHolders'
  BY <1>1, <1>4, <1>6 DEF LockInv, RwOwnerCountsHolders
<1> QED
  BY <1>1, <1>4, <1>5, <1>7, ReaderChangeInv

(* The state moves, and an idle node stays idle.                           *)
LEMMA UpdateStateInv ==
    ASSUME LockInv, NEW new \in TcStates, TcUpdateUncState(new),
           \/ new = "TC_STOP"
           \/ state_transition_in_progress /\ current_state = "TC_INIT" /\ new = "TC_SBY"
           \/ state_transition_in_progress /\ current_state = "TC_SBY"
                /\ new \in {"TC_ACT", "TC_ACT_FAIL"}
    PROVE  LockInv'
<1> USE DEF TcUpdateUncState, rwVars
<1>1. LockTypeOK'
  BY DEF LockInv, LockTypeOK, configVars, TcStates
<1>2. RwOwnerCountsHolders'
  BY DEF LockInv, RwOwnerCountsHolders, isWriteHeld, Readers
<1>3. CandidateWriterKeepsConfig'
  BY DEF LockInv, CandidateWriterKeepsConfig, isWriteHeld, NamesOf, Present,
         RW_OWNER_WRLOCKED, configVars
<1>4. IdleUnlessActive'
  BY DEF LockInv, IdleUnlessActive, isWriteHeld, configVars
<1>5. SetupOnlyWhenActive'
  BY DEF LockInv, SetupOnlyWhenActive, MutexFree
<1> QED
  BY <1>1, <1>2, <1>3, <1>4, <1>5, ConfigFrame DEF LockInv

(* A reset leaves the transition lock, or one reader that is nobody on a   *)
(* stopped node.                                                           *)
LEMMA ResetInv ==
    ASSUME LockInv, ResetTcGlobalDataOnStateTransition,
           current_state = "TC_STOP" \/ state_transition_in_progress
    PROVE  LockInv'
<1> USE DEF ResetTcGlobalDataOnStateTransition, stateVars
<1>1. UINT32_MAX \in Nat /\ 1 < UINT32_MAX
  BY ReadersBound, UINT32Assumption DEF LockInv
<1>2. ~isWriteHeld' /\ rw_owner' \in 0..UINT32_MAX
  BY <1>1 DEF isWriteHeld, RW_OWNER_WRLOCKED
<1>3. tc_config_name_map' \in [ConfigNames -> TcConfigLock]
  BY EmptyMapType
<1>4. LockTypeOK'
  BY <1>2, <1>3 DEF LockInv, LockTypeOK
<1>5. Cardinality(read_sessions') = 0
  BY FS_EmptySet
<1>6. rw_owner' = Readers' \/ (current_state' = "TC_STOP" /\ rw_owner' = Readers' + 1)
  <2>1. CASE state_transition_in_progress
    BY <1>5, <2>1 DEF Readers
  <2>2. CASE ~state_transition_in_progress
    BY <1>5, <2>2 DEF Readers
  <2> QED
    BY <2>1, <2>2
<1>7. RwOwnerCountsHolders'
  BY <1>2, <1>6 DEF RwOwnerCountsHolders
<1>8. GlobalModeExcludesOthers' /\ EntriesAreAnnounced'
  BY EmptyMapType, NameAssumption DEF GlobalModeExcludesOthers, EntriesAreAnnounced, Present
<1>9. CandidateWriterKeepsConfig' /\ IdleUnlessActive' /\ SetupOnlyWhenActive'
  BY <1>2 DEF CandidateWriterKeepsConfig, IdleUnlessActive, SetupOnlyWhenActive, LockInv
<1> QED
  BY <1>4, <1>7, <1>8, <1>9 DEF LockInv

(* SETUP_COMPLETE is recorded by an active node.                           *)
LEMMA SetupCompleteInv ==
    ASSUME LockInv, TcSetSetupComplete, current_state = "TC_ACT"
    PROVE  LockInv'
<1> USE DEF TcSetSetupComplete, rwVars, stateVars
<1>1. LockTypeOK'
  BY DEF LockInv, LockTypeOK, configVars
<1>4. RwOwnerCountsHolders'
  BY DEF LockInv, RwOwnerCountsHolders, isWriteHeld, Readers
<1>2. CandidateWriterKeepsConfig'
  BY DEF LockInv, CandidateWriterKeepsConfig, isWriteHeld, NamesOf, Present,
         RW_OWNER_WRLOCKED, configVars
<1>3. IdleUnlessActive' /\ SetupOnlyWhenActive'
  BY DEF LockInv, IdleUnlessActive, SetupOnlyWhenActive, isWriteHeld, configVars
<1> QED
  BY <1>1, <1>2, <1>3, <1>4, ConfigFrame DEF LockInv

(* Every step of a state change preserves the invariant.                   *)
LEMMA StateChangeNextInv == LockInv /\ StateChangeNext => LockInv'
BY AcquireTransitionInv, ReleaseTransitionInv, UpdateStateInv, ResetInv, SetupCompleteInv
   DEF StateChangeNext, TcStates

-----------------------------------------------------------------------------
(* A stuttering step changes nothing the invariant reads.                  *)
LEMMA StutterInv == LockInv /\ UNCHANGED lockVars => LockInv'
<1> SUFFICES ASSUME LockInv, UNCHANGED lockVars PROVE LockInv'
  OBVIOUS
<1>1. is_enable' \in BOOLEAN /\ audit_asleep' \in BOOLEAN
  BY DEF LockInv, LockTypeOK, lockVars
<1>2. audit_asleep' => current_state = "TC_ACT"
  BY DEF LockInv, SetupOnlyWhenActive, lockVars
<1> QED
  BY <1>1, <1>2, FlagInv DEF lockVars

(* The lock manager keeps its inductive invariant, whatever its clients    *)
(* call and in whatever order.                                             *)
THEOREM LockInvariant == LockSpec => []LockInv
<1>1. LockInit => LockInv
  BY InitInv
<1>2. LockInv /\ [LockNext]_lockVars => LockInv'
  BY ConfigNextInv, ReadWriteNextInv, DriverAuditNextInv, StateChangeNextInv, StutterInv
     DEF LockNext
<1> QED
  BY <1>1, <1>2, PTL DEF LockSpec

(* Every variable of TcLock keeps its type.                                *)
THEOREM TypeCorrect == LockSpec => []LockTypeOK
BY LockInvariant, PTL DEF LockInv

(* rw_owner counts the holders of the reader/writer lock, and a writer is  *)
(* alone: no unlock() wraps rw_owner into RW_OWNER_WRLOCKED.               *)
THEOREM RwOwnerCorrect == LockSpec => []RwOwnerCountsHolders
BY LockInvariant, PTL DEF LockInv

(* The disabled PFC_VERIFY of ResetTcGlobalDataOnStateTransition holds.    *)
THEOREM ResetCorrect == LockSpec => []ResetFindsOwnLock
<1>1. LockInv => ResetFindsOwnLock
  <2> SUFFICES ASSUME LockInv, current_state # "TC_STOP", state_transition_in_progress
               PROVE  rw_owner = Cardinality(read_sessions) + 1
    BY DEF ResetFindsOwnLock
  <2>1. ~isWriteHeld
    BY DEF LockInv, RwOwnerCountsHolders
  <2> QED
    BY <2>1, OwnerBound DEF Readers
<1> QED
  BY <1>1, LockInvariant, PTL

(* Global mode and the partial modes are mutually exclusive.               *)
THEOREM GlobalModeExclusive == LockSpec => []GlobalModeExcludesOthers
BY LockInvariant, PTL DEF LockInv

(* Every entry of the map is consistent and has a non-zero id.             *)
THEOREM EntriesConsistent == LockSpec => []EntriesAreAnnounced
BY LockInvariant, PTL DEF LockInv

(* A running commit or abort keeps its configuration session.              *)
THEOREM CandidateWriterSafe == LockSpec => []CandidateWriterKeepsConfig
BY LockInvariant, PTL DEF LockInv

(* A node that is not active, or whose state is changing, is idle.         *)
THEOREM InactiveIsIdle == LockSpec => []IdleUnlessActive
BY LockInvariant, PTL DEF LockInv

(* SETUP_COMPLETE and waiting driver audits belong to an active node.      *)
THEOREM SetupCorrect == LockSpec => []SetupOnlyWhenActive
BY LockInvariant, PTL DEF LockInv

(* On a stopped node a configuration operation only releases or erases.    *)
LEMMA StoppedConfigNext ==
    ASSUME LockInv, ConfigNext, current_state = "TC_STOP"
    PROVE  GrantsNothing
<1> USE DEF rwVars, stateVars, isWriteHeld
<1>1. PICK s \in Sessions :
        \/ \E n \in ConfigNames : AcquireConfigLock(s, n)
        \/ ForceAcquireConfigLock(s)
        \/ \E id \in 0..UINT32_MAX :
             \/ ReleaseConfigLock(s, id)
             \/ NotifyConfigIdSessionIdDone(id, s, "TC_NOTIFY_ACQUIRE")
             \/ NotifyConfigIdSessionIdDone(id, s, "TC_NOTIFY_RELEASE")
        \/ TcMarkSessionId(s)
  BY DEF ConfigNext
<1>2. /\ ~\E n \in ConfigNames : AcquireConfigLock(s, n)
      /\ ~ForceAcquireConfigLock(s)
  BY DEF AcquireConfigLock, CanAcquireConfig, ForceAcquireConfigLock, TcOperationIsAllowed
<1> DEFINE n == FindConfigName(s)
<1>3. /\ HasConfig(s)
      /\ \E e : tc_config_name_map' = [tc_config_name_map EXCEPT ![n] = e]
      /\ OthersUnchanged
  <2>1. tc_config_name_map \in [ConfigNames -> TcConfigLock]
    BY DEF LockInv, LockTypeOK
  <2>2. ASSUME NEW id, ReleaseConfigLock(s, id) PROVE <1>3!:
    BY <2>1, <2>2, OwnEntry DEF ReleaseConfigLock, CanReleaseConfig, OthersUnchanged
  <2>3. ASSUME NEW id, NEW notify, NotifyConfigIdSessionIdDone(id, s, notify) PROVE <1>3!:
    BY <2>1, <2>3, OwnEntry DEF NotifyConfigIdSessionIdDone, NotifyMatches, OthersUnchanged
  <2>4. ASSUME TcMarkSessionId(s) PROVE <1>3!:
    BY <2>1, <2>4, OwnEntry DEF TcMarkSessionId, CanMark, OthersUnchanged
  <2> QED
    BY <1>1, <1>2, <2>2, <2>3, <2>4
<1>4. \A m \in ConfigNames : Present(m)' => Present(m)
  BY <1>3, OwnEntry DEF Present, LockInv, LockTypeOK
<1> QED
  BY <1>3, <1>4 DEF GrantsNothing, OthersUnchanged

(* On a stopped node the other operations release, or find nothing held.   *)
LEMMA StoppedOtherNext ==
    ASSUME LockInv, ReadWriteNext \/ DriverAuditNext \/ StateChangeNext, current_state = "TC_STOP"
    PROVE  GrantsNothing
<1> USE DEF GrantsNothing, Present, configVars, stateVars, rwVars
<1>1. \A s, op : ~TcOperationIsAllowed(s, op)
  BY DEF TcOperationIsAllowed
<1>2. ~audit_asleep
  BY DEF LockInv, SetupOnlyWhenActive
<1>3. UINT32_MAX \in Nat /\ 1 < UINT32_MAX
  BY ReadersBound, UINT32Assumption DEF LockInv
<1>4. CASE ReadWriteNext \/ DriverAuditNext
  <2>1. PICK s \in Sessions \cup {NoSession} :
          \/ s \in Sessions /\ ReleaseReadLock(s)
          \/ \E op \in WriteOps : ReleaseWriteLock(s, op) \/ AutoSaveWriteUnlock(s, op)
          \/ AutoSaveDisable
    BY <1>1, <1>2, <1>4
       DEF ReadWriteNext, DriverAuditNext, AcquireReadLock, AcquireWriteLock, AuditDriverSleep,
           AcquireWriteLockForAuditDriver, AutoSaveWriteLock, AutoSaveEnable
  <2>2. CASE s \in Sessions /\ ReleaseReadLock(s)
    <3>1. ~isWriteHeld
      BY <2>2 DEF LockInv, RwOwnerCountsHolders, ReleaseReadLock
    <3>2. ~isWriteHeld'
      BY <2>2, ReleaseReadInv, <3>1 DEF LockInv, RwOwnerCountsHolders, ReleaseReadLock
    <3> QED
      BY <2>2, <3>2 DEF ReleaseReadLock
  <2>3. ASSUME NEW op \in WriteOps, ReleaseWriteLock(s, op) \/ AutoSaveWriteUnlock(s, op)
        PROVE  GrantsNothing
    BY <2>3 DEF ReleaseWriteLock, AutoSaveWriteUnlock, WriteUnlock, WriteHeldFor, isWriteHeldBy
  <2>4. CASE AutoSaveDisable
    BY <2>4 DEF AutoSaveDisable, isWriteHeld
  <2> QED
    BY <2>1, <2>2, <2>3, <2>4
<1>5. CASE StateChangeNext
  <2>1. CASE TcReleaseReadLockForStateTransition
    <3>1. ~isWriteHeld
      BY <2>1 DEF LockInv, RwOwnerCountsHolders, TcReleaseReadLockForStateTransition
    <3>2. ~isWriteHeld'
      BY <2>1, ReleaseTransitionInv, <3>1
         DEF LockInv, RwOwnerCountsHolders, TcReleaseReadLockForStateTransition
    <3> QED
      BY <2>1, <3>2 DEF TcReleaseReadLockForStateTransition
  <2>2. CASE TcUpdateUncState("TC_STOP")
    BY <2>2 DEF TcUpdateUncState, isWriteHeld
  <2>3. CASE ResetTcGlobalDataOnStateTransition
    BY <1>3, <2>3, EmptyMapType
       DEF ResetTcGlobalDataOnStateTransition, isWriteHeld, RW_OWNER_WRLOCKED
  <2> QED
    BY <1>5, <2>1, <2>2, <2>3 DEF StateChangeNext
<1> QED
  BY <1>4, <1>5

(* A stopped node grants no lock and stays stopped.                        *)
THEOREM StopIsFinal == LockSpec => StopGrantsNothing
<1>1. LockInv /\ [LockNext]_lockVars => [GrantsNothing]_lockVars
  BY StoppedConfigNext, StoppedOtherNext DEF LockNext, GrantsNothing
<1> QED
  BY <1>1, LockInvariant, PTL DEF LockSpec, StopGrantsNothing
====
