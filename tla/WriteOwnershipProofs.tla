------------------------ MODULE WriteOwnershipProofs ------------------------
(***************************************************************************)
(* Safety of WriteOwnership for any mounts, files, TTL and thread count:   *)
(* the inductive invariant, and the refinement of FencedFile.  Then, for   *)
(* one event-loop thread, that a release gives back what nobody uses any   *)
(* more and nothing else; it has an invariant of its own, RInv.            *)
(***************************************************************************)
EXTENDS WriteOwnership, FiniteSetTheorems, TLAPS

\* The provers of a leaf that names none, and their time limits in seconds.
USE SMTT(60), ZenonT(60)

\* A handle number not drawn yet has no entry, runs no callback and owns no lease.
FreshHandles ==
  \A m \in Mounts, h \in Handles :
    h >= nextFh[m] => ~InTable(m, h) /\ pc[m][h] = "idle"

FreshOwners ==
  \A f \in Files :
    fileLease[f] # NoLease => fileLease[f].owner < nextFh[fileLease[f].mount]

\* The row of a file carries the newest token granted on it.
LeaseIsNewest ==
  \A f \in Files :
    /\ granted[f] <= fileSeq
    /\ fileLease[f] # NoLease => fileLease[f].token = granted[f]

\* A running callback is on an open handle.
RunningIsOpen ==
  \A m \in Mounts, h \in Handles : pc[m][h] # "idle" => InTable(m, h)

\* A callback inside its transaction holds the lock of the file and carries its
\* newest token.
LockedInFlight ==
  \A m \in Mounts, h \in Handles :
    InPersist(m, h) => /\ lock[FileOf(m, h)] = <<m, h>>
                       /\ table[m][h].ftok = granted[FileOf(m, h)]

\* The inductive invariant: InFlightIsCurrent and LegacyExcluded are not inductive
\* without the lock that keeps grants and unfenced writers away from a transaction
\* in progress, nor without the tokens of leases and fresh handles.
IInv ==
  /\ TypeOK
  /\ FreshHandles
  /\ FreshOwners
  /\ LeaseIsNewest
  /\ RunningIsOpen
  /\ LockedInFlight
  /\ LegacyExcluded

\* The lock of a file is held by nobody, by an unfenced caller or by a handle.
LEMMA LockTuples ==
  \A m \in Mounts, h \in Handles : <<m, h>> # Free /\ <<m, h>> # Legacy
BY ConstantsOK DEF Owners

\* An entry of the handle table names a file and carries a positive token.
LEMMA HandleFile ==
  ASSUME TypeOK, NEW m \in Mounts, NEW h \in Handles, InTable(m, h)
  PROVE  /\ table[m][h] \in HandleRow
         /\ FileOf(m, h) \in Files
         /\ table[m][h].ftok \in Nat \ {0}
BY DEF TypeOK, InTable, FileOf, HandleRow

\* What the invariant says of a transaction in progress.
LEMMA InFlight ==
  ASSUME IInv, NEW m \in Mounts, NEW h \in Handles, InPersist(m, h)
  PROVE  /\ InTable(m, h)
         /\ FileOf(m, h) \in Files
         /\ lock[FileOf(m, h)] = <<m, h>>
         /\ lock[FileOf(m, h)] # Free
         /\ lock[FileOf(m, h)] # Legacy
         /\ table[m][h].ftok = granted[FileOf(m, h)]
         /\ granted[FileOf(m, h)] > 0
<1>1. InTable(m, h)
  BY ZenonT(60) DEF IInv, RunningIsOpen, InPersist, PersistStates
<1>2. FileOf(m, h) \in Files /\ table[m][h].ftok \in Nat \ {0}
  BY ZenonT(60), <1>1, HandleFile DEF IInv
<1>3. /\ lock[FileOf(m, h)] = <<m, h>>
      /\ table[m][h].ftok = granted[FileOf(m, h)]
  BY ZenonT(60) DEF IInv, LockedInFlight
<1> QED
  BY <1>1, <1>2, <1>3, LockTuples

\* Two transactions in progress are on different files.
LEMMA OneInFlight ==
  ASSUME IInv, NEW m \in Mounts, NEW h \in Handles, InPersist(m, h),
         NEW n \in Mounts, NEW g \in Handles, InPersist(n, g),
         FileOf(m, h) = FileOf(n, g)
  PROVE  m = n /\ h = g
<1>1. <<m, h>> = <<n, g>>
  BY ZenonT(60), InFlight
<1> QED
  BY ZenonT(60), <1>1

\* An unfenced caller takes or frees the lock of a file that nobody persists.
LEMMA LegacyLock ==
  ASSUME IInv, NEW f \in Files, NEW x, lock[f] \in {Free, Legacy},
         lock' = [lock EXCEPT ![f] = x], UNCHANGED <<table, pc, granted>>
  PROVE  LockedInFlight'
<1> SUFFICES ASSUME NEW m \in Mounts, NEW h \in Handles, InPersist(m, h)
             PROVE  lock'[FileOf(m, h)] = lock[FileOf(m, h)]
  BY ZenonT(60) DEF IInv, LockedInFlight, InPersist, FileOf
<1> QED
  BY ZenonT(60), InFlight DEF IInv, TypeOK

\* A callback moves on without entering a transaction.
LEMMA CallbackMoves ==
  ASSUME IInv, NEW m \in Mounts, NEW h \in Handles, InTable(m, h),
         NEW p \in CallbackStates \ PersistStates,
         pc' = [pc EXCEPT ![m][h] = p], UNCHANGED <<table, lock, nextFh, granted>>
  PROVE  /\ pc' \in [Mounts -> [Handles -> CallbackStates]]
         /\ FreshHandles'
         /\ RunningIsOpen'
         /\ LockedInFlight'
<1>1. pc' \in [Mounts -> [Handles -> CallbackStates]]
  BY ZenonT(60) DEF IInv, TypeOK
<1>2. \A n \in Mounts, g \in Handles :
        pc'[n][g] = IF n = m /\ g = h THEN p ELSE pc[n][g]
  BY ZenonT(60) DEF IInv, TypeOK
<1>3. FreshHandles'
  BY <1>2 DEF IInv, FreshHandles, InTable
<1>4. RunningIsOpen'
  BY <1>2 DEF IInv, RunningIsOpen, InTable
<1>5. LockedInFlight'
  <2> SUFFICES ASSUME NEW n \in Mounts, NEW g \in Handles, InPersist(n, g)'
               PROVE  InPersist(n, g)
    BY ZenonT(60) DEF IInv, LockedInFlight, FileOf
  <2> QED
    BY ZenonT(60), <1>2 DEF InPersist, PersistStates
<1> QED
  BY ZenonT(60), <1>1, <1>3, <1>4, <1>5

\* A transaction ends: its lock is freed, and its callback moves on or its handle
\* is forgotten.
LEMMA TransactionEnds ==
  ASSUME IInv, NEW m \in Mounts, NEW h \in Handles, InPersist(m, h),
         Unlock(FileOf(m, h)),
         NEW p \in CallbackStates \ PersistStates,
         pc' = [pc EXCEPT ![m][h] = p],
         \/ UNCHANGED table
         \/ p = "idle" /\ table' = [table EXCEPT ![m][h] = NoHandle],
         UNCHANGED <<nextFh, granted>>
  PROVE  /\ pc' \in [Mounts -> [Handles -> CallbackStates]]
         /\ table' \in [Mounts -> [Handles -> HandleRow \cup {NoHandle}]]
         /\ lock' \in [Files -> Owners \cup {Free, Legacy}]
         /\ FreshHandles'
         /\ RunningIsOpen'
         /\ LockedInFlight'
<1>1. /\ pc' \in [Mounts -> [Handles -> CallbackStates]]
      /\ table' \in [Mounts -> [Handles -> HandleRow \cup {NoHandle}]]
      /\ lock' \in [Files -> Owners \cup {Free, Legacy}]
  <2>1. pc' \in [Mounts -> [Handles -> CallbackStates]]
    BY ZenonT(60) DEF IInv, TypeOK
  <2>2. table' \in [Mounts -> [Handles -> HandleRow \cup {NoHandle}]]
    <3>1. CASE UNCHANGED table
      BY ZenonT(60), <3>1 DEF IInv, TypeOK
    <3>2. CASE table' = [table EXCEPT ![m][h] = NoHandle]
      BY ZenonT(60), <3>2 DEF IInv, TypeOK
    <3> QED
      BY ZenonT(60), <3>1, <3>2
  <2>3. lock' \in [Files -> Owners \cup {Free, Legacy}]
    BY ZenonT(60) DEF IInv, TypeOK, Unlock
  <2> QED
    BY ZenonT(60), <2>1, <2>2, <2>3
<1>2. \A n \in Mounts, g \in Handles :
        /\ pc'[n][g] = IF n = m /\ g = h THEN p ELSE pc[n][g]
        /\ ~(n = m /\ g = h) => table'[n][g] = table[n][g]
        /\ table'[n][g] \in {table[n][g], NoHandle}
        /\ p # "idle" => table'[n][g] = table[n][g]
  BY DEF IInv, TypeOK
<1>3. InTable(m, h)
  BY ZenonT(60), InFlight
<1>4. FreshHandles'
  BY <1>2, <1>3 DEF IInv, FreshHandles, InTable
<1>5. RunningIsOpen'
  BY <1>2, <1>3 DEF IInv, RunningIsOpen, InTable
<1>6. LockedInFlight'
  <2> SUFFICES ASSUME NEW n \in Mounts, NEW g \in Handles, InPersist(n, g)'
               PROVE  /\ lock'[FileOf(n, g)'] = <<n, g>>
                      /\ table'[n][g].ftok = granted'[FileOf(n, g)']
    BY ZenonT(60) DEF LockedInFlight
  <2>1. InPersist(n, g) /\ table'[n][g] = table[n][g] /\ ~(n = m /\ g = h)
    BY ZenonT(60), <1>2 DEF InPersist, PersistStates
  <2>2. FileOf(n, g)' = FileOf(n, g) /\ FileOf(n, g) # FileOf(m, h)
    BY ZenonT(60), <2>1, OneInFlight DEF FileOf
  <2>3. lock'[FileOf(n, g)] = lock[FileOf(n, g)]
    BY ZenonT(60), <2>1, <2>2, InFlight DEF IInv, TypeOK, Unlock
  <2> QED
    BY ZenonT(60), <2>1, <2>2, <2>3, InFlight
<1> QED
  BY ZenonT(60), <1>1, <1>4, <1>5, <1>6

-----------------------------------------------------------------------------
\* The initial states satisfy the invariant.
THEOREM InitIInv == Init => IInv
BY ConstantsOK DEF Init, IInv, TypeOK, FreshHandles, FreshOwners, LeaseIsNewest,
   RunningIsOpen, LockedInFlight, LegacyExcluded, InTable, InPersist, PersistStates, Handles,
   Owners, Live, CallbackStates

-----------------------------------------------------------------------------
(* Each action preserves the invariant. *)

\* The clock advances: rows keep their owners and tokens, and none becomes live.
LEMMA TickIInv ==
  ASSUME IInv, Tick
  PROVE  IInv'
<1> USE DEF Tick
<1>1. /\ session' \in [Mounts -> 0..TTL \cup {NoSession}]
      /\ destLease' \in [Files -> LeaseRow \cup {NoLease}]
      /\ fileLease' \in [Files -> LeaseRow \cup {NoLease}]
  <2>1. \A left \in 0..TTL : Older(left) \in 0..TTL
    BY ConstantsOK DEF Older
  <2>2. \A row \in LeaseRow : [row EXCEPT !.left = Older(@)] \in LeaseRow
    BY ZenonT(60), <2>1 DEF LeaseRow
  <2> QED
    BY ZenonT(60), <2>1, <2>2 DEF IInv, TypeOK
<1>2. \A f \in Files :
        /\ fileLease'[f] = NoLease <=> fileLease[f] = NoLease
        /\ fileLease[f] # NoLease => /\ fileLease'[f].token = fileLease[f].token
                                     /\ fileLease'[f].owner = fileLease[f].owner
                                     /\ fileLease'[f].mount = fileLease[f].mount
        /\ Live(fileLease'[f]) => Live(fileLease[f])
  <2>1. \A row \in LeaseRow :
          LET new == [row EXCEPT !.left = Older(@)] IN
          /\ new # NoLease
          /\ new.token = row.token /\ new.owner = row.owner /\ new.mount = row.mount
          /\ new.left > 0 => row.left > 0
    BY ConstantsOK DEF LeaseRow, Older
  <2> QED
    BY ZenonT(60), <2>1 DEF IInv, TypeOK, Live
<1>3. TypeOK'
  BY ZenonT(60), <1>1 DEF IInv, TypeOK, mountVars, history
<1>4. FreshHandles' /\ RunningIsOpen' /\ LockedInFlight'
  BY ZenonT(60) DEF IInv, FreshHandles, RunningIsOpen, LockedInFlight, InTable, InPersist, FileOf,
         mountVars, history
<1>5. FreshOwners' /\ LeaseIsNewest' /\ LegacyExcluded'
  BY ZenonT(60), <1>2 DEF IInv, FreshOwners, LeaseIsNewest, LegacyExcluded, mountVars, history
<1> QED
  BY ZenonT(60), <1>3, <1>4, <1>5 DEF IInv

\* prune_expired_client_sessions only deletes rows.
LEMMA PruneSessionsIInv ==
  ASSUME IInv, PruneSessions
  PROVE  IInv'
<1> USE DEF PruneSessions
<1>1. \A f \in Files :
        /\ destLease'[f] \in {destLease[f], NoLease}
        /\ fileLease'[f] \in {fileLease[f], NoLease}
  BY ZenonT(60) DEF IInv, TypeOK
<1>2. TypeOK'
  <2>1. /\ destLease' \in [Files -> LeaseRow \cup {NoLease}]
        /\ fileLease' \in [Files -> LeaseRow \cup {NoLease}]
    BY ZenonT(60) DEF IInv, TypeOK
  <2>2. session' \in [Mounts -> 0..TTL \cup {NoSession}]
    BY ZenonT(60) DEF IInv, TypeOK
  <2> QED
    BY ZenonT(60), <2>1, <2>2 DEF IInv, TypeOK, mountVars, history
<1>3. FreshHandles' /\ RunningIsOpen' /\ LockedInFlight'
  BY ZenonT(60) DEF IInv, FreshHandles, RunningIsOpen, LockedInFlight, InTable, InPersist, FileOf,
         mountVars, history
<1>4. FreshOwners' /\ LeaseIsNewest' /\ LegacyExcluded'
  BY ZenonT(60), <1>1 DEF IInv, FreshOwners, LeaseIsNewest, LegacyExcluded, Live, mountVars, history
<1> QED
  BY ZenonT(60), <1>2, <1>3, <1>4 DEF IInv

\* register_client_session and heartbeat_client_session touch the session only.
LEMMA SessionIInv ==
  ASSUME IInv, NEW m \in Mounts, Register(m) \/ HeartbeatSession(m)
  PROVE  IInv'
<1>1. UNCHANGED <<dbVars, lock, content, mountVars, history>>
  BY ZenonT(60) DEF Register, HeartbeatSession
<1>2. session' \in [Mounts -> 0..TTL \cup {NoSession}]
  <2>1. TTL \in 0..TTL
    BY ConstantsOK
  <2> QED
    BY <2>1, ZenonT(60) DEF IInv, TypeOK, Register, HeartbeatSession
<1>3. process' \in [Mounts -> {"new", "up", "dead"}]
  BY ZenonT(60) DEF IInv, TypeOK, Register, HeartbeatSession
<1>4. TypeOK'
  BY ZenonT(60), <1>1, <1>2, <1>3 DEF IInv, TypeOK, dbVars, mountVars, history
<1> QED
  BY ZenonT(60), <1>1, <1>4 DEF IInv, FreshHandles, FreshOwners, LeaseIsNewest, RunningIsOpen,
     LockedInFlight, LegacyExcluded, InTable, InPersist, FileOf, Live, dbVars, mountVars,
     history

\* A crash forgets handles; a transaction in progress keeps its entry.
LEMMA CrashIInv ==
  ASSUME IInv, NEW m \in Mounts, Crash(m)
  PROVE  IInv'
<1> USE DEF Crash
<1>1. TypeOK'
  <2>1. table' \in [Mounts -> [Handles -> HandleRow \cup {NoHandle}]]
    BY ZenonT(60) DEF IInv, TypeOK
  <2>2. pc' \in [Mounts -> [Handles -> CallbackStates]]
    BY ZenonT(60) DEF IInv, TypeOK, CallbackStates, PersistStates
  <2>3. /\ process' \in [Mounts -> {"new", "up", "dead"}]
        /\ dirty' \in [Mounts -> SUBSET Handles]
        /\ beat' \in [Mounts -> SUBSET HandleRow]
    BY ZenonT(60) DEF IInv, TypeOK
  <2> QED
    BY ZenonT(60), <2>1, <2>2, <2>3 DEF IInv, TypeOK, dbVars, history
<1>2. \A n \in Mounts, g \in Handles :
        \/ table'[n][g] = table[n][g] /\ pc'[n][g] = pc[n][g]
        \/ table'[n][g] = NoHandle /\ pc'[n][g] = "idle"
  BY ZenonT(60) DEF IInv, TypeOK
<1>3. FreshHandles' /\ RunningIsOpen'
  BY <1>2 DEF IInv, FreshHandles, RunningIsOpen, InTable
<1>4. LockedInFlight'
  <2> SUFFICES ASSUME NEW n \in Mounts, NEW g \in Handles, InPersist(n, g)'
               PROVE  /\ lock'[FileOf(n, g)'] = <<n, g>>
                      /\ table'[n][g].ftok = granted'[FileOf(n, g)']
    BY ZenonT(60) DEF LockedInFlight
  <2>1. InPersist(n, g) /\ table'[n][g] = table[n][g]
    BY ZenonT(60), <1>2 DEF InPersist, PersistStates
  <2> QED
    BY <2>1, InFlight, ZenonT(60) DEF FileOf, history
<1>5. FreshOwners' /\ LeaseIsNewest' /\ LegacyExcluded'
  BY ZenonT(60) DEF IInv, FreshOwners, LeaseIsNewest, LegacyExcluded, Live, dbVars, history
<1> QED
  BY ZenonT(60), <1>1, <1>3, <1>4, <1>5 DEF IInv

\* Collecting ownerships changes nothing they depend on.
LEMMA HeartbeatCollectIInv ==
  ASSUME IInv, NEW m \in Mounts, HeartbeatCollect(m)
  PROVE  IInv'
<1> USE DEF HeartbeatCollect
<1>1. {table[m][h] : h \in {g \in Handles : InTable(m, g)}} \subseteq HandleRow
  BY DEF IInv, TypeOK, InTable
<1>2. TypeOK'
  BY ZenonT(60), <1>1 DEF IInv, TypeOK, dbVars, history
<1> QED
  BY ZenonT(60), <1>2 DEF IInv, FreshHandles, FreshOwners, LeaseIsNewest, RunningIsOpen,
     LockedInFlight, LegacyExcluded, InTable, InPersist, FileOf, Live, dbVars, history

\* Renewing a row changes neither its owner nor its token.
LEMMA Renewed ==
  ASSUME NEW rows \in [Files -> LeaseRow \cup {NoLease}], NEW f \in Files,
         rows[f] # NoLease
  PROVE  LET new == [rows EXCEPT ![f].left = TTL] IN
         /\ new \in [Files -> LeaseRow \cup {NoLease}]
         /\ \A g \in Files \ {f} : new[g] = rows[g]
         /\ new[f] # NoLease
         /\ new[f].token = rows[f].token
         /\ new[f].owner = rows[f].owner
         /\ new[f].mount = rows[f].mount
<1> DEFINE row == [rows[f] EXCEPT !.left = TTL]
<1>1. rows[f] \in LeaseRow
  OBVIOUS
<1>2. /\ row \in LeaseRow
      /\ row.token = rows[f].token
      /\ row.owner = rows[f].owner
      /\ row.mount = rows[f].mount
  BY <1>1, ConstantsOK DEF LeaseRow
<1>3. row # NoLease
  BY ZenonT(60), <1>2, ConstantsOK
<1> HIDE DEF row
<1>4. [rows EXCEPT ![f] = row] \in [Files -> LeaseRow \cup {NoLease}]
  BY ZenonT(60), <1>2
<1> QED
  BY ZenonT(60), <1>2, <1>3, <1>4 DEF row

\* A heartbeat renews a row that is live already.
LEMMA HeartbeatOwnershipIInv ==
  ASSUME IInv, NEW m \in Mounts, HeartbeatOwnership(m)
  PROVE  IInv'
<1> USE DEF HeartbeatOwnership
<1>1. PICK own \in beat[m] :
        /\ beat' = [beat EXCEPT ![m] = @ \ {own}]
        /\ IF Renewable(m, own)
           THEN /\ destLease' = [destLease EXCEPT ![own.file].left = TTL]
                /\ fileLease' = [fileLease EXCEPT ![own.file].left = TTL]
           ELSE UNCHANGED <<destLease, fileLease>>
  BY ZenonT(60)
<1>2. own.file \in Files
  BY DEF IInv, TypeOK, HandleRow
<1>3. /\ destLease' \in [Files -> LeaseRow \cup {NoLease}]
      /\ fileLease' \in [Files -> LeaseRow \cup {NoLease}]
      /\ \A f \in Files :
           /\ fileLease'[f] = NoLease <=> fileLease[f] = NoLease
           /\ fileLease[f] # NoLease => /\ fileLease'[f].token = fileLease[f].token
                                        /\ fileLease'[f].owner = fileLease[f].owner
                                        /\ fileLease'[f].mount = fileLease[f].mount
           /\ Live(fileLease'[f]) => Live(fileLease[f])
  <2>1. CASE Renewable(m, own)
    <3>1. /\ Live(fileLease[own.file])
          /\ destLease[own.file] # NoLease
          /\ fileLease[own.file] # NoLease
      BY ZenonT(60), <2>1 DEF Renewable, Live
    <3>2. /\ destLease \in [Files -> LeaseRow \cup {NoLease}]
          /\ fileLease \in [Files -> LeaseRow \cup {NoLease}]
      BY ZenonT(60) DEF IInv, TypeOK
    <3>3. destLease' \in [Files -> LeaseRow \cup {NoLease}]
      BY <1>1, <1>2, <2>1, <3>1, <3>2, Renewed
    <3>4. fileLease' = [fileLease EXCEPT ![own.file].left = TTL]
      BY ZenonT(60), <1>1, <2>1
    <3>5. /\ fileLease' \in [Files -> LeaseRow \cup {NoLease}]
          /\ \A f \in Files \ {own.file} : fileLease'[f] = fileLease[f]
          /\ fileLease'[own.file] # NoLease
          /\ fileLease'[own.file].token = fileLease[own.file].token
          /\ fileLease'[own.file].owner = fileLease[own.file].owner
          /\ fileLease'[own.file].mount = fileLease[own.file].mount
      BY <1>2, <3>1, <3>2, <3>4, Renewed
    <3> QED
      BY ZenonT(60), <3>1, <3>3, <3>5
  <2>2. CASE ~Renewable(m, own)
    BY ZenonT(60), <1>1, <2>2 DEF IInv, TypeOK
  <2> QED
    BY ZenonT(60), <2>1, <2>2
<1>4. TypeOK'
  BY ZenonT(60), <1>1, <1>3 DEF IInv, TypeOK, history
<1>5. FreshHandles' /\ RunningIsOpen' /\ LockedInFlight'
  BY ZenonT(60) DEF IInv, FreshHandles, RunningIsOpen, LockedInFlight, InTable, InPersist, FileOf,
         history
<1>6. FreshOwners' /\ LeaseIsNewest' /\ LegacyExcluded'
  BY ZenonT(60), <1>3 DEF IInv, FreshOwners, LeaseIsNewest, LegacyExcluded, history
<1> QED
  BY ZenonT(60), <1>4, <1>5, <1>6 DEF IInv

\* What opening a new handle needs and what a grant leaves in the file's row.
LEMMA GrantFacts ==
  ASSUME IInv, NEW m \in Mounts, NEW h \in Handles, NEW f \in Files,
         NewHandle(m, h), CanAcquire(m, h, f)
  PROVE  /\ AcquiredDest(m, h, f) \in LeaseRow
         /\ AcquiredFile(m, h, f) \in LeaseRow
         /\ AcquiredFile(m, h, f) # NoLease
         /\ AcquiredFile(m, h, f).token = fileSeq + 1
         /\ AcquiredFile(m, h, f).mount = m
         /\ AcquiredFile(m, h, f).owner = h
         /\ Live(AcquiredFile(m, h, f))
         /\ ~Live(fileLease[f])
         /\ lock[f] = Free
         /\ h = nextFh[m] /\ nextFh[m] \in 1..MaxHandles
         /\ fileSeq \in Nat
<1>1. h = nextFh[m] /\ nextFh[m] \in 1..MaxHandles /\ lock[f] = Free
  BY ZenonT(60) DEF NewHandle, CanAcquire, ReachesLeaseChecks, Handles
<1>2. fileSeq \in Nat /\ destSeq \in Nat /\ destLease[f] \in LeaseRow \cup {NoLease}
  BY ZenonT(60) DEF IInv, TypeOK
<1>3. ~Live(fileLease[f])
  <2> SUFFICES ASSUME Live(fileLease[f]) PROVE FALSE
    OBVIOUS
  <2>1. fileLease[f] # NoLease /\ fileLease[f].mount = m /\ fileLease[f].owner = h
    BY ZenonT(60) DEF CanAcquire, Conflict, HeldBy, Live
  <2>2. h < nextFh[m]
    BY ZenonT(60), <2>1 DEF IInv, FreshOwners
  <2> QED
    BY <1>1, <2>2
<1>4. AcquiredFile(m, h, f) =
        [mount |-> m, owner |-> h, token |-> fileSeq + 1, left |-> TTL]
  BY ZenonT(60), <1>3 DEF AcquiredFile, Pruned, Upsert
<1>5. AcquiredFile(m, h, f) \in LeaseRow
  BY <1>2, <1>4, ConstantsOK DEF LeaseRow
<1>6. AcquiredDest(m, h, f) \in LeaseRow
  <2>1. CASE Live(destLease[f])
    <3>1. AcquiredDest(m, h, f) = [destLease[f] EXCEPT !.left = TTL]
      BY ZenonT(60), <2>1 DEF AcquiredDest, Pruned, Upsert, Live
    <3>2. destLease[f] \in LeaseRow
      BY ZenonT(60), <1>2, <2>1 DEF Live
    <3> QED
      BY <3>1, <3>2, ConstantsOK DEF LeaseRow
  <2>2. CASE ~Live(destLease[f])
    <3>1. AcquiredDest(m, h, f) =
            [mount |-> m, owner |-> h, token |-> destSeq + 1, left |-> TTL]
      BY ZenonT(60), <2>2 DEF AcquiredDest, Pruned, Upsert
    <3> QED
      BY <3>1, <1>2, ConstantsOK DEF LeaseRow
  <2> QED
    BY ZenonT(60), <2>1, <2>2
<1>7. AcquiredFile(m, h, f) # NoLease
  BY ZenonT(60), <1>5, ConstantsOK
<1> QED
  BY <1>1, <1>2, <1>3, <1>4, <1>5, <1>6, <1>7, ConstantsOK DEF Live

\* The part of them that the handle's own step needs.
LEMMA GrantToken ==
  ASSUME IInv, NEW m \in Mounts, NEW h \in Handles, NEW f \in Files,
         NewHandle(m, h) /\ CanAcquire(m, h, f)
  PROVE  /\ AcquiredFile(m, h, f).token = fileSeq + 1
         /\ h = nextFh[m] /\ lock[f] = Free /\ fileSeq \in Nat
<1>1. AcquiredFile(m, h, f).token = fileSeq + 1
  BY GrantFacts
<1>2. h = nextFh[m]
  BY ZenonT(60), GrantFacts
<1>3. lock[f] = Free
  BY GrantFacts
<1>4. fileSeq \in Nat
  BY ZenonT(60), GrantFacts
<1> QED
  BY ZenonT(60), <1>1, <1>2, <1>3, <1>4

\* The newest token of a file changes, and new rows appear, only while nobody
\* persists the file.
LEMMA Granted ==
  ASSUME IInv, NEW m \in Mounts, NEW h \in Handles, NEW f \in Files,
         NewHandle(m, h), CanAcquire(m, h, f),
         NEW row, row = NoLease \/ row = AcquiredFile(m, h, f),
         fileSeq' = fileSeq + 1,
         fileLease' = [fileLease EXCEPT ![f] = row],
         granted' = [granted EXCEPT ![f] = fileSeq + 1],
         nextFh' = [nextFh EXCEPT ![m] = @ + 1],
         UNCHANGED lock
  PROVE  /\ fileLease' \in [Files -> LeaseRow \cup {NoLease}]
         /\ granted' \in [Files -> Nat]
         /\ nextFh' \in [Mounts -> 1..(MaxHandles + 1)]
         /\ FreshOwners'
         /\ LeaseIsNewest'
         /\ LegacyExcluded'
<1>1. /\ fileLease' \in [Files -> LeaseRow \cup {NoLease}]
      /\ granted' \in [Files -> Nat]
  BY GrantFacts DEF IInv, TypeOK
<1>2. nextFh' \in [Mounts -> 1..(MaxHandles + 1)] /\ nextFh[m] \in 1..MaxHandles
  <2>1. nextFh[m] \in 1..MaxHandles
    BY ZenonT(60), GrantFacts
  <2>2. nextFh[m] + 1 \in 1..(MaxHandles + 1)
    BY <2>1, ConstantsOK
  <2> QED
    BY ZenonT(60), <2>1, <2>2 DEF IInv, TypeOK
<1>3. \A g \in Files : /\ g # f => fileLease'[g] = fileLease[g] /\ granted'[g] = granted[g]
                       /\ fileLease'[f] = row /\ granted'[f] = fileSeq + 1
  BY ZenonT(60) DEF IInv, TypeOK
<1>4. FreshOwners'
  <2> SUFFICES ASSUME NEW g \in Files, fileLease'[g] # NoLease
               PROVE  fileLease'[g].owner < nextFh'[fileLease'[g].mount]
    BY ZenonT(60) DEF FreshOwners
  <2>1. CASE g = f
    BY SMTT(60), <1>2, <1>3, <2>1, GrantFacts DEF IInv, TypeOK
  <2>2. CASE g # f
    <3>1. /\ fileLease[g].owner < nextFh[fileLease[g].mount]
          /\ fileLease[g] \in LeaseRow
          /\ fileLease'[g] = fileLease[g]
      BY ZenonT(60), <1>3, <2>2 DEF IInv, TypeOK, FreshOwners
    <3>2. fileLease[g].mount \in Mounts /\ fileLease[g].owner \in Nat
      BY SMTT(60), <3>1 DEF LeaseRow, Handles
    <3>3. \/ nextFh'[fileLease[g].mount] = nextFh[fileLease[g].mount]
          \/ nextFh'[fileLease[g].mount] = nextFh[fileLease[g].mount] + 1
      BY ZenonT(60), <3>2 DEF IInv, TypeOK
    <3>4. nextFh[fileLease[g].mount] \in Nat
      BY SMTT(60), <3>2 DEF IInv, TypeOK
    <3> QED
      BY <3>1, <3>2, <3>3, <3>4
  <2> QED
    BY ZenonT(60), <2>1, <2>2
<1>5. LeaseIsNewest'
  BY <1>3, GrantFacts DEF IInv, TypeOK, LeaseIsNewest
<1>6. LegacyExcluded'
  <2>1. lock[f] # Legacy
    BY SMTT(60), GrantFacts, ConstantsOK
  <2> QED
    BY ZenonT(60), <1>3, <2>1 DEF IInv, LegacyExcluded
<1> QED
  BY ZenonT(60), <1>1, <1>2, <1>4, <1>5, <1>6

\* A new handle enters the table, or stays out of it, while nobody persists its
\* file under another token.
LEMMA HandleEnters ==
  ASSUME IInv, NEW m \in Mounts, NEW h \in Handles, NEW f \in Files,
         h = nextFh[m], nextFh' = [nextFh EXCEPT ![m] = @ + 1],
         NEW row \in HandleRow \cup {NoHandle}, NEW p \in {"idle", "open"},
         row = NoHandle => p = "idle",
         table' = [table EXCEPT ![m][h] = row],
         pc' = [pc EXCEPT ![m][h] = p],
         UNCHANGED lock,
         \/ UNCHANGED granted
         \/ lock[f] = Free /\ \A g \in Files \ {f} : granted'[g] = granted[g]
  PROVE  /\ table' \in [Mounts -> [Handles -> HandleRow \cup {NoHandle}]]
         /\ pc' \in [Mounts -> [Handles -> CallbackStates]]
         /\ FreshHandles'
         /\ RunningIsOpen'
         /\ LockedInFlight'
<1>1. table' \in [Mounts -> [Handles -> HandleRow \cup {NoHandle}]]
  BY ZenonT(60) DEF IInv, TypeOK
<1>2. pc' \in [Mounts -> [Handles -> CallbackStates]]
  BY ZenonT(60) DEF IInv, TypeOK, CallbackStates, PersistStates
<1>3. \A n \in Mounts, g \in Handles :
        /\ table'[n][g] = IF n = m /\ g = h THEN row ELSE table[n][g]
        /\ pc'[n][g] = IF n = m /\ g = h THEN p ELSE pc[n][g]
  BY ZenonT(60) DEF IInv, TypeOK
<1>4. FreshHandles'
  <2> SUFFICES ASSUME NEW n \in Mounts, NEW g \in Handles, g >= nextFh'[n]
               PROVE  ~InTable(n, g)' /\ pc'[n][g] = "idle"
    BY ZenonT(60) DEF FreshHandles
  <2>1. g >= nextFh[n] /\ ~(n = m /\ g = h)
    BY DEF IInv, TypeOK, Handles
  <2> QED
    BY <1>3, <2>1 DEF IInv, FreshHandles, InTable
<1>5. RunningIsOpen'
  BY SMTT(60), <1>3, ConstantsOK, SMTT(60) DEF IInv, RunningIsOpen, InTable
<1>6. LockedInFlight'
  <2> SUFFICES ASSUME NEW n \in Mounts, NEW g \in Handles, InPersist(n, g)'
               PROVE  /\ lock'[FileOf(n, g)'] = <<n, g>>
                      /\ table'[n][g].ftok = granted'[FileOf(n, g)']
    BY ZenonT(60) DEF LockedInFlight
  <2>1. InPersist(n, g) /\ table'[n][g] = table[n][g]
    BY <1>3 DEF InPersist, PersistStates
  <2>2. granted'[FileOf(n, g)] = granted[FileOf(n, g)]
    BY ZenonT(60), <2>1, InFlight
  <2> QED
    BY ZenonT(60), <2>1, <2>2, InFlight DEF FileOf
<1> QED
  BY ZenonT(60), <1>1, <1>2, <1>4, <1>5, <1>6

\* The first handle of a mount on a file is granted a new token.
LEMMA OpenAcquireIInv ==
  ASSUME IInv, NEW m \in Mounts, NEW h \in Handles, NEW f \in Files,
         OpenAcquire(m, h, f)
  PROVE  IInv'
<1> DEFINE file == AcquiredFile(m, h, f)
           own == [file |-> f, owner |-> h, dtok |-> AcquiredDest(m, h, f).token,
                   ftok |-> file.token]
<1>1. NewHandle(m, h) /\ CanAcquire(m, h, f)
  BY ZenonT(60) DEF OpenAcquire
<1>2. file.token = fileSeq + 1 /\ h = nextFh[m] /\ lock[f] = Free /\ fileSeq \in Nat
  BY ZenonT(60), <1>1, GrantToken
<1>3. own \in HandleRow
  <2>1. AcquiredDest(m, h, f) \in LeaseRow /\ file \in LeaseRow
    BY ZenonT(60), <1>1, GrantFacts
  <2> QED
    BY ZenonT(60), <2>1 DEF LeaseRow, HandleRow
<1>4. PICK p \in {"idle", "open"} : pc' = [pc EXCEPT ![m][h] = p]
  BY ZenonT(60) DEF OpenAcquire, OpenPc
<1>5. /\ fileSeq' = fileSeq + 1
      /\ fileLease' = [fileLease EXCEPT ![f] = file]
      /\ granted' = [granted EXCEPT ![f] = fileSeq + 1]
      /\ nextFh' = [nextFh EXCEPT ![m] = @ + 1]
      /\ table' = [table EXCEPT ![m][h] = own]
      /\ UNCHANGED lock
  BY ZenonT(60), <1>2 DEF OpenAcquire
<1>6. \A g \in Files \ {f} : granted'[g] = granted[g]
  BY ZenonT(60), <1>5 DEF IInv, TypeOK
<1> HIDE DEF own
<1>7. /\ fileLease' \in [Files -> LeaseRow \cup {NoLease}]
      /\ granted' \in [Files -> Nat]
      /\ nextFh' \in [Mounts -> 1..(MaxHandles + 1)]
      /\ FreshOwners' /\ LeaseIsNewest' /\ LegacyExcluded'
  BY <1>1, <1>5, Granted, ZenonT(60)
<1>8. own # NoHandle
  BY ZenonT(60), <1>3, ConstantsOK
<1>9. /\ table' \in [Mounts -> [Handles -> HandleRow \cup {NoHandle}]]
      /\ pc' \in [Mounts -> [Handles -> CallbackStates]]
      /\ FreshHandles' /\ RunningIsOpen' /\ LockedInFlight'
  BY <1>2, <1>3, <1>4, <1>5, <1>6, <1>8, HandleEnters, ZenonT(60)
<1>10. TypeOK'
  <2>1. destLease' \in [Files -> LeaseRow \cup {NoLease}]
    <3>1. AcquiredDest(m, h, f) \in LeaseRow
      BY <1>1, GrantFacts, ZenonT(60)
    <3>2. destLease' = [destLease EXCEPT ![f] = AcquiredDest(m, h, f)]
      BY ZenonT(60) DEF OpenAcquire
    <3> QED
      BY ZenonT(60), <3>1, <3>2 DEF IInv, TypeOK
  <2>2. destSeq' \in Nat /\ fileSeq' \in Nat
    <3>1. destSeq' = destSeq + 1 /\ destSeq \in Nat
      BY ZenonT(60) DEF OpenAcquire, IInv, TypeOK
    <3> QED
      BY <1>2, <1>5, <3>1
  <2>3. kept' \subseteq Files
    <3>1. kept' = kept \ {f} /\ kept \subseteq Files
      BY ZenonT(60) DEF OpenAcquire, IInv, TypeOK
    <3> QED
      BY ZenonT(60), <3>1
  <2>4. UNCHANGED <<process, session, lock, content, dirty, beat>>
    BY ZenonT(60) DEF OpenAcquire
  <2>5. /\ process' \in [Mounts -> {"new", "up", "dead"}]
        /\ session' \in [Mounts -> 0..TTL \cup {NoSession}]
        /\ lock' \in [Files -> Owners \cup {Free, Legacy}]
        /\ content' \in [Files -> Nat]
        /\ dirty' \in [Mounts -> SUBSET Handles]
        /\ beat' \in [Mounts -> SUBSET HandleRow]
    BY <2>4, ZenonT(60) DEF IInv, TypeOK
  <2> QED
    BY <1>7, <1>9, <2>1, <2>2, <2>3, <2>5, ZenonT(60) DEF TypeOK
<1> QED
  BY ZenonT(60), <1>7, <1>9, <1>10 DEF IInv

\* An open that fails after its grant leaves the new row or none.
LEMMA OpenRollbackIInv ==
  ASSUME IInv, NEW m \in Mounts, NEW h \in Handles, NEW f \in Files,
         OpenRollback(m, h, f)
  PROVE  IInv'
<1>1. NewHandle(m, h) /\ CanAcquire(m, h, f)
  BY ZenonT(60) DEF OpenRollback
<1>2. AcquiredFile(m, h, f).token = fileSeq + 1 /\ h = nextFh[m] /\ lock[f] = Free
  BY ZenonT(60), <1>1, GrantToken
<1>3. PICK row \in {NoLease, AcquiredFile(m, h, f)} :
        fileLease' = [fileLease EXCEPT ![f] = row]
  BY ZenonT(60) DEF OpenRollback
<1>4. /\ fileSeq' = fileSeq + 1
      /\ granted' = [granted EXCEPT ![f] = fileSeq + 1]
      /\ nextFh' = [nextFh EXCEPT ![m] = @ + 1]
      /\ UNCHANGED <<table, pc, lock>>
  BY ZenonT(60), <1>2 DEF OpenRollback
<1>5. \A g \in Files \ {f} : granted'[g] = granted[g]
  BY ZenonT(60), <1>4 DEF IInv, TypeOK
<1>6. /\ fileLease' \in [Files -> LeaseRow \cup {NoLease}]
      /\ granted' \in [Files -> Nat]
      /\ nextFh' \in [Mounts -> 1..(MaxHandles + 1)]
      /\ FreshOwners' /\ LeaseIsNewest' /\ LegacyExcluded'
  BY <1>1, <1>3, <1>4, Granted, ZenonT(60)
<1>7. PICK none \in HandleRow \cup {NoHandle}, p \in {"idle", "open"} :
        /\ none = NoHandle /\ p = "idle"
        /\ table' = [table EXCEPT ![m][h] = none]
        /\ pc' = [pc EXCEPT ![m][h] = p]
  <2>1. table[m][h] = NoHandle /\ pc[m][h] = "idle"
    BY <1>2 DEF IInv, FreshHandles, InTable, Handles, TypeOK
  <2> QED
    BY SMTT(60), <1>4, <2>1 DEF IInv, TypeOK
<1>8. FreshHandles' /\ RunningIsOpen' /\ LockedInFlight'
  <2>1. UNCHANGED lock /\ nextFh' = [nextFh EXCEPT ![m] = @ + 1]
    BY ZenonT(60), <1>4
  <2> QED
    BY <1>2, <1>5, <1>7, <2>1, HandleEnters, ZenonT(60)
<1>9. TypeOK'
  <2>1. destLease' \in [Files -> LeaseRow \cup {NoLease}]
    <3>1. PICK dest \in {NoLease, AcquiredDest(m, h, f)} :
            destLease' = [destLease EXCEPT ![f] = dest]
      BY ZenonT(60) DEF OpenRollback
    <3>2. dest \in LeaseRow \cup {NoLease}
      BY SMTT(60), <1>1, GrantFacts
    <3> QED
      BY ZenonT(60), <3>1, <3>2 DEF IInv, TypeOK
  <2>2. kept' \subseteq Files
    BY ZenonT(60) DEF OpenRollback, IInv, TypeOK
  <2>3. destSeq' \in Nat /\ fileSeq' \in Nat
    <3>1. destSeq' = destSeq + 1 /\ destSeq \in Nat /\ fileSeq \in Nat
      BY ZenonT(60) DEF OpenRollback, IInv, TypeOK
    <3> QED
      BY <1>4, <3>1
  <2>4. UNCHANGED <<process, session, lock, content, dirty, beat, table, pc>>
    BY ZenonT(60) DEF OpenRollback
  <2>5. /\ process' \in [Mounts -> {"new", "up", "dead"}]
        /\ session' \in [Mounts -> 0..TTL \cup {NoSession}]
        /\ lock' \in [Files -> Owners \cup {Free, Legacy}]
        /\ content' \in [Files -> Nat]
        /\ dirty' \in [Mounts -> SUBSET Handles]
        /\ beat' \in [Mounts -> SUBSET HandleRow]
        /\ table' \in [Mounts -> [Handles -> HandleRow \cup {NoHandle}]]
        /\ pc' \in [Mounts -> [Handles -> CallbackStates]]
    BY <2>4, ZenonT(60) DEF IInv, TypeOK
  <2> QED
    BY <1>6, <2>1, <2>2, <2>3, <2>5, ZenonT(60) DEF TypeOK
<1> QED
  BY ZenonT(60), <1>6, <1>8, <1>9 DEF IInv

\* An open that meets another owner only prunes expired rows.
LEMMA OpenBusyIInv ==
  ASSUME IInv, NEW m \in Mounts, NEW h \in Handles, NEW f \in Files,
         OpenBusy(m, h, f)
  PROVE  IInv'
<1>1. \A g \in Files :
        /\ destLease'[g] \in {destLease[g], NoLease}
        /\ fileLease'[g] \in {fileLease[g], NoLease}
  BY ZenonT(60) DEF OpenBusy, Pruned, IInv, TypeOK
<1>2. /\ destLease' \in [Files -> LeaseRow \cup {NoLease}]
      /\ fileLease' \in [Files -> LeaseRow \cup {NoLease}]
  BY ZenonT(60) DEF OpenBusy, Pruned, IInv, TypeOK
<1>3. TypeOK'
  BY <1>2, ZenonT(60) DEF OpenBusy, IInv, TypeOK, mountVars, history
<1>4. FreshHandles' /\ RunningIsOpen' /\ LockedInFlight'
  BY ZenonT(60) DEF OpenBusy, IInv, FreshHandles, RunningIsOpen, LockedInFlight, InTable, InPersist,
         FileOf, mountVars, history
<1>5. FreshOwners' /\ LeaseIsNewest' /\ LegacyExcluded'
  BY ZenonT(60), <1>1 DEF OpenBusy, IInv, FreshOwners, LeaseIsNewest, LegacyExcluded, Live, mountVars,
              history
<1> QED
  BY ZenonT(60), <1>3, <1>4, <1>5 DEF IInv

\* A further handle copies an entry of the table.
LEMMA OpenShareIInv ==
  ASSUME IInv, NEW m \in Mounts, NEW h \in Handles, NEW f \in Files,
         OpenShare(m, h, f)
  PROVE  IInv'
<1>1. PICK other \in LocalOwnership(m, f) : table' = [table EXCEPT ![m][h] = table[m][other]]
  BY ZenonT(60) DEF OpenShare
<1>2. table[m][other] \in HandleRow /\ table[m][other] # NoHandle
  BY ZenonT(60), HandleFile DEF LocalOwnership, IInv, InTable
<1>3. PICK p \in {"idle", "open"} : pc' = [pc EXCEPT ![m][h] = p]
  BY ZenonT(60) DEF OpenShare, OpenPc
<1>4. /\ h = nextFh[m]
      /\ nextFh' = [nextFh EXCEPT ![m] = @ + 1]
      /\ UNCHANGED <<lock, granted, fileLease, destLease, fileSeq>>
  BY ZenonT(60) DEF OpenShare, NewHandle, dbVars, history
<1>5. /\ table' \in [Mounts -> [Handles -> HandleRow \cup {NoHandle}]]
      /\ pc' \in [Mounts -> [Handles -> CallbackStates]]
      /\ FreshHandles' /\ RunningIsOpen' /\ LockedInFlight'
  BY <1>1, <1>2, <1>3, <1>4, HandleEnters, ZenonT(60)
<1>6. nextFh' \in [Mounts -> 1..(MaxHandles + 1)]
  <2>1. nextFh[m] + 1 \in 1..(MaxHandles + 1)
    BY SMTT(60), <1>4, ConstantsOK DEF Handles
  <2> QED
    BY ZenonT(60), <1>4, <2>1 DEF IInv, TypeOK
<1>7. TypeOK'
  BY ZenonT(60), <1>5, <1>6 DEF OpenShare, IInv, TypeOK, dbVars, history
<1>8. FreshOwners'
  <2> SUFFICES ASSUME NEW g \in Files, fileLease[g] # NoLease
               PROVE  fileLease[g].owner < nextFh'[fileLease[g].mount]
    BY ZenonT(60), <1>4 DEF FreshOwners
  <2>1. fileLease[g].mount \in Mounts /\ fileLease[g].owner \in Nat
    BY SMTT(60), SMTT(60) DEF IInv, TypeOK, LeaseRow, Handles
  <2>2. fileLease[g].owner < nextFh[fileLease[g].mount]
    BY ZenonT(60) DEF IInv, FreshOwners
  <2> QED
    BY SMTT(60), <1>4, <2>1, <2>2 DEF IInv, TypeOK
<1>9. LeaseIsNewest' /\ LegacyExcluded'
  BY ZenonT(60), <1>4 DEF IInv, LeaseIsNewest, LegacyExcluded, Live
<1> QED
  BY ZenonT(60), <1>5, <1>7, <1>8, <1>9 DEF IInv

\* Steps of a callback that move its pc and touch nothing of the database.
LEMMA CallbackStepIInv ==
  ASSUME IInv, NEW m \in Mounts, NEW h \in Handles,
         \/ FlushStart(m, h)
         \/ ReleaseStart(m, h)
         \/ PersistReject(m, h)
         \/ ReleaseShared(m, h)
         \/ ReleaseFails(m, h)
  PROVE  IInv'
<1>1. PICK p \in CallbackStates \ PersistStates :
        pc' = [pc EXCEPT ![m][h] = p]
  BY ZenonT(60) DEF CallbackStates, PersistStates, FlushStart, ReleaseStart, PersistReject, Fail,
         ReleaseShared, ReleaseFails
<1>2. InTable(m, h)
  BY ZenonT(60) DEF IInv, RunningIsOpen, FlushStart, ReleaseStart, PersistReject, MustPersist,
         ReleaseShared, ReleaseFails
<1>3. /\ UNCHANGED <<process, session, dbVars, lock, content, table, nextFh, dirty, beat>>
      /\ UNCHANGED granted
  BY ZenonT(60) DEF FlushStart, ReleaseStart, PersistReject, ReleaseShared, ReleaseFails, history
<1>4. kept' \in {kept, kept \cup {FileOf(m, h)}}
  BY ZenonT(60) DEF FlushStart, ReleaseStart, PersistReject, Fail, ReleaseShared, ReleaseFails,
         KeptBy, FileOf, history
<1>5. /\ pc' \in [Mounts -> [Handles -> CallbackStates]]
      /\ FreshHandles' /\ RunningIsOpen' /\ LockedInFlight'
  BY <1>1, <1>2, <1>3, CallbackMoves, ZenonT(60)
<1>6. TypeOK'
  <2>1. FileOf(m, h) \in Files
    BY Zenon, <1>2, HandleFile DEF IInv
  <2> QED
    BY ZenonT(60), <1>3, <1>4, <1>5, <2>1 DEF IInv, TypeOK, dbVars
<1>7. FreshOwners' /\ LeaseIsNewest' /\ LegacyExcluded'
  BY <1>3, ZenonT(60) DEF IInv, FreshOwners, LeaseIsNewest, LegacyExcluded, Live, dbVars
<1> QED
  BY ZenonT(60), <1>5, <1>6, <1>7 DEF IInv

\* A write marks the handle dirty, and may go on to persist.
LEMMA WriteIInv ==
  ASSUME IInv, NEW m \in Mounts, NEW h \in Handles, Write(m, h)
  PROVE  IInv'
<1>1. PICK p \in {"idle", "write"} : pc' = [pc EXCEPT ![m][h] = p]
  BY ZenonT(60) DEF Write, IInv, TypeOK
<1>2. InTable(m, h) /\ p \in CallbackStates \ PersistStates
  BY ZenonT(60) DEF Write, CallbackStates, PersistStates
<1>3. /\ dirty' = [dirty EXCEPT ![m] = @ \cup {h}]
      /\ UNCHANGED <<process, session, dbVars, lock, content, table, nextFh, beat, history>>
  BY ZenonT(60) DEF Write
<1>4. /\ pc' \in [Mounts -> [Handles -> CallbackStates]]
      /\ FreshHandles' /\ RunningIsOpen' /\ LockedInFlight'
  BY <1>1, <1>2, <1>3, CallbackMoves, ZenonT(60) DEF history
<1>5. dirty' \in [Mounts -> SUBSET Handles]
  BY ZenonT(60), <1>3 DEF IInv, TypeOK
<1>6. TypeOK'
  BY ZenonT(60), <1>3, <1>4, <1>5 DEF IInv, TypeOK, dbVars, history
<1>7. FreshOwners' /\ LeaseIsNewest' /\ LegacyExcluded'
  BY <1>3, ZenonT(60) DEF IInv, FreshOwners, LeaseIsNewest, LegacyExcluded, Live, dbVars, history
<1> QED
  BY ZenonT(60), <1>4, <1>6, <1>7 DEF IInv

\* A transaction that validates its fence takes the lock with the newest token.
LEMMA PersistBeginIInv ==
  ASSUME IInv, NEW m \in Mounts, NEW h \in Handles, PersistBegin(m, h)
  PROVE  IInv'
<1> DEFINE f == FileOf(m, h)
<1>1. PICK p \in PersistStates : pc' = [pc EXCEPT ![m][h] = p]
  BY ZenonT(60) DEF PersistBegin, PersistStates
<1>2. /\ lock[f] = Free
      /\ lock' = [lock EXCEPT ![f] = <<m, h>>]
      /\ UNCHANGED <<process, session, dbVars, content, table, nextFh, dirty, beat, history>>
  BY ZenonT(60) DEF PersistBegin
<1>3. InTable(m, h)
  BY ZenonT(60) DEF PersistBegin, MustPersist, IInv, RunningIsOpen
<1>4. f \in Files
  BY ZenonT(60), <1>3, HandleFile DEF IInv
<1>5. Live(fileLease[f]) /\ fileLease[f] # NoLease /\ table[m][h].ftok = granted[f]
  BY ZenonT(60), <1>4 DEF PersistBegin, FenceValid, Matches, FileOf, Live, IInv, LeaseIsNewest
<1>6. \A n \in Mounts, g \in Handles :
        pc'[n][g] = IF n = m /\ g = h THEN p ELSE pc[n][g]
  BY ZenonT(60), <1>1 DEF IInv, TypeOK
<1>7. TypeOK'
  <2>1. pc' \in [Mounts -> [Handles -> CallbackStates]]
    BY ZenonT(60), <1>1 DEF IInv, TypeOK, CallbackStates, PersistStates
  <2>2. lock' \in [Files -> Owners \cup {Free, Legacy}]
    BY <1>2, ZenonT(60) DEF IInv, TypeOK, Owners
  <2> QED
    BY ZenonT(60), <1>2, <2>1, <2>2 DEF IInv, TypeOK, dbVars, history
<1>8. FreshHandles'
  BY ZenonT(60), <1>2, <1>3, <1>6 DEF IInv, FreshHandles, InTable
<1>9. RunningIsOpen'
  BY ZenonT(60), <1>2, <1>3, <1>6 DEF IInv, RunningIsOpen, InTable
<1>10. LockedInFlight'
  <2> SUFFICES ASSUME NEW n \in Mounts, NEW g \in Handles, InPersist(n, g)'
               PROVE  /\ lock'[FileOf(n, g)] = <<n, g>>
                      /\ table[n][g].ftok = granted[FileOf(n, g)]
    BY ZenonT(60), <1>2 DEF LockedInFlight, FileOf, history
  <2>1. CASE n = m /\ g = h
    BY <1>2, <1>4, <1>5, <2>1, ZenonT(60) DEF IInv, TypeOK
  <2>2. CASE ~(n = m /\ g = h)
    <3>1. InPersist(n, g)
      BY ZenonT(60), <1>6, <2>2 DEF InPersist, PersistStates
    <3>2. FileOf(n, g) # f /\ lock'[FileOf(n, g)] = lock[FileOf(n, g)]
      BY <1>2, <3>1, InFlight, ZenonT(60) DEF IInv, TypeOK
    <3> QED
      BY ZenonT(60), <3>1, <3>2, InFlight
  <2> QED
    BY ZenonT(60), <2>1, <2>2
<1>11. FreshOwners' /\ LeaseIsNewest'
  BY <1>2, ZenonT(60) DEF IInv, FreshOwners, LeaseIsNewest, dbVars, history
<1>12. LegacyExcluded'
  <2>1. \A g \in Files : lock'[g] = Legacy => lock[g] = Legacy
    BY ZenonT(60), <1>2, <1>4, LockTuples DEF IInv, TypeOK
  <2> QED
    BY <1>2, <2>1, ZenonT(60) DEF IInv, LegacyExcluded, Live, dbVars
<1> QED
  BY ZenonT(60), <1>7, <1>8, <1>9, <1>10, <1>11, <1>12 DEF IInv

\* The transaction commits, commits without an acknowledgement, or rolls back.
LEMMA PersistEndIInv ==
  ASSUME IInv, NEW m \in Mounts, NEW h \in Handles,
         PersistCommit(m, h) \/ PersistCommitLost(m, h) \/ PersistAbort(m, h)
  PROVE  IInv'
<1>1. InPersist(m, h) /\ Unlock(FileOf(m, h))
  BY ZenonT(60) DEF PersistCommit, PersistCommitLost, PersistAbort
<1>2. PICK p \in CallbackStates \ PersistStates :
        /\ pc' = [pc EXCEPT ![m][h] = p]
        /\ \/ UNCHANGED table
           \/ p = "idle" /\ table' = [table EXCEPT ![m][h] = NoHandle]
  <2>1. CASE PersistCommit(m, h)
    BY Zenon, <2>1 DEF PersistCommit, Acknowledge, Forget, CallbackStates, PersistStates
  <2>2. CASE PersistCommitLost(m, h)
    BY <2>2, ZenonT(60) DEF PersistCommitLost, CallbackStates, PersistStates
  <2>3. CASE PersistAbort(m, h)
    BY ZenonT(60), <2>3 DEF PersistAbort, Fail, Forget, CallbackStates, PersistStates
  <2> QED
    BY <2>1, <2>2, <2>3, ZenonT(60)
<1>3. UNCHANGED <<process, session, destLease, fileLease, destSeq, fileSeq, nextFh,
                  beat, granted>>
  BY ZenonT(60) DEF PersistCommit, PersistCommitLost, PersistAbort, dbVars, history
<1>4. /\ pc' \in [Mounts -> [Handles -> CallbackStates]]
      /\ table' \in [Mounts -> [Handles -> HandleRow \cup {NoHandle}]]
      /\ lock' \in [Files -> Owners \cup {Free, Legacy}]
      /\ FreshHandles' /\ RunningIsOpen' /\ LockedInFlight'
  BY <1>1, <1>2, <1>3, TransactionEnds, ZenonT(60)
<1>5. FileOf(m, h) \in Files /\ table[m][h].ftok \in Nat
  BY ZenonT(60), <1>1, InFlight, HandleFile DEF IInv
<1>6. content' \in [Files -> Nat]
  BY ZenonT(60), <1>5 DEF PersistCommit, PersistCommitLost, PersistAbort, IInv, TypeOK
<1>7. dirty' \in [Mounts -> SUBSET Handles]
  <2>1. CASE Acknowledge(m, h)
    <3>1. /\ dirty' = dirty \/ dirty' = [dirty EXCEPT ![m] = dirty'[m]]
          /\ dirty'[m] \subseteq dirty[m]
      BY <2>1 DEF Acknowledge, IInv, TypeOK
    <3> QED
      BY <3>1, ZenonT(60) DEF IInv, TypeOK
  <2>2. CASE dirty' = dirty
    BY ZenonT(60), <2>2 DEF IInv, TypeOK
  <2>3. CASE dirty' = [dirty EXCEPT ![m] = @ \ {h}]
    BY ZenonT(60), <2>3 DEF IInv, TypeOK
  <2>4. \/ Acknowledge(m, h)
        \/ dirty' = dirty
        \/ dirty' = [dirty EXCEPT ![m] = @ \ {h}]
    <3>1. CASE PersistCommit(m, h)
      BY ZenonT(60), <3>1 DEF PersistCommit, Forget
    <3>2. CASE PersistCommitLost(m, h)
      BY ZenonT(60), <3>2 DEF PersistCommitLost
    <3>3. CASE PersistAbort(m, h)
      BY ZenonT(60), <3>3 DEF PersistAbort, Forget
    <3> QED
      BY ZenonT(60), <3>1, <3>2, <3>3
  <2> QED
    BY ZenonT(60), <2>1, <2>2, <2>3, <2>4
<1>8. kept' \subseteq Files
  BY <1>5 DEF PersistCommit, PersistCommitLost, PersistAbort, Fail, KeptBy, FileOf, IInv,
              TypeOK, history
<1>9. TypeOK'
  BY <1>3, <1>4, <1>6, <1>7, <1>8, ZenonT(60) DEF IInv, TypeOK
<1>10. FreshOwners' /\ LeaseIsNewest'
  BY <1>3, ZenonT(60) DEF IInv, FreshOwners, LeaseIsNewest
<1>11. LegacyExcluded'
  <2>1. \A g \in Files : lock'[g] = Legacy => lock[g] = Legacy
    BY ZenonT(60), <1>1, <1>5, ConstantsOK DEF Unlock, IInv, TypeOK
  <2> QED
    BY <1>3, <2>1, ZenonT(60) DEF IInv, LegacyExcluded, Live
<1> QED
  BY ZenonT(60), <1>4, <1>9, <1>10, <1>11 DEF IInv

\* release_write_ownership only deletes rows.
LEMMA ReleaseOwnershipIInv ==
  ASSUME IInv, NEW m \in Mounts, NEW h \in Handles, ReleaseOwnership(m, h)
  PROVE  IInv'
<1>1. pc' = [pc EXCEPT ![m][h] = "returned"]
  BY ZenonT(60) DEF ReleaseOwnership
<1>2. InTable(m, h)
  BY ZenonT(60) DEF IInv, RunningIsOpen, ReleaseOwnership
<1>3. UNCHANGED <<process, session, destSeq, fileSeq, lock, content, table, nextFh, dirty,
                  beat, granted, kept>>
  BY ZenonT(60) DEF ReleaseOwnership, history
<1>4. /\ pc' \in [Mounts -> [Handles -> CallbackStates]]
      /\ FreshHandles' /\ RunningIsOpen' /\ LockedInFlight'
  <2>1. "returned" \in CallbackStates \ PersistStates
    BY ZenonT(60) DEF CallbackStates, PersistStates
  <2> QED
    BY <1>1, <1>2, <1>3, <2>1, CallbackMoves, ZenonT(60)
<1>5. \A f \in Files :
        /\ destLease'[f] \in {destLease[f], NoLease}
        /\ fileLease'[f] \in {fileLease[f], NoLease}
  BY Zenon DEF ReleaseOwnership, IInv, TypeOK
<1>6. /\ destLease' \in [Files -> LeaseRow \cup {NoLease}]
      /\ fileLease' \in [Files -> LeaseRow \cup {NoLease}]
  BY ZenonT(60) DEF ReleaseOwnership, IInv, TypeOK
<1>7. TypeOK'
  BY ZenonT(60), <1>3, <1>4, <1>6 DEF IInv, TypeOK
<1>8. FreshOwners' /\ LeaseIsNewest' /\ LegacyExcluded'
  BY <1>3, <1>5, ZenonT(60) DEF IInv, FreshOwners, LeaseIsNewest, LegacyExcluded, Live
<1> QED
  BY ZenonT(60), <1>4, <1>7, <1>8 DEF IInv

\* A handle leaves the table when no transaction of it is in progress.
LEMMA RemoveHandleIInv ==
  ASSUME IInv, NEW m \in Mounts, NEW h \in Handles, RemoveHandle(m, h)
  PROVE  IInv'
<1>1. /\ table' = [table EXCEPT ![m][h] = NoHandle]
      /\ pc' = [pc EXCEPT ![m][h] = "idle"]
      /\ dirty' = [dirty EXCEPT ![m] = @ \ {h}]
      /\ UNCHANGED <<process, session, dbVars, lock, content, nextFh, beat, history>>
  BY ZenonT(60) DEF RemoveHandle, Forget
<1>2. \A n \in Mounts, g \in Handles :
        \/ table'[n][g] = table[n][g] /\ pc'[n][g] = pc[n][g]
        \/ table'[n][g] = NoHandle /\ pc'[n][g] = "idle"
  BY <1>1, ZenonT(60) DEF IInv, TypeOK
<1>3. TypeOK'
  <2>1. table' \in [Mounts -> [Handles -> HandleRow \cup {NoHandle}]]
    BY ZenonT(60), <1>1 DEF IInv, TypeOK
  <2>2. pc' \in [Mounts -> [Handles -> CallbackStates]]
    BY ZenonT(60), <1>1 DEF IInv, TypeOK, CallbackStates, PersistStates
  <2>3. dirty' \in [Mounts -> SUBSET Handles]
    BY ZenonT(60), <1>1 DEF IInv, TypeOK
  <2> QED
    BY <1>1, <2>1, <2>2, <2>3, ZenonT(60) DEF IInv, TypeOK, dbVars, history
<1>4. FreshHandles' /\ RunningIsOpen'
  BY SMTT(60), <1>1, <1>2, SMTT(60) DEF IInv, FreshHandles, RunningIsOpen, InTable
<1>5. LockedInFlight'
  <2> SUFFICES ASSUME NEW n \in Mounts, NEW g \in Handles, InPersist(n, g)'
               PROVE  /\ lock'[FileOf(n, g)'] = <<n, g>>
                      /\ table'[n][g].ftok = granted'[FileOf(n, g)']
    BY ZenonT(60) DEF LockedInFlight
  <2>1. InPersist(n, g) /\ table'[n][g] = table[n][g]
    BY ZenonT(60), <1>2 DEF InPersist, PersistStates
  <2> QED
    BY ZenonT(60), <1>1, <2>1, InFlight DEF FileOf, history
<1>6. FreshOwners' /\ LeaseIsNewest' /\ LegacyExcluded'
  BY ZenonT(60), <1>1 DEF IInv, FreshOwners, LeaseIsNewest, LegacyExcluded, Live, dbVars, history
<1> QED
  BY ZenonT(60), <1>3, <1>4, <1>5, <1>6 DEF IInv

\* An unfenced caller takes the lock, commits or rolls back.
LEMMA LegacyIInv ==
  ASSUME IInv, NEW f \in Files, LegacyNext(f)
  PROVE  IInv'
<1> USE DEF LegacyNext, LegacyBegin, LegacyCommit, LegacyAbort, Unlock
<1>1. PICK x \in {Free, Legacy} : lock' = [lock EXCEPT ![f] = x]
  OBVIOUS
<1>2. UNCHANGED <<process, session, dbVars, mountVars, history>> /\ lock[f] \in {Free, Legacy}
  OBVIOUS
<1>3. LockedInFlight'
  BY <1>1, <1>2, LegacyLock, ZenonT(60) DEF mountVars, history
<1>4. TypeOK'
  <2>1. content' \in [Files -> Nat]
    BY DEF IInv, TypeOK
  <2>2. lock' \in [Files -> Owners \cup {Free, Legacy}]
    BY <1>1, ZenonT(60) DEF IInv, TypeOK
  <2> QED
    BY ZenonT(60), <1>2, <2>1, <2>2 DEF IInv, TypeOK, dbVars, mountVars, history
<1>5. FreshHandles' /\ FreshOwners' /\ LeaseIsNewest' /\ RunningIsOpen'
  BY ZenonT(60), <1>2 DEF IInv, FreshHandles, FreshOwners, LeaseIsNewest, RunningIsOpen, InTable, dbVars,
              mountVars, history
<1>6. LegacyExcluded'
  BY ZenonT(60), <1>2, ConstantsOK DEF IInv, TypeOK, LegacyExcluded, Live, dbVars
<1> QED
  BY <1>3, <1>4, <1>5, <1>6, ZenonT(60) DEF IInv

\* Every step preserves the invariant.
THEOREM NextIInv == IInv /\ [Next]_vars => IInv'
<1> SUFFICES ASSUME IInv, [Next]_vars PROVE IInv'
  BY ZenonT(60)
<1>1. CASE UNCHANGED vars
  BY ZenonT(60), <1>1 DEF vars, IInv, TypeOK, FreshHandles, FreshOwners, LeaseIsNewest, RunningIsOpen,
              LockedInFlight, LegacyExcluded, InTable, InPersist, FileOf, Live
<1>2. CASE Tick \/ PruneSessions
  BY ZenonT(60), <1>2, TickIInv, PruneSessionsIInv
<1>3. ASSUME NEW m \in Mounts, MountNext(m) PROVE IInv'
  BY ZenonT(60), <1>3, SessionIInv, CrashIInv, HeartbeatCollectIInv, HeartbeatOwnershipIInv
     DEF MountNext
<1>4. ASSUME NEW m \in Mounts, NEW h \in Handles, NEW f \in Files, OpenNext(m, h, f)
      PROVE  IInv'
  BY ZenonT(60), <1>4, OpenAcquireIInv, OpenRollbackIInv, OpenBusyIInv, OpenShareIInv DEF OpenNext
<1>5. ASSUME NEW m \in Mounts, NEW h \in Handles, HandleNext(m, h) PROVE IInv'
  BY ZenonT(60), <1>5, WriteIInv, CallbackStepIInv, PersistBeginIInv, PersistEndIInv,
     ReleaseOwnershipIInv, RemoveHandleIInv DEF HandleNext
<1>6. ASSUME NEW f \in Files, LegacyNext(f) PROVE IInv'
  BY ZenonT(60), <1>6, LegacyIInv
<1> QED
  BY ZenonT(60), <1>1, <1>2, <1>3, <1>4, <1>5, <1>6 DEF Next

-----------------------------------------------------------------------------
(* The theorems *)

\* The invariant holds throughout every behaviour of the protocol.
THEOREM Invariance == Spec => []IInv
<1>1. Init => IInv
  BY ZenonT(60), InitIInv
<1>2. IInv /\ [Next]_vars => IInv'
  BY ZenonT(60), NextIInv
<1> QED
  BY <1>1, <1>2, PTL DEF Spec

\* Type correctness.
THEOREM TypeCorrect == Spec => []TypeOK
<1>1. IInv => TypeOK
  BY ZenonT(60) DEF IInv
<1> QED
  BY <1>1, Invariance, PTL

\* Takeover waits for the transaction in progress: whatever expires, is pruned or
\* crashes, a validated persist keeps the newest token of its file until it ends.
THEOREM TakeoverWaits == Spec => []InFlightIsCurrent
<1>1. IInv => InFlightIsCurrent
  BY ZenonT(60) DEF IInv, LockedInFlight, InFlightIsCurrent
<1> QED
  BY <1>1, Invariance, PTL

\* An unfenced writer never overlaps an owner.
THEOREM UnfencedExcluded == Spec => []LegacyExcluded
<1>1. IInv => LegacyExcluded
  BY ZenonT(60) DEF IInv
<1> QED
  BY <1>1, Invariance, PTL

-----------------------------------------------------------------------------
(* WriteOwnership implements FencedFile. *)

Held == {f \in Files : Live(fileLease[f])}

\* A step that moves no grant and no content, and makes no lease live, is a lapse
\* of ownership or no step at all.
LEMMA LapseStep ==
  ASSUME UNCHANGED <<granted, content>>,
         \A f \in Files : Live(fileLease[f])' => Live(fileLease[f])
  PROVE  [Abs!Next]_(Abs!absVars)
<1>1. Held' \subseteq Held
  BY ZenonT(60) DEF Held
<1>2. CASE Held' = Held
  BY <1>2, ZenonT(60) DEF Held, Abs!absVars
<1>3. CASE Held' # Held
  BY Zenon, <1>1, <1>3 DEF Held, Abs!Next, Abs!Lapse
<1> QED
  BY ZenonT(60), <1>2, <1>3

\* A grant raises the epoch of a file nobody holds.
LEMMA GrantStep ==
  ASSUME IInv, NEW m \in Mounts, NEW h \in Handles, NEW f \in Files,
         NewHandle(m, h), CanAcquire(m, h, f),
         NEW row, row = NoLease \/ row = AcquiredFile(m, h, f),
         fileLease' = [fileLease EXCEPT ![f] = row],
         granted' = [granted EXCEPT ![f] = fileSeq + 1],
         UNCHANGED content
  PROVE  Abs!Next
<1>1. f \notin Held
  BY ZenonT(60), GrantFacts DEF Held
<1>2. granted' = [granted EXCEPT ![f] = granted'[f]] /\ granted'[f] > granted[f]
  <2>1. /\ granted'[f] = fileSeq + 1 /\ granted[f] <= fileSeq
        /\ granted[f] \in Nat /\ fileSeq \in Nat
    BY ZenonT(60) DEF IInv, TypeOK, LeaseIsNewest
  <2>2. granted' = [granted EXCEPT ![f] = granted'[f]]
    BY <2>1, ZenonT(60)
  <2> QED
    BY <2>1, <2>2
<1>3. \A g \in Files \ {f} : Live(fileLease[g])' = Live(fileLease[g])
  BY ZenonT(60) DEF IInv, TypeOK, Live
<1>4. fileLease'[f] = row
  BY ZenonT(60) DEF IInv, TypeOK
<1>5. Held' = Held \/ Held' = Held \cup {f}
  <2>1. CASE Live(fileLease[f])'
    BY ZenonT(60), <1>3, <2>1 DEF Held
  <2>2. CASE ~Live(fileLease[f])'
    BY ZenonT(60), <1>1, <1>3, <2>2 DEF Held
  <2> QED
    BY ZenonT(60), <2>1, <2>2
<1> QED
  BY <1>1, <1>2, <1>5, ZenonT(60) DEF Held, Abs!Next, Abs!Grant

\* The content is replaced by the newest owner.
LEMMA OwnerStep ==
  ASSUME IInv, NEW m \in Mounts, NEW h \in Handles, InPersist(m, h),
         content' = [content EXCEPT ![FileOf(m, h)] = table[m][h].ftok],
         UNCHANGED <<granted, fileLease>>
  PROVE  Abs!Next
<1>1. /\ FileOf(m, h) \in Files
      /\ granted[FileOf(m, h)] > 0
      /\ content' = [content EXCEPT ![FileOf(m, h)] = granted[FileOf(m, h)]]
  BY InFlight, ZenonT(60)
<1>2. Held' = Held
  BY ZenonT(60) DEF Held, Live
<1> QED
  BY <1>1, <1>2, ZenonT(60) DEF Held, Abs!Next, Abs!OwnerWrite

\* Every step of the protocol is a step of FencedFile or changes nothing it sees.
LEMMA StepRefines ==
  ASSUME IInv, [Next]_vars
  PROVE  [Abs!Next]_(Abs!absVars)
<1>1. CASE UNCHANGED <<granted, content, fileLease>>
  BY ZenonT(60), <1>1, LapseStep DEF Live
<1>2. CASE UNCHANGED vars
  BY ZenonT(60), <1>1, <1>2 DEF vars
<1>3. CASE Tick
  <2>1. \A f \in Files : Live(fileLease[f])' => Live(fileLease[f])
    <3> SUFFICES ASSUME NEW f \in Files, Live(fileLease[f])' PROVE Live(fileLease[f])
      OBVIOUS
    <3>1. CASE fileLease[f] = NoLease
      BY ZenonT(60), <1>3, <3>1 DEF Tick, Live
    <3>2. CASE fileLease[f] # NoLease
      <4>1. fileLease[f] \in LeaseRow
        BY ZenonT(60), <3>2 DEF IInv, TypeOK
      <4>2. fileLease'[f].left = Older(fileLease[f].left)
        BY ZenonT(60), <1>3, <3>2, <4>1 DEF Tick, LeaseRow
      <4> QED
        BY <3>2, <4>1, <4>2 DEF Live, Older, LeaseRow
    <3> QED
      BY ZenonT(60), <3>1, <3>2
  <2> QED
    BY ZenonT(60), <1>3, <2>1, LapseStep DEF Tick, history
<1>4. CASE PruneSessions
  BY ZenonT(60), <1>4, LapseStep DEF PruneSessions, Live, history
<1>5. ASSUME NEW m \in Mounts, MountNext(m) PROVE [Abs!Next]_(Abs!absVars)
  <2>1. CASE Register(m) \/ HeartbeatSession(m) \/ Crash(m) \/ HeartbeatCollect(m)
    BY ZenonT(60), <1>1, <2>1 DEF Register, HeartbeatSession, Crash, HeartbeatCollect, dbVars, history
  <2>2. CASE HeartbeatOwnership(m)
    <3>1. \A f \in Files : Live(fileLease[f])' => Live(fileLease[f])
      <4> SUFFICES ASSUME NEW f \in Files, fileLease'[f] # fileLease[f]
                   PROVE  Live(fileLease[f])
        BY ZenonT(60) DEF Live
      <4> QED
        BY ZenonT(60), <2>2 DEF HeartbeatOwnership, Renewable, IInv, TypeOK
    <3> QED
      BY ZenonT(60), <2>2, <3>1, LapseStep DEF HeartbeatOwnership, history
  <2> QED
    BY ZenonT(60), <1>5, <2>1, <2>2 DEF MountNext
<1>6. ASSUME NEW m \in Mounts, NEW h \in Handles, NEW f \in Files, OpenNext(m, h, f)
      PROVE  [Abs!Next]_(Abs!absVars)
  <2>1. CASE OpenAcquire(m, h, f)
    <3>1. NewHandle(m, h) /\ CanAcquire(m, h, f)
      BY ZenonT(60), <2>1 DEF OpenAcquire
    <3>0. AcquiredFile(m, h, f).token = fileSeq + 1
      BY SMTT(60), <3>1, GrantFacts
    <3>2. /\ fileLease' = [fileLease EXCEPT ![f] = AcquiredFile(m, h, f)]
          /\ granted' = [granted EXCEPT ![f] = fileSeq + 1]
          /\ UNCHANGED content
      BY ZenonT(60), <2>1, <3>0 DEF OpenAcquire
    <3> QED
      BY <3>1, <3>2, GrantStep, ZenonT(60)
  <2>2. CASE OpenRollback(m, h, f)
    <3>1. NewHandle(m, h) /\ CanAcquire(m, h, f)
      BY ZenonT(60), <2>2 DEF OpenRollback
    <3>0. AcquiredFile(m, h, f).token = fileSeq + 1
      BY <3>1, GrantFacts
    <3>2. granted' = [granted EXCEPT ![f] = fileSeq + 1] /\ UNCHANGED content
      BY ZenonT(60), <2>2, <3>0 DEF OpenRollback
    <3>3. PICK row \in {NoLease, AcquiredFile(m, h, f)} :
            fileLease' = [fileLease EXCEPT ![f] = row]
      BY ZenonT(60), <2>2 DEF OpenRollback
    <3> QED
      BY <3>1, <3>2, <3>3, GrantStep, ZenonT(60)
  <2>3. CASE OpenBusy(m, h, f)
    BY ZenonT(60), <2>3, LapseStep DEF OpenBusy, Pruned, Live, history, IInv, TypeOK
  <2>4. CASE OpenShare(m, h, f)
    BY ZenonT(60), <1>1, <2>4 DEF OpenShare, dbVars, history
  <2> QED
    BY ZenonT(60), <1>6, <2>1, <2>2, <2>3, <2>4 DEF OpenNext
<1>7. ASSUME NEW m \in Mounts, NEW h \in Handles, HandleNext(m, h)
      PROVE  [Abs!Next]_(Abs!absVars)
  <2>1. CASE Write(m, h) \/ FlushStart(m, h) \/ ReleaseStart(m, h)
    BY ZenonT(60), <1>1, <2>1 DEF Write, FlushStart, ReleaseStart, dbVars, history
  <2>2. CASE PersistBegin(m, h) \/ PersistReject(m, h) \/ PersistAbort(m, h)
    BY ZenonT(60), <1>1, <2>2 DEF PersistBegin, PersistReject, PersistAbort, dbVars, history
  <2>3. CASE PersistCommit(m, h) \/ PersistCommitLost(m, h)
    BY ZenonT(60), <2>3, OwnerStep DEF PersistCommit, PersistCommitLost, dbVars, history
  <2>4. CASE ReleaseShared(m, h) \/ ReleaseFails(m, h) \/ RemoveHandle(m, h)
    BY <1>1, <2>4, ZenonT(60) DEF ReleaseShared, ReleaseFails, RemoveHandle, dbVars, history
  <2>5. CASE ReleaseOwnership(m, h)
    <3>1. \A f \in Files : fileLease'[f] \in {fileLease[f], NoLease}
      BY <2>5, ZenonT(60) DEF ReleaseOwnership, IInv, TypeOK
    <3> QED
      BY <2>5, <3>1, LapseStep, ZenonT(60) DEF ReleaseOwnership, Live, history
  <2> QED
    BY <1>7, <2>1, <2>2, <2>3, <2>4, <2>5, ZenonT(60) DEF HandleNext
<1>8. ASSUME NEW f \in Files, LegacyNext(f) PROVE [Abs!Next]_(Abs!absVars)
  <2>1. CASE LegacyBegin(f) \/ LegacyAbort(f)
    BY <1>1, <2>1, ZenonT(60) DEF LegacyBegin, LegacyAbort, dbVars, history
  <2>2. CASE LegacyCommit(f)
    <3>1. f \notin Held
      BY ZenonT(60), <2>2 DEF LegacyCommit, IInv, LegacyExcluded, Held
    <3>2. Held' = Held
      BY ZenonT(60), <2>2 DEF LegacyCommit, Held, Live, dbVars
    <3> QED
      BY <2>2, <3>1, <3>2, ZenonT(60) DEF LegacyCommit, Held, Abs!Next, Abs!LegacyWrite, history
  <2> QED
    BY ZenonT(60), <1>8, <2>1, <2>2 DEF LegacyNext
<1> QED
  BY <1>2, <1>3, <1>4, <1>5, <1>6, <1>7, <1>8, ZenonT(60) DEF Next

\* The whole protocol of sessions, leases, transactions and callbacks implements
\* FencedFile: exclusive grants under ever higher tokens, no ownership that comes
\* back, and content replaced by the newest owner only.
THEOREM Refinement == Spec => FencedContent
<1>1. Init => Abs!Init
  BY ZenonT(60) DEF Init, Abs!Init, Live
<1>2. IInv /\ [Next]_vars => [Abs!Next]_(Abs!absVars)
  BY ZenonT(60), StepRefines
<1> QED
  BY <1>1, <1>2, Invariance, PTL DEF Spec, FencedContent, Abs!Spec

-----------------------------------------------------------------------------
(* With one event-loop thread a release is exact. *)

\* A mount runs one callback at a time.
OneCallback ==
  \A m \in Mounts, h \in Handles, g \in Handles :
    pc[m][h] # "idle" /\ pc[m][g] # "idle" => h = g

\* The owner of an ownership is a handle number that the mount has drawn.
OwnersDrawn ==
  \A m \in Mounts, h \in Handles : InTable(m, h) => table[m][h].owner < nextFh[m]

\* Handles that share an owner share the file and the tokens too.
OneOwnership ==
  \A m \in Mounts, h \in Handles, g \in Handles :
    InTable(m, h) /\ InTable(m, g) /\ table[m][h].owner = table[m][g].owner
      => table[m][h] = table[m][g]

\* A mount that has not started owns nothing.
LeaseOfStarted ==
  \A f \in Files : fileLease[f] # NoLease => process[fileLease[f].mount] # "new"

\* An open handle carries the row of a file and is not being taken away.
Keeps(m, h, f) ==
  /\ InTable(m, h)
  /\ FileOf(m, h) = f
  /\ pc[m][h] \notin {"returned", "remove"}
  /\ Matches(fileLease[f], m, table[m][h].owner, table[m][h].ftok)

\* The live lease of a mount that is up has a handle that keeps it, unless it is
\* left to expire.
LeaseCarried ==
  \A f \in Files :
    LET row == fileLease[f] IN
    Live(row) /\ process[row.mount] = "up" =>
      f \in kept \/ \E h \in Handles : Keeps(row.mount, h, f)

\* What ReleaseExact needs besides IInv: LeaseHasHandle counts a handle whose
\* release has passed the point of no return, so that the step that removes it
\* would break the property; LeaseCarried does not, and rests on the single
\* thread for the handle that a shared ownership is left to.
RInv ==
  /\ OneCallback
  /\ OwnersDrawn
  /\ OneOwnership
  /\ LeaseOfStarted
  /\ LeaseCarried
  /\ ReturnedNotShared

\* The single thread is free only while no callback runs.
LEMMA ThreadIdle ==
  ASSUME EventThreads = 1, NEW m \in Mounts, ThreadFree(m)
  PROVE  \A h \in Handles : pc[m][h] = "idle"
<1>1. IsFiniteSet(Handles)
  BY ConstantsOK, FS_Interval DEF Handles
<1>2. IsFiniteSet(Running(m))
  BY ZenonT(60), <1>1, FS_Subset DEF Running
<1>3. Cardinality(Running(m)) \in Nat
  BY ZenonT(60), <1>2, FS_CardinalityType
<1>4. Cardinality(Running(m)) = 0
  BY <1>3 DEF ThreadFree
<1>5. Running(m) = {}
  BY ZenonT(60), <1>2, <1>4, FS_EmptySet
<1> QED
  BY ZenonT(60), <1>5 DEF Running

\* A step inserts no row and changes no owner and no token, and no row comes to
\* life again.
RowsKept ==
  \A f \in Files :
    /\ fileLease'[f] # NoLease =>
         /\ fileLease[f] # NoLease
         /\ fileLease'[f].mount = fileLease[f].mount
         /\ fileLease'[f].owner = fileLease[f].owner
         /\ fileLease'[f].token = fileLease[f].token
    /\ Live(fileLease'[f]) => Live(fileLease[f])

\* A step that only ages, renews or deletes rows.
LEMMA RowsStep ==
  ASSUME RInv, UNCHANGED <<process, table, pc, nextFh>>, kept \subseteq kept',
         RowsKept
  PROVE  RInv'
<1>1. OneCallback' /\ OwnersDrawn' /\ OneOwnership' /\ ReturnedNotShared'
  BY DEF RInv, OneCallback, OwnersDrawn, OneOwnership, ReturnedNotShared, SharedLocally,
         InTable
<1>2. LeaseOfStarted'
  BY ZenonT(60) DEF RInv, LeaseOfStarted, RowsKept
<1>3. LeaseCarried'
  <2> SUFFICES ASSUME NEW f \in Files, Live(fileLease'[f]),
                      process'[fileLease'[f].mount] = "up", f \notin kept'
               PROVE  \E h \in Handles : Keeps(fileLease[f].mount, h, f)'
    BY ZenonT(60) DEF LeaseCarried, Live, RowsKept
  <2>1. /\ Live(fileLease[f]) /\ process[fileLease[f].mount] = "up" /\ f \notin kept
        /\ fileLease'[f] # NoLease
    BY ZenonT(60) DEF Live, RowsKept
  <2>2. PICK h \in Handles : Keeps(fileLease[f].mount, h, f)
    BY ZenonT(60), <2>1 DEF RInv, LeaseCarried
  <2> QED
    BY ZenonT(60), <2>1, <2>2 DEF RowsKept, Keeps, InTable, FileOf, Matches, HeldBy
<1> QED
  BY ZenonT(60), <1>1, <1>2, <1>3 DEF RInv

\* A callback may start on h or go on.
MayRun(m, h) == pc[m][h] # "idle" \/ \A g \in Handles : pc[m][g] = "idle"

\* A step may begin to drop h: an idle handle carries the same ownership, or the
\* lease is left to expire, or there is none.
MayDrop(m, h) ==
  \/ \E g \in Handles \ {h} :
       InTable(m, g) /\ pc[m][g] = "idle" /\ table[m][g] = table[m][h]
  \/ FileOf(m, h) \in kept'
  \/ ~Matches(fileLease[FileOf(m, h)], m, table[m][h].owner, table[m][h].ftok)

\* A callback on a handle starts, moves on or ends.
LEMMA CallbackStep ==
  ASSUME IInv, RInv, NEW m \in Mounts, NEW h \in Handles,
         NEW p \in CallbackStates \ {"returned"},
         pc' = [pc EXCEPT ![m][h] = p],
         UNCHANGED <<process, table, nextFh, fileLease>>, kept \subseteq kept',
         MayRun(m, h), p = "remove" => MayDrop(m, h)
  PROVE  RInv'
<1>1. \A n \in Mounts, g \in Handles :
        pc'[n][g] = IF n = m /\ g = h THEN p ELSE pc[n][g]
  BY ZenonT(60) DEF IInv, TypeOK
<1>2. OwnersDrawn' /\ OneOwnership' /\ LeaseOfStarted'
  BY ZenonT(60) DEF RInv, OwnersDrawn, OneOwnership, LeaseOfStarted, InTable
<1>3. OneCallback'
  BY SMTT(60), <1>1 DEF RInv, OneCallback, MayRun
<1>4. ReturnedNotShared'
  BY <1>1 DEF RInv, ReturnedNotShared, SharedLocally, InTable
<1>5. LeaseCarried'
  <2> SUFFICES ASSUME NEW f \in Files, Live(fileLease[f]),
                      process[fileLease[f].mount] = "up", f \notin kept'
               PROVE  \E g \in Handles : Keeps(fileLease[f].mount, g, f)'
    BY ZenonT(60) DEF LeaseCarried, Live
  <2>1. PICK g \in Handles : Keeps(fileLease[f].mount, g, f)
    BY ZenonT(60) DEF RInv, LeaseCarried
  <2>2. fileLease[f].mount \in Mounts
    BY ZenonT(60) DEF IInv, TypeOK, LeaseRow, Live
  <2>3. CASE fileLease[f].mount = m /\ g = h /\ p = "remove"
    <3>1. PICK k \in Handles \ {h} :
            InTable(m, k) /\ pc[m][k] = "idle" /\ table[m][k] = table[m][h]
      BY ZenonT(60), <2>1, <2>3 DEF Keeps, MayDrop
    <3>2. Keeps(m, k, f)'
      BY ZenonT(60), <1>1, <2>1, <2>3, <3>1 DEF Keeps, InTable, FileOf, Matches, HeldBy
    <3> QED
      BY ZenonT(60), <2>3, <3>1, <3>2
  <2>4. CASE ~(fileLease[f].mount = m /\ g = h /\ p = "remove")
    <3>1. pc'[fileLease[f].mount][g] \notin {"returned", "remove"}
      BY ZenonT(60), <1>1, <2>1, <2>2, <2>4 DEF Keeps
    <3> QED
      BY ZenonT(60), <2>1, <3>1 DEF Keeps, InTable, FileOf, Matches, HeldBy
  <2> QED
    BY ZenonT(60), <2>3, <2>4
<1> QED
  BY ZenonT(60), <1>2, <1>3, <1>4, <1>5 DEF RInv

\* Time, heartbeats, refused opens and unfenced callers.
LEMMA QuietRelease ==
  ASSUME IInv, RInv,
         \/ Tick
         \/ PruneSessions
         \/ \E m \in Mounts : \/ HeartbeatSession(m)
                              \/ HeartbeatCollect(m)
                              \/ HeartbeatOwnership(m)
         \/ \E m \in Mounts, h \in Handles, f \in Files : OpenBusy(m, h, f)
         \/ \E f \in Files : LegacyNext(f)
  PROVE  RInv'
<1>1. UNCHANGED <<process, table, pc, nextFh, kept>>
  BY ZenonT(60) DEF Tick, PruneSessions, HeartbeatSession, HeartbeatCollect, HeartbeatOwnership,
         OpenBusy, LegacyNext, LegacyBegin, LegacyCommit, LegacyAbort, mountVars, history
<1>2. RowsKept
  <2>1. CASE Tick
    <3>1. \A row \in LeaseRow :
            LET new == [row EXCEPT !.left = Older(@)] IN
            /\ new.token = row.token /\ new.owner = row.owner /\ new.mount = row.mount
            /\ new.left > 0 => row.left > 0
      BY SMTT(60), ConstantsOK DEF LeaseRow, Older
    <3> QED
      BY ZenonT(60), <2>1, <3>1 DEF RowsKept, Tick, IInv, TypeOK, Live
  <2>2. CASE PruneSessions
    <3>1. \A f \in Files : fileLease'[f] \in {fileLease[f], NoLease}
      BY ZenonT(60), <2>2 DEF PruneSessions, IInv, TypeOK
    <3> QED
      BY ZenonT(60), <3>1 DEF RowsKept, Live
  <2>3. CASE \E m \in Mounts : HeartbeatSession(m) \/ HeartbeatCollect(m)
    BY ZenonT(60), <2>3 DEF RowsKept, HeartbeatSession, HeartbeatCollect, dbVars
  <2>4. ASSUME NEW m \in Mounts, HeartbeatOwnership(m)
        PROVE  RowsKept
    <3>1. PICK own \in beat[m] :
            IF Renewable(m, own)
            THEN fileLease' = [fileLease EXCEPT ![own.file].left = TTL]
            ELSE UNCHANGED fileLease
      BY <2>4, ZenonT(60) DEF HeartbeatOwnership
    <3>2. own.file \in Files
      BY SMTT(60) DEF IInv, TypeOK, HandleRow
    <3>3. CASE Renewable(m, own)
      <4>1. fileLease[own.file] # NoLease /\ Live(fileLease[own.file])
        BY ZenonT(60), <3>3 DEF Renewable, Live
      <4>2. fileLease \in [Files -> LeaseRow \cup {NoLease}]
        BY ZenonT(60) DEF IInv, TypeOK
      <4>3. fileLease' = [fileLease EXCEPT ![own.file].left = TTL]
        BY ZenonT(60), <3>1, <3>3
      <4>4. /\ \A g \in Files \ {own.file} : fileLease'[g] = fileLease[g]
            /\ fileLease'[own.file].token = fileLease[own.file].token
            /\ fileLease'[own.file].owner = fileLease[own.file].owner
            /\ fileLease'[own.file].mount = fileLease[own.file].mount
        BY ZenonT(60), <3>2, <4>1, <4>2, <4>3, Renewed
      <4> QED
        BY ZenonT(60), <4>1, <4>4 DEF RowsKept, Live
    <3>4. CASE ~Renewable(m, own)
      BY ZenonT(60), <3>1, <3>4 DEF RowsKept
    <3> QED
      BY ZenonT(60), <3>3, <3>4
  <2>5. ASSUME NEW m \in Mounts, NEW h \in Handles, NEW f \in Files, OpenBusy(m, h, f)
        PROVE  RowsKept
    <3>1. \A g \in Files : fileLease'[g] \in {fileLease[g], NoLease}
      BY ZenonT(60), <2>5 DEF OpenBusy, Pruned, IInv, TypeOK
    <3> QED
      BY ZenonT(60), <3>1 DEF RowsKept, Live
  <2>6. CASE \E f \in Files : LegacyNext(f)
    BY ZenonT(60), <2>6 DEF RowsKept, LegacyNext, LegacyBegin, LegacyCommit, LegacyAbort, dbVars
  <2> QED
    BY ZenonT(60), <2>1, <2>2, <2>3, <2>4, <2>5, <2>6
<1> QED
  BY ZenonT(60), <1>1, <1>2, RowsStep

\* Handles that leave the table, and their callbacks with them, disturb none that stay.
LEMMA FewerHandles ==
  ASSUME RInv,
         \A n \in Mounts, g \in Handles :
           \/ table'[n][g] = table[n][g] /\ pc'[n][g] = pc[n][g]
           \/ table'[n][g] = NoHandle /\ pc'[n][g] = "idle"
  PROVE  OneCallback' /\ OneOwnership' /\ ReturnedNotShared'
<1>1. OneCallback'
  BY ZenonT(60) DEF RInv, OneCallback
<1>2. OneOwnership'
  <2> SUFFICES ASSUME NEW n \in Mounts, NEW h \in Handles, NEW g \in Handles,
                      InTable(n, h)', InTable(n, g)', table'[n][h].owner = table'[n][g].owner
               PROVE  table'[n][h] = table'[n][g]
    BY ZenonT(60) DEF OneOwnership
  <2>1. table'[n][h] = table[n][h] /\ table'[n][g] = table[n][g]
    BY ZenonT(60) DEF InTable
  <2> QED
    BY <2>1 DEF RInv, OneOwnership, InTable
<1>3. ReturnedNotShared'
  <2> SUFFICES ASSUME NEW n \in Mounts, NEW h \in Handles, pc'[n][h] = "returned",
                      NEW g \in Handles \ {h}, InTable(n, g)', table'[n][g].owner = table'[n][h].owner
               PROVE  FALSE
    BY ZenonT(60) DEF ReturnedNotShared, SharedLocally
  <2>1. table'[n][h] = table[n][h] /\ pc[n][h] = "returned"
    OBVIOUS
  <2>2. InTable(n, g) /\ table'[n][g] = table[n][g]
    BY ZenonT(60) DEF InTable
  <2> QED
    BY <2>1, <2>2 DEF RInv, ReturnedNotShared, SharedLocally
<1> QED
  BY ZenonT(60), <1>1, <1>2, <1>3

\* The owner in the table is a number below the next one.
LEMMA OwnerDrawn ==
  ASSUME IInv, RInv, NEW n \in Mounts, NEW g \in Handles, InTable(n, g)
  PROVE  table[n][g].owner \in Nat /\ nextFh[n] \in Nat /\ table[n][g].owner < nextFh[n]
<1>1. table[n][g] \in HandleRow
  BY ZenonT(60), HandleFile DEF IInv
<1>2. table[n][g].owner \in Nat
  BY <1>1 DEF HandleRow, Handles
<1>3. nextFh[n] \in Nat
  BY DEF IInv, TypeOK
<1> QED
  BY ZenonT(60), <1>2, <1>3 DEF RInv, OwnersDrawn

\* A mount that starts has no lease yet; one that dies loses no live lease's
\* handle that counts.
LEMMA ProcessRelease ==
  ASSUME IInv, RInv, NEW m \in Mounts, Register(m) \/ Crash(m)
  PROVE  RInv'
<1>1. UNCHANGED <<fileLease, kept, nextFh>>
  BY ZenonT(60) DEF Register, Crash, dbVars, mountVars, history
<1>2. \A n \in Mounts :
        /\ n # m => process'[n] = process[n]
        /\ process'[n] = "new" => process[n] = "new"
        /\ process'[n] = "up" => process[n] = "up" \/ (n = m /\ process[m] = "new")
  BY ZenonT(60) DEF Register, Crash, IInv, TypeOK
<1>3. \A n \in Mounts, g \in Handles :
        /\ process'[n] = "up" => table'[n][g] = table[n][g] /\ pc'[n][g] = pc[n][g]
        /\ \/ table'[n][g] = table[n][g] /\ pc'[n][g] = pc[n][g]
           \/ table'[n][g] = NoHandle /\ pc'[n][g] = "idle"
  <2>1. CASE Register(m)
    BY ZenonT(60), <2>1 DEF Register, mountVars
  <2>2. CASE Crash(m)
    BY ZenonT(60), <2>2 DEF Crash, IInv, TypeOK
  <2> QED
    BY ZenonT(60), <2>1, <2>2
<1>4. OwnersDrawn'
  BY ZenonT(60), <1>1, <1>3 DEF RInv, OwnersDrawn, InTable
<1>5. OneCallback' /\ OneOwnership' /\ ReturnedNotShared'
  BY ZenonT(60), <1>3, FewerHandles
<1>6. \A f \in Files : fileLease[f] # NoLease => fileLease[f].mount \in Mounts
  BY ZenonT(60) DEF IInv, TypeOK, LeaseRow
<1>7. LeaseOfStarted'
  BY Zenon, <1>1, <1>2, <1>6 DEF RInv, LeaseOfStarted
<1>8. LeaseCarried'
  <2> SUFFICES ASSUME NEW f \in Files, Live(fileLease[f]),
                      process'[fileLease[f].mount] = "up", f \notin kept
               PROVE  \E h \in Handles : Keeps(fileLease[f].mount, h, f)'
    BY ZenonT(60), <1>1 DEF LeaseCarried, Live
  <2>1. fileLease[f].mount \in Mounts /\ process[fileLease[f].mount] = "up"
    BY ZenonT(60), <1>2, <1>6 DEF RInv, LeaseOfStarted, Live
  <2>2. PICK h \in Handles : Keeps(fileLease[f].mount, h, f)
    BY ZenonT(60), <2>1 DEF RInv, LeaseCarried
  <2> QED
    BY ZenonT(60), <1>1, <1>3, <2>1, <2>2 DEF Keeps, InTable, FileOf, Matches, HeldBy
<1> QED
  BY ZenonT(60), <1>4, <1>5, <1>7, <1>8 DEF RInv

\* An open finds the thread free, and its handle number is new.
LEMMA FreshHandle ==
  ASSUME EventThreads = 1, IInv, RInv, NEW m \in Mounts, NEW h \in Handles,
         NewHandle(m, h)
  PROVE  /\ h = nextFh[m] /\ process[m] = "up"
         /\ ~InTable(m, h)
         /\ \A g \in Handles : pc[m][g] = "idle"
<1>1. h = nextFh[m] /\ ThreadFree(m)
  BY ZenonT(60) DEF NewHandle
<1>2. ~InTable(m, h)
  BY SMTT(60), <1>1 DEF IInv, FreshHandles, Handles
<1>3. \A g \in Handles : pc[m][g] = "idle"
  BY ZenonT(60), <1>1, ThreadIdle
<1> QED
  BY ZenonT(60), <1>1, <1>2, <1>3 DEF ThreadFree

\* The first handle of a mount on a file keeps the lease it was granted.
LEMMA OpenAcquireRelease ==
  ASSUME EventThreads = 1, IInv, RInv, NEW m \in Mounts, NEW h \in Handles,
         NEW f \in Files, OpenAcquire(m, h, f)
  PROVE  RInv'
<1> DEFINE row == [file |-> f, owner |-> h, dtok |-> AcquiredDest(m, h, f).token,
                   ftok |-> AcquiredFile(m, h, f).token]
<1>1. NewHandle(m, h) /\ CanAcquire(m, h, f)
  BY ZenonT(60) DEF OpenAcquire
<1>2. /\ AcquiredFile(m, h, f) # NoLease
      /\ AcquiredFile(m, h, f).mount = m
      /\ AcquiredFile(m, h, f).owner = h
      /\ AcquiredFile(m, h, f).token = fileSeq + 1
      /\ AcquiredDest(m, h, f) \in LeaseRow
      /\ fileSeq \in Nat
  <2>1. AcquiredFile(m, h, f) # NoLease /\ AcquiredDest(m, h, f) \in LeaseRow
    BY SMTT(60), <1>1, GrantFacts
  <2>2. AcquiredFile(m, h, f).mount = m
    BY SMTT(60), <1>1, GrantFacts
  <2>3. AcquiredFile(m, h, f).owner = h
    BY SMTT(60), <1>1, GrantFacts
  <2> QED
    BY ZenonT(60), <1>1, <2>1, <2>2, <2>3, GrantToken
<1>3. row \in HandleRow /\ row # NoHandle
  BY SMTT(60), <1>2, ConstantsOK DEF HandleRow, LeaseRow
<1>4. /\ h = nextFh[m] /\ process[m] = "up"
      /\ ~InTable(m, h)
      /\ \A g \in Handles : pc[m][g] = "idle"
  BY ZenonT(60), <1>1, FreshHandle
<1>5. PICK p \in {"idle", "open"} : pc' = [pc EXCEPT ![m][h] = p]
  BY ZenonT(60) DEF OpenAcquire, OpenPc
<1>6. /\ fileLease' = [fileLease EXCEPT ![f] = AcquiredFile(m, h, f)]
      /\ table' = [table EXCEPT ![m][h] = row]
      /\ kept' = kept \ {f}
      /\ nextFh' = [nextFh EXCEPT ![m] = @ + 1]
      /\ process' = process
  BY ZenonT(60) DEF OpenAcquire
<1> HIDE DEF row
<1>7. \A n \in Mounts, g \in Handles :
        /\ table'[n][g] = IF n = m /\ g = h THEN row ELSE table[n][g]
        /\ pc'[n][g] = IF n = m /\ g = h THEN p ELSE pc[n][g]
  BY ZenonT(60), <1>5, <1>6 DEF IInv, TypeOK
<1>8. \A n \in Mounts : nextFh'[n] = IF n = m THEN nextFh[n] + 1 ELSE nextFh[n]
  BY ZenonT(60), <1>6 DEF IInv, TypeOK
<1>9. \A g \in Files :
        fileLease'[g] = IF g = f THEN AcquiredFile(m, h, f) ELSE fileLease[g]
  BY ZenonT(60), <1>6 DEF IInv, TypeOK
<1>10. row.owner = h /\ row.file = f /\ row.ftok = AcquiredFile(m, h, f).token
  BY ZenonT(60) DEF row
<1>11. OneCallback'
  <2> SUFFICES ASSUME NEW n \in Mounts, NEW g \in Handles, NEW k \in Handles,
                      pc'[n][g] # "idle", pc'[n][k] # "idle"
               PROVE  g = k
    BY ZenonT(60) DEF OneCallback
  <2>1. CASE n = m
    BY <1>4, <1>7, <2>1
  <2>2. CASE n # m
    BY <1>7, <2>2 DEF RInv, OneCallback
  <2> QED
    BY ZenonT(60), <2>1, <2>2
<1>12. ReturnedNotShared'
  BY <1>4, <1>5, <1>7 DEF RInv, ReturnedNotShared, SharedLocally, InTable
<1>13. OwnersDrawn'
  <2> SUFFICES ASSUME NEW n \in Mounts, NEW g \in Handles, InTable(n, g)'
               PROVE  table'[n][g].owner < nextFh'[n]
    BY ZenonT(60) DEF OwnersDrawn
  <2>1. nextFh[n] \in Nat
    BY DEF IInv, TypeOK
  <2>2. CASE n = m /\ g = h
    BY <1>4, <1>7, <1>8, <1>10, <2>1, <2>2
  <2>3. CASE ~(n = m /\ g = h)
    <3>1. InTable(n, g) /\ table'[n][g] = table[n][g]
      BY Zenon, <1>7, <2>3 DEF InTable
    <3>2. table[n][g].owner < nextFh[n] /\ table[n][g].owner \in Nat
      BY ZenonT(60), <3>1, OwnerDrawn
    <3> QED
      BY <1>8, <2>1, <3>1, <3>2
  <2> QED
    BY ZenonT(60), <2>2, <2>3
<1>14. OneOwnership'
  <2>1. \A g \in Handles : InTable(m, g) => table[m][g].owner # row.owner
    <3> SUFFICES ASSUME NEW g \in Handles, InTable(m, g)
                 PROVE  table[m][g].owner # row.owner
      OBVIOUS
    <3>1. table[m][g].owner < nextFh[m] /\ table[m][g].owner \in Nat
      BY ZenonT(60), OwnerDrawn
    <3> QED
      BY <1>4, <1>10, <3>1 DEF Handles
  <2> SUFFICES ASSUME NEW n \in Mounts, NEW g \in Handles, NEW k \in Handles,
                      InTable(n, g)', InTable(n, k)',
                      table'[n][g].owner = table'[n][k].owner
               PROVE  table'[n][g] = table'[n][k]
    BY ZenonT(60) DEF OneOwnership
  <2>2. CASE g = k
    BY ZenonT(60), <2>2
  <2>3. CASE n = m /\ (g = h \/ k = h) /\ g # k
    BY Zenon, <1>7, <2>1, <2>3 DEF InTable
  <2>4. CASE ~(n = m /\ (g = h \/ k = h))
    BY <1>7, <2>4 DEF RInv, OneOwnership, InTable
  <2> QED
    BY ZenonT(60), <2>2, <2>3, <2>4
<1>15. LeaseOfStarted'
  BY <1>2, <1>4, <1>6, <1>9 DEF RInv, LeaseOfStarted
<1>16. LeaseCarried'
  <2> SUFFICES ASSUME NEW k \in Files, Live(fileLease'[k]),
                      process[fileLease'[k].mount] = "up", k \notin kept'
               PROVE  \E g \in Handles : Keeps(fileLease[k].mount, g, k)'
    BY ZenonT(60), <1>6 DEF LeaseCarried, Live
  <2>1. CASE k = f
    <3>1. table'[m][h] = row /\ pc'[m][h] = p
      BY Zenon, <1>7
    <3>2. fileLease'[f] = AcquiredFile(m, h, f)
      BY Zenon, <1>9
    <3>3. Keeps(m, h, f)'
      BY ZenonT(60), <1>2, <1>3, <1>10, <3>1, <3>2 DEF Keeps, InTable, FileOf, Matches, HeldBy
    <3> QED
      BY Zenon, <1>2, <2>1, <3>2, <3>3
  <2>2. CASE k # f
    <3>1. fileLease'[k] = fileLease[k] /\ k \notin kept
      BY ZenonT(60), <1>6, <1>9, <2>2
    <3>2. PICK g \in Handles : Keeps(fileLease[k].mount, g, k)
      BY ZenonT(60), <3>1 DEF RInv, LeaseCarried
    <3>3. fileLease[k].mount \in Mounts
      BY ZenonT(60), <3>1 DEF IInv, TypeOK, LeaseRow, Live
    <3>4. ~(fileLease[k].mount = m /\ g = h)
      BY ZenonT(60), <1>4, <3>2 DEF Keeps
    <3>5. Keeps(fileLease[k].mount, g, k)'
      BY ZenonT(60), <1>7, <3>1, <3>2, <3>3, <3>4 DEF Keeps, InTable, FileOf, Matches, HeldBy
    <3> QED
      BY ZenonT(60), <3>1, <3>5
  <2> QED
    BY Zenon, <2>1, <2>2
<1> QED
  BY ZenonT(60), <1>11, <1>12, <1>13, <1>14, <1>15, <1>16 DEF RInv

\* An open that cannot register its open lease gives the ownership back, or
\* leaves it to expire.
LEMMA OpenRollbackRelease ==
  ASSUME EventThreads = 1, IInv, RInv, NEW m \in Mounts, NEW h \in Handles,
         NEW f \in Files, OpenRollback(m, h, f)
  PROVE  RInv'
<1>1. NewHandle(m, h) /\ CanAcquire(m, h, f)
  BY ZenonT(60) DEF OpenRollback
<1>2. process[m] = "up" /\ AcquiredFile(m, h, f).mount = m
  <2>1. process[m] = "up"
    BY ZenonT(60), <1>1, FreshHandle
  <2>2. AcquiredFile(m, h, f).mount = m
    BY <1>1, GrantFacts
  <2> QED
    BY ZenonT(60), <2>1, <2>2
<1>3. PICK row :
        /\ fileLease' = [fileLease EXCEPT ![f] = row]
        /\ \/ row = NoLease /\ kept' = kept \ {f}
           \/ row = AcquiredFile(m, h, f) /\ kept' = kept \cup {f}
  BY ZenonT(60) DEF OpenRollback
<1>4. nextFh' = [nextFh EXCEPT ![m] = @ + 1] /\ UNCHANGED <<process, table, pc>>
  BY Zenon DEF OpenRollback
<1>5. \A g \in Files : fileLease'[g] = IF g = f THEN row ELSE fileLease[g]
  BY ZenonT(60), <1>3 DEF IInv, TypeOK
<1>6. OneCallback' /\ OneOwnership' /\ ReturnedNotShared'
  BY <1>4 DEF RInv, OneCallback, OneOwnership, ReturnedNotShared, SharedLocally, InTable
<1>7. OwnersDrawn'
  <2> SUFFICES ASSUME NEW n \in Mounts, NEW g \in Handles, InTable(n, g)
               PROVE  table[n][g].owner < nextFh'[n]
    BY Zenon, <1>4 DEF OwnersDrawn, InTable
  <2>1. table[n][g].owner < nextFh[n] /\ table[n][g].owner \in Nat
    BY ZenonT(60), OwnerDrawn
  <2>2. nextFh[n] \in Nat /\ nextFh'[n] \in {nextFh[n], nextFh[n] + 1}
    BY SMTT(60), <1>4 DEF IInv, TypeOK
  <2> QED
    BY <2>1, <2>2
<1>8. LeaseOfStarted'
  BY ZenonT(60), <1>2, <1>3, <1>4, <1>5 DEF RInv, LeaseOfStarted
<1>9. LeaseCarried'
  <2> SUFFICES ASSUME NEW k \in Files, Live(fileLease'[k]),
                      process[fileLease'[k].mount] = "up", k \notin kept'
               PROVE  \E g \in Handles : Keeps(fileLease[k].mount, g, k)'
    BY ZenonT(60), <1>4 DEF LeaseCarried, Live
  <2>1. k # f
    BY ZenonT(60), <1>3, <1>5 DEF Live
  <2>2. fileLease'[k] = fileLease[k] /\ k \notin kept
    BY ZenonT(60), <1>3, <1>5, <2>1
  <2>3. PICK g \in Handles : Keeps(fileLease[k].mount, g, k)
    BY ZenonT(60), <2>2 DEF RInv, LeaseCarried
  <2> QED
    BY ZenonT(60), <1>4, <2>2, <2>3 DEF Keeps, InTable, FileOf, Matches, HeldBy
<1> QED
  BY ZenonT(60), <1>6, <1>7, <1>8, <1>9 DEF RInv

\* A further handle shares an ownership that no release is giving back.
LEMMA OpenShareRelease ==
  ASSUME EventThreads = 1, IInv, RInv, NEW m \in Mounts, NEW h \in Handles,
         NEW f \in Files, OpenShare(m, h, f)
  PROVE  RInv'
<1>1. /\ h = nextFh[m] /\ process[m] = "up"
      /\ ~InTable(m, h)
      /\ \A g \in Handles : pc[m][g] = "idle"
  BY ZenonT(60), FreshHandle DEF OpenShare
<1>2. PICK other \in LocalOwnership(m, f) :
        table' = [table EXCEPT ![m][h] = table[m][other]]
  BY ZenonT(60) DEF OpenShare
<1>3. other \in Handles /\ InTable(m, other)
  BY ZenonT(60) DEF LocalOwnership
<1>4. PICK p \in {"idle", "open"} : pc' = [pc EXCEPT ![m][h] = p]
  BY ZenonT(60) DEF OpenShare, OpenPc
<1>5. nextFh' = [nextFh EXCEPT ![m] = @ + 1] /\ UNCHANGED <<process, fileLease, kept>>
  BY ZenonT(60) DEF OpenShare, dbVars, history
<1>6. \A n \in Mounts, g \in Handles :
        /\ table'[n][g] = IF n = m /\ g = h THEN table[m][other] ELSE table[n][g]
        /\ pc'[n][g] = IF n = m /\ g = h THEN p ELSE pc[n][g]
  BY ZenonT(60), <1>2, <1>4 DEF IInv, TypeOK
<1>7. OneCallback'
  BY <1>1, <1>6 DEF RInv, OneCallback
<1>8. ReturnedNotShared'
  BY SMTT(60), <1>1, <1>4, <1>6 DEF RInv, ReturnedNotShared, SharedLocally, InTable
<1>9. OneOwnership'
  BY SMTT(60), <1>3, <1>6 DEF RInv, OneOwnership, InTable
<1>10. OwnersDrawn'
  <2> SUFFICES ASSUME NEW n \in Mounts, NEW g \in Handles, InTable(n, g)'
               PROVE  table'[n][g].owner < nextFh'[n]
    BY ZenonT(60) DEF OwnersDrawn
  <2>1. nextFh[n] \in Nat /\ nextFh'[n] \in {nextFh[n], nextFh[n] + 1}
    BY SMTT(60), <1>5 DEF IInv, TypeOK
  <2>2. PICK k \in Handles : InTable(n, k) /\ table'[n][g] = table[n][k]
    BY ZenonT(60), <1>3, <1>6 DEF InTable
  <2>3. table[n][k].owner < nextFh[n] /\ table[n][k].owner \in Nat
    BY ZenonT(60), <2>2, OwnerDrawn
  <2> QED
    BY <2>1, <2>2, <2>3
<1>11. LeaseOfStarted'
  BY ZenonT(60), <1>5 DEF RInv, LeaseOfStarted
<1>12. LeaseCarried'
  <2> SUFFICES ASSUME NEW k \in Files, Live(fileLease[k]),
                      process[fileLease[k].mount] = "up", k \notin kept
               PROVE  \E g \in Handles : Keeps(fileLease[k].mount, g, k)'
    BY ZenonT(60), <1>5 DEF LeaseCarried, Live
  <2>1. PICK g \in Handles : Keeps(fileLease[k].mount, g, k)
    BY ZenonT(60) DEF RInv, LeaseCarried
  <2>2. fileLease[k].mount \in Mounts /\ ~(fileLease[k].mount = m /\ g = h)
    BY ZenonT(60), <1>1, <2>1 DEF IInv, TypeOK, LeaseRow, Live, Keeps
  <2> QED
    BY ZenonT(60), <1>5, <1>6, <2>1, <2>2 DEF Keeps, InTable, FileOf, Matches, HeldBy
<1> QED
  BY ZenonT(60), <1>7, <1>8, <1>9, <1>10, <1>11, <1>12 DEF RInv

\* A handle leaves the table of a dead process, or when its release is over.
LEMMA HandleGone ==
  ASSUME IInv, RInv, NEW m \in Mounts, NEW h \in Handles,
         process[m] # "up" \/ pc[m][h] \in {"remove", "returned"},
         Forget(m, h), UNCHANGED <<process, fileLease, nextFh, kept>>
  PROVE  RInv'
<1>1. \A n \in Mounts, g \in Handles :
        /\ table'[n][g] = IF n = m /\ g = h THEN NoHandle ELSE table[n][g]
        /\ pc'[n][g] = IF n = m /\ g = h THEN "idle" ELSE pc[n][g]
  BY ZenonT(60) DEF Forget, IInv, TypeOK
<1>2. OwnersDrawn' /\ LeaseOfStarted'
  BY ZenonT(60), <1>1 DEF RInv, OwnersDrawn, LeaseOfStarted, InTable
<1>3. OneCallback' /\ OneOwnership' /\ ReturnedNotShared'
  BY ZenonT(60), <1>1, FewerHandles
<1>4. LeaseCarried'
  <2> SUFFICES ASSUME NEW f \in Files, Live(fileLease[f]),
                      process[fileLease[f].mount] = "up", f \notin kept
               PROVE  \E g \in Handles : Keeps(fileLease[f].mount, g, f)'
    BY ZenonT(60) DEF LeaseCarried, Live
  <2>1. PICK g \in Handles : Keeps(fileLease[f].mount, g, f)
    BY ZenonT(60) DEF RInv, LeaseCarried
  <2>2. fileLease[f].mount \in Mounts /\ ~(fileLease[f].mount = m /\ g = h)
    BY ZenonT(60), <2>1 DEF IInv, TypeOK, LeaseRow, Live, Keeps
  <2> QED
    BY ZenonT(60), <1>1, <2>1, <2>2 DEF Keeps, InTable, FileOf, Matches, HeldBy
<1> QED
  BY ZenonT(60), <1>2, <1>3, <1>4 DEF RInv

\* A callback starts while no other one runs.
LEMMA StartRelease ==
  ASSUME EventThreads = 1, IInv, RInv, NEW m \in Mounts, NEW h \in Handles,
         Write(m, h) \/ FlushStart(m, h) \/ ReleaseStart(m, h)
  PROVE  RInv'
<1>1. ThreadFree(m)
  BY ZenonT(60) DEF Write, FlushStart, ReleaseStart
<1>2. \A g \in Handles : pc[m][g] = "idle"
  BY ZenonT(60), <1>1, ThreadIdle
<1>3. PICK p \in {"idle", "write", "flush", "relFlush", "relOwn"} :
        pc' = [pc EXCEPT ![m][h] = p]
  BY SMTT(60) DEF Write, FlushStart, ReleaseStart, IInv, TypeOK
<1>4. UNCHANGED <<process, table, nextFh, fileLease>> /\ kept \subseteq kept'
  BY ZenonT(60) DEF Write, FlushStart, ReleaseStart, dbVars, history
<1>5. p \in CallbackStates \ {"returned"} /\ (p = "remove" => MayDrop(m, h))
  BY ZenonT(60) DEF CallbackStates
<1>6. MayRun(m, h)
  BY ZenonT(60), <1>2 DEF MayRun
<1> QED
  BY <1>3, <1>4, <1>5, <1>6, CallbackStep, ZenonT(60)

\* A callback that fails in release leaves the lease of its handle to expire.
LEMMA FailRelease ==
  ASSUME IInv, RInv, NEW m \in Mounts, NEW h \in Handles, pc[m][h] # "idle",
         Fail(m, h), UNCHANGED <<process, table, nextFh, fileLease>>
  PROVE  RInv'
<1> DEFINE p == CASE pc[m][h] \in {"open", "openPersist"} -> "relOwn"
                 [] pc[m][h] \in {"relFlush", "relPersist"} -> "remove"
                 [] OTHER -> "idle"
<1>1. pc' = [pc EXCEPT ![m][h] = p]
  BY ZenonT(60) DEF Fail
<1>2. /\ p \in {"relOwn", "remove", "idle"}
      /\ p = "remove" => pc[m][h] \in {"relFlush", "relPersist"}
  BY ZenonT(60)
<1> HIDE DEF p
<1>3. p \in CallbackStates \ {"returned"}
  BY ZenonT(60), <1>2 DEF CallbackStates
<1>4. kept \subseteq kept'
  BY ZenonT(60) DEF Fail, KeptBy
<1>5. p = "remove" => MayDrop(m, h)
  BY ZenonT(60), <1>2 DEF MayDrop, Fail, KeptBy, FileOf
<1>6. MayRun(m, h)
  BY ZenonT(60) DEF MayRun
<1> QED
  BY <1>1, <1>3, <1>4, <1>5, <1>6, CallbackStep, ZenonT(60)

\* The steps of a persist transaction.
LEMMA PersistRelease ==
  ASSUME IInv, RInv, NEW m \in Mounts, NEW h \in Handles,
         \/ PersistBegin(m, h)
         \/ PersistReject(m, h)
         \/ PersistCommit(m, h)
         \/ PersistCommitLost(m, h)
         \/ PersistAbort(m, h)
  PROVE  RInv'
<1>1. /\ pc[m][h] # "idle" /\ MayRun(m, h)
      /\ UNCHANGED <<process, nextFh, fileLease>>
  BY ZenonT(60) DEF PersistBegin, PersistReject, PersistCommit, PersistCommitLost, PersistAbort,
         MustPersist, InPersist, PersistStates, MayRun, dbVars
<1>2. CASE PersistBegin(m, h) \/ PersistCommitLost(m, h)
  <2>1. PICK p \in PersistStates \cup {"open", "write", "flush", "relFlush"} :
          pc' = [pc EXCEPT ![m][h] = p]
    BY <1>2, ZenonT(60) DEF PersistBegin, PersistCommitLost, PersistStates
  <2>2. UNCHANGED <<process, table, nextFh, fileLease>> /\ kept \subseteq kept'
    BY ZenonT(60), <1>1, <1>2 DEF PersistBegin, PersistCommitLost, history
  <2>3. p \in CallbackStates \ {"returned"} /\ (p = "remove" => MayDrop(m, h))
    BY ZenonT(60) DEF CallbackStates, PersistStates
  <2> QED
    BY <1>1, <2>1, <2>2, <2>3, CallbackStep, ZenonT(60)
<1>3. CASE PersistReject(m, h)
  BY ZenonT(60), <1>1, <1>3, FailRelease DEF PersistReject
<1>4. CASE PersistCommit(m, h)
  <2>1. UNCHANGED kept /\ kept \subseteq kept'
    BY Zenon, <1>4 DEF PersistCommit, history
  <2>2. CASE process[m] = "up" /\ Acknowledge(m, h) /\ UNCHANGED table
    <3>1. PICK p \in {"idle", "relOwn", "open"} : pc' = [pc EXCEPT ![m][h] = p]
      BY <2>2, ZenonT(60) DEF Acknowledge
    <3>2. p \in CallbackStates \ {"returned"} /\ (p = "remove" => MayDrop(m, h))
      BY ZenonT(60) DEF CallbackStates
    <3>3. UNCHANGED <<process, table, nextFh, fileLease>>
      BY ZenonT(60), <1>1, <2>2
    <3> QED
      BY <1>1, <2>1, <3>1, <3>2, <3>3, CallbackStep, ZenonT(60)
  <2>3. CASE process[m] = "dead" /\ Forget(m, h)
    BY ZenonT(60), <1>1, <2>1, <2>3, HandleGone
  <2> QED
    BY ZenonT(60), <1>4, <2>2, <2>3 DEF PersistCommit
<1>5. CASE PersistAbort(m, h)
  <2>1. CASE process[m] = "up" /\ Fail(m, h) /\ UNCHANGED <<table, dirty>>
    BY ZenonT(60), <1>1, <2>1, FailRelease
  <2>2. CASE process[m] = "dead" /\ Forget(m, h) /\ UNCHANGED kept
    BY ZenonT(60), <1>1, <2>2, HandleGone
  <2> QED
    BY ZenonT(60), <1>5, <2>1, <2>2 DEF PersistAbort
<1> QED
  BY ZenonT(60), <1>2, <1>3, <1>4, <1>5

\* The end of a release: the ownership is left to a handle that shares it, left
\* to expire, or given back, and then the handle goes.
LEMMA EndRelease ==
  ASSUME IInv, RInv, NEW m \in Mounts, NEW h \in Handles,
         ReleaseShared(m, h) \/ ReleaseFails(m, h) \/ RemoveHandle(m, h)
  PROVE  RInv'
<1>1. "remove" \in CallbackStates \ {"returned"}
  BY ZenonT(60) DEF CallbackStates
<1>2. CASE ReleaseShared(m, h)
  <2>1. /\ pc[m][h] = "relOwn" /\ pc' = [pc EXCEPT ![m][h] = "remove"]
        /\ UNCHANGED <<process, table, nextFh, fileLease>>
        /\ kept \subseteq kept' /\ MayRun(m, h)
    BY ZenonT(60), <1>2 DEF ReleaseShared, MayRun, dbVars, history
  <2>2. PICK g \in Handles \ {h} : InTable(m, g) /\ table[m][g].owner = table[m][h].owner
    BY ZenonT(60), <1>2 DEF ReleaseShared, SharedLocally
  <2>3. InTable(m, h)
    BY ZenonT(60), <2>1 DEF IInv, RunningIsOpen
  <2>4. table[m][g] = table[m][h]
    BY ZenonT(60), <2>2, <2>3 DEF RInv, OneOwnership
  <2>5. pc[m][g] = "idle"
    BY ZenonT(60), <2>1, <2>2 DEF RInv, OneCallback
  <2>6. MayDrop(m, h)
    BY ZenonT(60), <2>2, <2>4, <2>5 DEF MayDrop
  <2> QED
    BY <1>1, <2>1, <2>6, CallbackStep, ZenonT(60)
<1>3. CASE ReleaseFails(m, h)
  <2>1. /\ pc[m][h] = "relOwn" /\ pc' = [pc EXCEPT ![m][h] = "remove"]
        /\ UNCHANGED <<process, table, nextFh, fileLease>>
        /\ kept' = KeptBy(m, h)
    BY ZenonT(60), <1>3 DEF ReleaseFails, dbVars
  <2>2. kept \subseteq kept' /\ MayRun(m, h)
    BY ZenonT(60), <2>1 DEF KeptBy, MayRun
  <2>3. MayDrop(m, h)
    BY ZenonT(60), <2>1 DEF MayDrop, KeptBy, FileOf
  <2> QED
    BY <1>1, <2>1, <2>2, <2>3, CallbackStep, ZenonT(60)
<1>4. CASE RemoveHandle(m, h)
  BY ZenonT(60), <1>4, HandleGone DEF RemoveHandle, dbVars, history
<1> QED
  BY ZenonT(60), <1>2, <1>3, <1>4

\* An ownership that no other handle carries is given back: its row is deleted,
\* and the rows of other owners stay.
LEMMA GiveBackRelease ==
  ASSUME IInv, RInv, NEW m \in Mounts, NEW h \in Handles, ReleaseOwnership(m, h)
  PROVE  RInv'
<1> DEFINE own == table[m][h]
<1>1. /\ pc[m][h] = "relOwn" /\ ~SharedLocally(m, h)
      /\ pc' = [pc EXCEPT ![m][h] = "returned"]
      /\ UNCHANGED <<process, table, nextFh, kept>>
  BY ZenonT(60) DEF ReleaseOwnership, history
<1>2. \A n \in Mounts, g \in Handles :
        pc'[n][g] = IF n = m /\ g = h THEN "returned" ELSE pc[n][g]
  BY ZenonT(60), <1>1 DEF IInv, TypeOK
<1>3. InTable(m, h) /\ own.file \in Files
  BY ZenonT(60), <1>1, HandleFile DEF IInv, RunningIsOpen, FileOf
<1>4. \A f \in Files :
        /\ fileLease'[f] \in {fileLease[f], NoLease}
        /\ f = own.file /\ Matches(fileLease[f], m, own.owner, own.ftok)
             => fileLease'[f] = NoLease
  BY <1>3, ZenonT(60) DEF ReleaseOwnership, IInv, TypeOK
<1> HIDE DEF own
<1>5. OneCallback'
  BY SMTT(60), <1>1, <1>2 DEF RInv, OneCallback
<1>6. OwnersDrawn' /\ OneOwnership'
  BY ZenonT(60), <1>1 DEF RInv, OwnersDrawn, OneOwnership, InTable
<1>7. LeaseOfStarted'
  BY ZenonT(60), <1>1, <1>4 DEF RInv, LeaseOfStarted
<1>8. ReturnedNotShared'
  BY SMTT(60), <1>1, <1>2 DEF RInv, ReturnedNotShared, SharedLocally, InTable
<1>9. LeaseCarried'
  <2> SUFFICES ASSUME NEW f \in Files, Live(fileLease'[f]),
                      process[fileLease'[f].mount] = "up", f \notin kept
               PROVE  \E g \in Handles : Keeps(fileLease[f].mount, g, f)'
    BY ZenonT(60), <1>1 DEF LeaseCarried, Live
  <2>1. fileLease'[f] = fileLease[f]
    <3>1. fileLease'[f] # NoLease
      BY ZenonT(60) DEF Live
    <3> QED
      BY ZenonT(60), <1>4, <3>1
  <2>2. PICK g \in Handles : Keeps(fileLease[f].mount, g, f)
    <3>1. Live(fileLease[f]) /\ process[fileLease[f].mount] = "up"
      BY ZenonT(60), <2>1 DEF Live
    <3> QED
      BY ZenonT(60), <3>1 DEF RInv, LeaseCarried
  <2>3. fileLease[f].mount \in Mounts
    BY ZenonT(60), <2>1 DEF IInv, TypeOK, LeaseRow, Live
  <2>4. ~(fileLease[f].mount = m /\ g = h)
    BY ZenonT(60), <1>4, <2>1, <2>2 DEF Keeps, FileOf, Live, own
  <2> QED
    BY ZenonT(60), <1>1, <1>2, <2>1, <2>2, <2>3, <2>4 DEF Keeps, InTable, FileOf, Matches, HeldBy
<1> QED
  BY ZenonT(60), <1>5, <1>6, <1>7, <1>8, <1>9 DEF RInv

\* With one event-loop thread RInv holds throughout every behaviour.
THEOREM ReleaseInvariant ==
  ASSUME EventThreads = 1
  PROVE  Spec => []RInv
<1>1. Init => RInv
  BY ConstantsOK DEF Init, RInv, OneCallback, OwnersDrawn, OneOwnership, LeaseOfStarted,
     LeaseCarried, ReturnedNotShared, InTable, Live
<1>2. IInv /\ RInv /\ [Next]_vars => RInv'
  <2> SUFFICES ASSUME IInv, RInv, [Next]_vars PROVE RInv'
    BY ZenonT(60)
  <2>1. CASE UNCHANGED vars
    <3>1. UNCHANGED <<process, table, pc, nextFh, kept, fileLease>>
      BY ZenonT(60), <2>1 DEF vars, dbVars, mountVars, history
    <3>2. RowsKept
      BY ZenonT(60), <3>1 DEF RowsKept, Live
    <3> QED
      BY ZenonT(60), <3>1, <3>2, RowsStep
  <2>2. CASE Tick \/ PruneSessions
    BY ZenonT(60), <2>2, QuietRelease
  <2>3. ASSUME NEW m \in Mounts, MountNext(m) PROVE RInv'
    BY ZenonT(60), <2>3, QuietRelease, ProcessRelease DEF MountNext
  <2>4. ASSUME NEW m \in Mounts, NEW h \in Handles, NEW f \in Files, OpenNext(m, h, f)
        PROVE  RInv'
    BY ZenonT(60), <2>4, QuietRelease, OpenAcquireRelease, OpenRollbackRelease, OpenShareRelease
       DEF OpenNext
  <2>5. ASSUME NEW m \in Mounts, NEW h \in Handles, HandleNext(m, h) PROVE RInv'
    BY ZenonT(60), <2>5, StartRelease, PersistRelease, EndRelease, GiveBackRelease DEF HandleNext
  <2>6. ASSUME NEW f \in Files, LegacyNext(f) PROVE RInv'
    BY ZenonT(60), <2>6, QuietRelease
  <2> QED
    BY ZenonT(60), <2>1, <2>2, <2>3, <2>4, <2>5, <2>6 DEF Next
<1> QED
  BY <1>1, <1>2, Invariance, PTL DEF Spec

\* With one event-loop thread, the default, a release is exact: the live lease of
\* a mount that is up belongs to an open handle of it, unless a release or the
\* rollback of an open failed, and no handle shares an ownership given back.
THEOREM ReleaseIsExact ==
  ASSUME EventThreads = 1
  PROVE  Spec => []ReleaseExact
<1>1. IInv /\ RInv => ReleaseExact
  <2> SUFFICES ASSUME IInv, RInv PROVE ReleaseExact
    OBVIOUS
  <2>1. ReturnedNotShared
    BY ZenonT(60) DEF RInv
  <2>2. LeaseHasHandle
    <3> SUFFICES ASSUME NEW f \in Files, Live(fileLease[f]),
                        process[fileLease[f].mount] = "up", f \notin kept
                 PROVE  Carriers(fileLease[f].token) # {}
      BY ZenonT(60) DEF LeaseHasHandle
    <3>1. PICK h \in Handles : Keeps(fileLease[f].mount, h, f)
      BY ZenonT(60) DEF RInv, LeaseCarried
    <3>2. fileLease[f].mount \in Mounts
      BY ZenonT(60) DEF IInv, TypeOK, LeaseRow, Live
    <3>3. <<fileLease[f].mount, h>> \in Carriers(fileLease[f].token)
      BY Zenon, <3>1, <3>2 DEF Carriers, Owners, Keeps, Matches, HeldBy
    <3> QED
      BY ZenonT(60), <3>3
  <2> QED
    BY ZenonT(60), <2>1, <2>2 DEF ReleaseExact
<1> QED
  BY <1>1, Invariance, ReleaseInvariant, PTL
=============================================================================
