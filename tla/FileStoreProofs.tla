--------------------------- MODULE FileStoreProofs ---------------------------
(***************************************************************************)
(* Proofs about FileStore for any credentials, any number of threads and   *)
(* any bounds on writes and crashes.                                       *)
(***************************************************************************)
EXTENDS FileStore, FiniteSetTheorems, TLAPS

USE BoundAssumption, NoneAssumption, NoCredAssumption

\* A write that is not refused saves a well-formed document.
LEMMA EffectType ==
    ASSUME NEW o \in Writes, NEW m \in Contents, ~Refused(o, m)
    PROVE  Effect(o, m) \in Contents
<1> USE DEF Contents
<1>1. CASE o.kind = "AddCredential"
      BY <1>1 DEF Effect, Writes
<1>2. CASE o.kind = "UpdateSignCount"
  <2>1. o.id \in Ids /\ o.count \in Counts /\ m[o.id] \in Credential
        BY <1>2 DEF Writes, Refused
  <2>2. [m[o.id] EXCEPT !.count = o.count] \in Credential
        BY <2>1 DEF Credential
  <2>3. QED BY <1>2, <2>1, <2>2 DEF Effect
<1>3. CASE o.kind = "DeleteCredential"
      BY <1>3 DEF Effect, Writes
<1>4. QED BY <1>1, <1>2, <1>3 DEF Writes

\* A read changes nothing, and what it answers is a well-formed selection.
LEMMA ReadEffect ==
    ASSUME NEW o \in Reads, NEW m
    PROVE  Effect(o, m) = m
BY DEF Effect, Reads

\* Every answer is well formed.
LEMMA AnswerType ==
    ASSUME NEW o \in Ops, NEW m \in Contents
    PROVE  Answer(o, m) \in Answers /\ IOError \in Answers
<1>1. Found(o, m) \in Contents
      BY DEF Found, Contents
<1>2. Empty \in Contents
      BY DEF Empty, Contents
<1>3. QED BY <1>1, <1>2 DEF Answer, Answers, IOError

\* A write that is not refused returns nil and no credentials.
LEMMA WriteAnswer ==
    ASSUME NEW o \in Writes, NEW m \in Contents, ~Refused(o, m)
    PROVE  Answer(o, m) = [status |-> "ok", found |-> Empty]
<1>1. Found(o, m) = Empty
      BY DEF Found, Empty, Selects, Writes
<1>2. QED BY <1>1 DEF Answer

\* The invariant holds when the store is first opened.
LEMMA InitEstablishesIInv == Init => IInv
<1>1. Empty \in Contents
      BY DEF Empty, Contents
<1>2. QED
  BY <1>1
  DEF Init, IInv, TypeOK, MutexHeld, CallState, TmpState, NoLostUpdate,
      NeverTorn, OnlySynced, LitterBound, DiskLitterBound, Steps, Saving,
      File, FileData

\* The mutex lets at most one save have a temporary file, so there is at most
\* one name more than there are files left behind.
LEMMA OneTempAtATime ==
    ASSUME IInv
    PROVE  TempNames \in Nat /\ TempNames <= orphans + 1
<1> DEFINE saving == {t \in Threads : tmp[t] # None}
<1>1. saving \subseteq {mu}
      BY DEF IInv, MutexHeld, TmpState
<1>2. IsFiniteSet({mu}) /\ Cardinality({mu}) = 1
      BY FS_Singleton
<1>3. Cardinality(saving) \in Nat /\ Cardinality(saving) <= 1
      BY <1>1, <1>2, FS_Subset, FS_CardinalityType
<1>4. orphans \in Nat
      BY DEF IInv, TypeOK
<1> HIDE DEF saving
<1>5. TempNames = orphans + Cardinality(saving)
      BY DEF TempNames, saving
<1>6. QED BY <1>3, <1>4, <1>5

\* Every step keeps the types of the state.
LEMMA NextKeepsTypes == IInv /\ [Next]_vars => TypeOK'
<1> SUFFICES ASSUME IInv, [Next]_vars
             PROVE  TypeOK'
    OBVIOUS
<1>t. TempNames \in Nat
      BY OneTempAtATime
<1> USE DEF IInv, TypeOK, Steps, Saving, litter
<1>1. ASSUME NEW t \in Threads, NEW o \in Ops, Call(t, o)
      PROVE  TypeOK'
      BY <1>1 DEF Call, Goto
<1>2. ASSUME NEW t \in Threads, Lock(t)
      PROVE  TypeOK'
      BY <1>2 DEF Lock, Goto
<1>3. ASSUME NEW t \in Threads, Load(t)
      PROVE  TypeOK'
  <2>1. file.data \in Contents /\ op[t] \in Ops
        BY <1>3 DEF Load, File, FileData, CallState
  <2>2. Answer(op[t], file.data) \in Answers
        BY <2>1, AnswerType
  <2>3. op[t] \in Writes /\ ~Refused(op[t], file.data)
            => Effect(op[t], file.data) \in Contents
        BY <2>1, EffectType
  <2>4. QED BY <1>3, <2>1, <2>2, <2>3 DEF Load, Goto, Ops
<1>4. ASSUME NEW t \in Threads, LoadFails(t) \/ SaveFails(t)
      PROVE  TypeOK'
  <2>1. IOError \in Answers
        BY DEF IOError, Answers, Empty, Contents
  <2>2. QED BY <1>4, <2>1 DEF LoadFails, SaveFails, Goto
<1>5. ASSUME NEW t \in Threads, CreateTemp(t) \/ WriteTemp(t) \/ SyncTemp(t)
      PROVE  TypeOK'
  <2>1. Empty \in FileData /\ file.version \in Nat
        BY DEF Empty, Contents, FileData, File
  <2>2. CASE CreateTemp(t)
        BY <2>1, <2>2 DEF CreateTemp, Goto, File
  <2>3. CASE WriteTemp(t)
    <3>1. buf[t] \in FileData
          BY <2>3, EffectType
          DEF WriteTemp, FileData, NoLostUpdate, NeverTorn, File, CallState
    <3>2. QED BY <2>1, <2>3, <3>1 DEF WriteTemp, Goto, File
  <2>4. CASE SyncTemp(t)
    <3>1. tmp[t] \in File
          BY <2>4 DEF SyncTemp, TmpState
    <3>2. [tmp[t] EXCEPT !.synced = TRUE] \in File
          BY <3>1 DEF File
    <3>3. QED BY <2>4, <3>2 DEF SyncTemp, Goto
  <2>5. QED BY <1>5, <2>2, <2>3, <2>4
<1>6. ASSUME NEW t \in Threads, Rename(t)
      PROVE  TypeOK'
  <2>1. tmp[t] \in File
        BY <1>6 DEF Rename, TmpState
  <2>2. [status |-> "ok", found |-> Empty] \in Answers
        BY DEF Answers, Empty, Contents
  <2>3. QED BY <1>6, <2>1, <2>2 DEF Rename, Goto
<1>7. ASSUME NEW t \in Threads, Unlock(t)
      PROVE  TypeOK'
      BY <1>7 DEF Unlock, Goto, File
<1>8. CASE Writeback
  <2>1. Empty \in FileData
        BY DEF Empty, Contents, FileData
  <2>2. QED BY <1>t, <1>8, <2>1 DEF Writeback, File, FileData
<1>9. CASE Crash \/ PowerLoss
      BY <1>t, <1>9 DEF Crash, PowerLoss, ProcessEnds
<1>10. CASE UNCHANGED vars
      BY <1>10 DEF vars
<1>11. QED
  BY <1>1, <1>2, <1>3, <1>4, <1>5, <1>6, <1>7, <1>8, <1>9, <1>10
  DEF Next, Step

\* A thread at a step of a save, or about to unlock, is the one that holds
\* the mutex, so no other thread is at such a step.
LEMMA OneInside ==
    ASSUME MutexHeld, NEW t \in Threads, pc[t] \notin {"idle", "lock"},
           NEW u \in Threads, u # t
    PROVE  pc[u] \in {"idle", "lock"}
BY DEF MutexHeld

\* Every step keeps mutual exclusion and what each thread carries.
LEMMA NextKeepsThreads ==
    IInv /\ [Next]_vars => MutexHeld' /\ CallState' /\ TmpState'
<1> SUFFICES ASSUME IInv, [Next]_vars
             PROVE  MutexHeld' /\ CallState' /\ TmpState'
    OBVIOUS
<1> USE DEF IInv, TypeOK, Steps, Saving, MutexHeld, CallState, TmpState
<1>1. ASSUME NEW t \in Threads, NEW o \in Ops, Call(t, o)
      PROVE  MutexHeld' /\ CallState' /\ TmpState'
      BY <1>1 DEF Call, Goto
<1>2. ASSUME NEW t \in Threads, Lock(t)
      PROVE  MutexHeld' /\ CallState' /\ TmpState'
      BY <1>2 DEF Lock, Goto
<1>3. ASSUME NEW t \in Threads, Load(t)
      PROVE  MutexHeld' /\ CallState' /\ TmpState'
  <2>1. file.data \in Contents /\ op[t] \in Ops
        BY <1>3 DEF Load, File, FileData
  <2>2. Answer(op[t], file.data) # None
        BY <2>1, AnswerType
  <2>3. QED BY <1>3, <2>1, <2>2 DEF Load, Goto, Ops
<1>4. ASSUME NEW t \in Threads, LoadFails(t) \/ SaveFails(t)
      PROVE  MutexHeld' /\ CallState' /\ TmpState'
  <2>1. IOError # None
        BY DEF IOError, Answers, Empty, Contents
  <2>2. QED BY <1>4, <2>1 DEF LoadFails, SaveFails, Goto
<1>5. ASSUME NEW t \in Threads, CreateTemp(t)
      PROVE  MutexHeld' /\ CallState' /\ TmpState'
  <2>1. [data |-> Empty, synced |-> FALSE, version |-> file.version] \in File
        BY DEF Empty, Contents, FileData, File
  <2>2. QED BY <1>5, <2>1 DEF CreateTemp, Goto
<1>6. ASSUME NEW t \in Threads, WriteTemp(t)
      PROVE  MutexHeld' /\ CallState' /\ TmpState'
  <2>1. buf[t] \in FileData /\ file.version + 1 \in Nat
        BY <1>6, EffectType
        DEF WriteTemp, FileData, NoLostUpdate, NeverTorn, File
  <2>2. [data |-> buf[t], synced |-> FALSE, version |-> file.version + 1]
            \in File
        BY <2>1 DEF File
  <2>3. QED BY <1>6, <2>2 DEF WriteTemp, Goto
<1>7. ASSUME NEW t \in Threads, SyncTemp(t)
      PROVE  MutexHeld' /\ CallState' /\ TmpState'
  <2>1. tmp[t] \in File /\ tmp[t].data = buf[t]
        BY <1>7 DEF SyncTemp
  <2>2. /\ [tmp[t] EXCEPT !.synced = TRUE] \in File
        /\ [tmp[t] EXCEPT !.synced = TRUE].synced
        /\ [tmp[t] EXCEPT !.synced = TRUE].data = tmp[t].data
        BY <2>1 DEF File
  <2>3. QED BY <1>7, <2>1, <2>2 DEF SyncTemp, Goto
<1>8. ASSUME NEW t \in Threads, Rename(t)
      PROVE  MutexHeld' /\ CallState' /\ TmpState'
  <2>1. [status |-> "ok", found |-> Empty] # None
        BY DEF Answers, Empty, Contents
  <2>2. QED BY <1>8, <2>1 DEF Rename, Goto
<1>9. ASSUME NEW t \in Threads, Unlock(t)
      PROVE  MutexHeld' /\ CallState' /\ TmpState'
      BY <1>9 DEF Unlock, Goto
<1>10. CASE Writeback
      BY <1>10 DEF Writeback
<1>11. CASE ProcessEnds
      BY <1>11 DEF ProcessEnds
<1>12. CASE UNCHANGED vars
      BY <1>12 DEF vars
<1> HIDE DEF IInv, TypeOK, Steps, Saving, MutexHeld, CallState, TmpState
<1>13. QED
  BY <1>1, <1>2, <1>3, <1>4, <1>5, <1>6, <1>7, <1>8, <1>9, <1>10, <1>11,
     <1>12
  DEF Next, Step, Crash, PowerLoss

\* Only Rename, Writeback and PowerLoss change what the path names; the rest
\* of the invariant follows from what they put there.
LEMMA NextKeepsFile ==
    IInv /\ [Next]_vars => NoLostUpdate' /\ NeverTorn' /\ OnlySynced'
<1> SUFFICES ASSUME IInv, [Next]_vars
             PROVE  NoLostUpdate' /\ NeverTorn' /\ OnlySynced'
    OBVIOUS
<1> USE DEF IInv, TypeOK, Steps, Saving, NoLostUpdate, NeverTorn, OnlySynced
<1>1. ASSUME NEW t \in Threads, NEW o \in Ops, Call(t, o)
      PROVE  NoLostUpdate' /\ NeverTorn' /\ OnlySynced'
      BY <1>1 DEF Call, Goto
<1>2. ASSUME NEW t \in Threads, Load(t)
      PROVE  NoLostUpdate' /\ NeverTorn' /\ OnlySynced'
      BY <1>2 DEF Load, Goto
<1>3. ASSUME NEW t \in Threads,
             \/ Lock(t) \/ LoadFails(t) \/ CreateTemp(t) \/ WriteTemp(t)
             \/ SyncTemp(t) \/ SaveFails(t) \/ Unlock(t)
      PROVE  NoLostUpdate' /\ NeverTorn' /\ OnlySynced'
      BY <1>3
      DEF Lock, LoadFails, CreateTemp, WriteTemp, SyncTemp, SaveFails, Unlock,
          Goto
<1>4. ASSUME NEW t \in Threads, Rename(t)
      PROVE  NoLostUpdate' /\ NeverTorn' /\ OnlySynced'
  <2>1. /\ tmp[t].data = Effect(op[t], file.data) /\ tmp[t].synced
        /\ op[t] \in Writes /\ ~Refused(op[t], file.data)
        /\ file.data \in Contents
        BY <1>4 DEF Rename, TmpState, CallState, File, FileData
  <2>2. tmp[t].data \in Contents
        BY <2>1, EffectType
  <2>3. \A u \in Threads : pc'[u] \notin Saving
        BY <1>4, OneInside DEF Rename, Goto
  <2>4. QED BY <1>4, <2>1, <2>2, <2>3 DEF Rename
<1>5. CASE Writeback
      BY <1>5 DEF Writeback
<1>6. ASSUME ProcessEnds, UNCHANGED file \/ file' = disk
      PROVE  NoLostUpdate' /\ NeverTorn' /\ OnlySynced'
      BY <1>6 DEF ProcessEnds
<1>7. CASE UNCHANGED vars
      BY <1>7 DEF vars
<1>8. QED
  BY <1>1, <1>2, <1>3, <1>4, <1>5, <1>6, <1>7
  DEF Next, Step, Crash, PowerLoss

\* Only a failed clean-up, a crash and a power loss add to what is left
\* behind, and each adds one at most.
LEMMA NextKeepsLitter ==
    IInv /\ [Next]_vars => LitterBound' /\ DiskLitterBound'
<1> SUFFICES ASSUME IInv, [Next]_vars
             PROVE  LitterBound' /\ DiskLitterBound'
    OBVIOUS
<1>1. TempNames \in Nat /\ TempNames <= orphans + 1
      BY OneTempAtATime
<1>2. /\ orphans \in Nat /\ diskOrphans \in Nat /\ uncleaned \in Nat
      /\ crashes \in Nat
      BY DEF IInv, TypeOK
<1>3. LitterBound /\ DiskLitterBound
      BY DEF IInv
<1> USE DEF LitterBound, DiskLitterBound
<1>4. ASSUME NEW t \in Threads, SaveFails(t)
      PROVE  LitterBound' /\ DiskLitterBound'
      BY <1>2, <1>3, <1>4 DEF SaveFails, litter
<1>5. CASE Crash
      BY <1>1, <1>2, <1>3, <1>5 DEF Crash, ProcessEnds
<1>6. CASE PowerLoss
      BY <1>2, <1>3, <1>6 DEF PowerLoss, ProcessEnds
<1>7. CASE Writeback
      BY <1>1, <1>2, <1>3, <1>7 DEF Writeback
<1>8. CASE UNCHANGED <<crashes, litter>>
      BY <1>3, <1>8 DEF litter
<1>9. \/ \E t \in Threads : SaveFails(t)
      \/ Crash \/ PowerLoss \/ Writeback
      \/ UNCHANGED <<crashes, litter>>
      BY DEF Next, Step, Call, Lock, Load, LoadFails, CreateTemp, WriteTemp,
             SyncTemp, Rename, Unlock, vars
<1>10. QED BY <1>4, <1>5, <1>6, <1>7, <1>8, <1>9

\* The invariant holds in every reachable state, power loss or not.
THEOREM Invariance == Spec => []IInv
<1>1. IInv /\ [Next]_vars => IInv'
      BY NextKeepsTypes, NextKeepsThreads, NextKeepsFile, NextKeepsLitter
      DEF IInv
<1>2. QED BY <1>1, InitEstablishesIInv, PTL DEF Spec

\* The state keeps its types.
THEOREM TypeCorrectness == Spec => []TypeOK
<1>1. IInv => TypeOK
      BY DEF IInv
<1>2. QED BY <1>1, Invariance, PTL

\* The path never names a partial document, whatever fails or goes down.
THEOREM FileIsNeverTorn == Spec => []NeverTorn
<1>1. IInv => NeverTorn
      BY DEF IInv
<1>2. QED BY <1>1, Invariance, PTL

\* No write is computed from a document that another has replaced.
THEOREM NoUpdateIsLost == Spec => []NoLostUpdate
<1>1. IInv => NoLostUpdate
      BY DEF IInv
<1>2. QED BY <1>1, Invariance, PTL

\* There are never more stray temporary files than there were crashes, power
\* losses and clean-ups that failed: a save that fails leaves nothing unless
\* os.Remove fails as well (file.go 227), and no crash or power loss leaves,
\* or brings back, more than the one file of the save under way.
THEOREM LitterIsBounded == Spec => []LitterBound
<1>1. IInv => LitterBound
      BY DEF IInv
<1>2. QED BY <1>1, Invariance, PTL

\* Every step keeps versions in order: the mutex is held from the load to the
\* unlock, so what a save makes of the file's version is still the next one
\* when it is renamed.
LEMMA NextKeepsVersions ==
    IInv /\ VersionsInOrder /\ [Next]_vars => VersionsInOrder'
<1> SUFFICES ASSUME IInv, VersionsInOrder, [Next]_vars
             PROVE  VersionsInOrder'
    OBVIOUS
<1> USE DEF IInv, TypeOK, Steps, VersionsInOrder, AckedWritesSurvive, File
<1>1. ASSUME NEW t \in Threads,
             \/ Lock(t) \/ Load(t) \/ LoadFails(t) \/ SaveFails(t)
             \/ CreateTemp(t) \/ \E o \in Ops : Call(t, o)
      PROVE  VersionsInOrder'
      BY <1>1
      DEF Lock, Load, LoadFails, SaveFails, CreateTemp, Call, Goto, Saving
<1>2. ASSUME NEW t \in Threads, WriteTemp(t) \/ SyncTemp(t)
      PROVE  VersionsInOrder'
      BY <1>2 DEF WriteTemp, SyncTemp, Goto, TmpState
<1>3. ASSUME NEW t \in Threads, Rename(t)
      PROVE  VersionsInOrder'
  <2>1. \A u \in Threads : pc'[u] \notin {"sync", "rename"}
        BY <1>3, OneInside DEF Rename, Goto
  <2>2. /\ file'.version = file.version + 1 /\ acked' = acked
        /\ file.version \in Nat /\ acked \in Nat
        BY <1>3 DEF Rename
  <2>3. QED BY <2>1, <2>2
<1>4. ASSUME NEW t \in Threads, Unlock(t)
      PROVE  VersionsInOrder'
      BY <1>4 DEF Unlock, Goto
<1>5. CASE Crash \/ PowerLoss
      BY <1>5 DEF Crash, PowerLoss, ProcessEnds
<1>6. CASE Writeback \/ UNCHANGED vars
      BY <1>6 DEF Writeback, vars
<1>7. QED
  BY <1>1, <1>2, <1>3, <1>4, <1>5, <1>6 DEF Next, Step

\* What a write returned nil for is never lost to a process that fails or is
\* killed, at any step of any save; only the machine going down can take it
\* back, because saveLocked does not fsync the directory (file.go 238-249).
THEOREM AckedWritesSurviveCrashes ==
    ASSUME ~PowerLossPossible
    PROVE  Spec => []AckedWritesSurvive
<1>1. Init => VersionsInOrder
      BY DEF Init, VersionsInOrder, AckedWritesSurvive
<1>2. VersionsInOrder => AckedWritesSurvive
      BY DEF VersionsInOrder
<1>3. QED BY <1>1, <1>2, NextKeepsVersions, Invariance, PTL DEF Spec

-----------------------------------------------------------------------------
(* The store implements CredentialMap.                                     *)

\* The instance's copy of the data operators is the same data.
LEMMA SameData ==
    /\ Map!Empty = Empty /\ Map!IOError = IOError /\ Map!Ops = Ops
    /\ \A o, m : /\ Map!Refused(o, m) = Refused(o, m)
                 /\ Map!Effect(o, m) = Effect(o, m)
                 /\ Map!Answer(o, m) = Answer(o, m)
<1>1. Map!Empty = Empty /\ Map!IOError = IOError
      BY DEF Map!Empty, Empty, Map!IOError, IOError
<1>2. Map!Ops = Ops
      BY DEF Map!Ops, Ops, Map!Reads, Reads, Map!Writes, Writes,
             Map!Credential, Credential
<1>3. ASSUME NEW o, NEW m
      PROVE  /\ Map!Refused(o, m) = Refused(o, m)
             /\ Map!Effect(o, m) = Effect(o, m)
             /\ Map!Answer(o, m) = Answer(o, m)
  <2>1. Map!Refused(o, m) = Refused(o, m)
        BY DEF Map!Refused, Refused
  <2>2. Map!Effect(o, m) = Effect(o, m)
        BY DEF Map!Effect, Effect
  <2>3. Map!Found(o, m) = Found(o, m)
        BY DEF Map!Found, Found, Map!Selects, Selects
  <2>4. QED BY <2>1, <2>2, <2>3 DEF Map!Answer, Answer
<1>4. QED BY <1>1, <1>2, <1>3

\* The load is where a read and a refused write take effect; for a write
\* that will save, it is invisible.
LEMMA LoadPerforms ==
    ASSUME IInv, NEW t \in Threads, Load(t)
    PROVE  Map!Perform(t) \/ UNCHANGED Map!mapVars
<1> USE DEF IInv, TypeOK, CallState, Load
<1>1. file.data \in Contents /\ op[t] \in Ops /\ ret[t] = None
      BY DEF File, FileData
<1>2. CASE op[t] \in Reads \/ Refused(op[t], file.data)
      BY <1>1, <1>2, ReadEffect, SameData DEF Map!Perform, Ops
<1>3. CASE ~(op[t] \in Reads \/ Refused(op[t], file.data))
      BY <1>3 DEF Map!mapVars
<1>4. QED BY <1>2, <1>3

\* The rename is where a write takes effect.
LEMMA RenamePerforms ==
    ASSUME IInv, NEW t \in Threads, Rename(t)
    PROVE  Map!Perform(t)
<1> USE DEF IInv, TypeOK, CallState, Rename
<1>1. file.data \in Contents /\ op[t] \in Writes /\ ret[t] = None
      BY DEF File, FileData, NeverTorn, Saving
<1>2. /\ ~Refused(op[t], file.data)
      /\ tmp[t].data = Effect(op[t], file.data)
      BY DEF NoLostUpdate, TmpState, Saving
<1>3. Answer(op[t], file.data) = [status |-> "ok", found |-> Empty]
      BY <1>1, <1>2, WriteAnswer
<1>4. QED BY <1>1, <1>2, <1>3, SameData DEF Map!Perform

\* With a disk that keeps what the kernel was told, the store is the
\* linearizable, crash-safe map the handlers take it for.
THEOREM StoreImplementsMap ==
    ASSUME ~PowerLossPossible
    PROVE  Spec => ImplementsMap
<1>1. Init => Map!MapInit
      BY SameData DEF Init, Map!MapInit
<1>2. IInv /\ [Next]_vars => [Map!MapNext]_Map!mapVars
  <2> SUFFICES ASSUME IInv, [Next]_vars
               PROVE  Map!MapNext \/ UNCHANGED Map!mapVars
      OBVIOUS
  <2> USE DEF IInv
  <2>1. ASSUME NEW t \in Threads, NEW o \in Ops, Call(t, o)
        PROVE  Map!Invoke(t, o)
        BY <2>1 DEF Call, Map!Invoke, CallState
  <2>2. ASSUME NEW t \in Threads,
               Lock(t) \/ CreateTemp(t) \/ WriteTemp(t) \/ SyncTemp(t)
        PROVE  UNCHANGED Map!mapVars
        BY <2>2 DEF Lock, CreateTemp, WriteTemp, SyncTemp, Map!mapVars
  <2>3. ASSUME NEW t \in Threads, LoadFails(t) \/ SaveFails(t)
        PROVE  Map!Fail(t)
    <3>1. op[t] # None /\ ret[t] = None
          BY <2>3 DEF LoadFails, SaveFails, CallState, Saving
    <3>2. QED BY <2>3, <3>1, SameData DEF LoadFails, SaveFails, Map!Fail
  <2>4. ASSUME NEW t \in Threads, Unlock(t)
        PROVE  Map!Return(t)
        BY <2>4 DEF Unlock, Map!Return, CallState
  <2>5. CASE Crash
        BY <2>5 DEF Crash, ProcessEnds, Map!Crash, Map!MapNext
  <2>6. ~Writeback /\ ~PowerLoss
        BY DEF Writeback, PowerLoss
  <2>7. CASE UNCHANGED vars
        BY <2>7 DEF vars, Map!mapVars
  <2>8. QED
    BY <2>1, <2>2, <2>3, <2>4, <2>5, <2>6, <2>7, LoadPerforms, RenamePerforms,
       SameData
    DEF Next, Step, Map!MapNext
<1>3. QED BY <1>1, <1>2, Invariance, PTL DEF Spec, ImplementsMap, Map!Spec

=============================================================================
