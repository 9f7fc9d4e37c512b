------------------------------ MODULE FileStore ------------------------------
(***************************************************************************)
(* internal/store/file.go step by step: every method takes the Store's     *)
(* mutex, loads the whole file, and a write saves the whole file again     *)
(* through a temporary one: create, write, fsync, rename.  Any of these    *)
(* steps may fail, the process may be killed between any two, and, when    *)
(* PowerLossPossible, the machine may lose what the kernel had not yet     *)
(* written back.                                                           *)
(***************************************************************************)
EXTENDS Credentials, FiniteSets

CONSTANTS
    Threads,            \* goroutines that call the store
    MaxWrites,          \* bound on the writes called for
    MaxCrashes,         \* bound on crashes and power losses
    PowerLossPossible,  \* may the machine, not just the process, go down?
    Torn,               \* file data that is a proper, non-empty part of a
                        \* document: json.Unmarshal rejects it
    None

ASSUME BoundAssumption ==
    MaxWrites \in Nat /\ MaxCrashes \in Nat /\ PowerLossPossible \in BOOLEAN

FileData == Contents \cup {Torn}
File     == [data : FileData, synced : BOOLEAN, version : Nat]

Saving == {"create", "write", "sync", "rename"}
Steps  == {"idle", "lock", "load", "unlock"} \cup Saving

ASSUME NoneAssumption ==
    /\ None \notin Threads /\ None \notin File /\ None \notin Ops
    /\ None \notin Contents /\ None \notin Answers
    /\ Torn \notin Contents

VARIABLES
    mu,       \* Store.mu: the thread that holds it, or None
    pc,       \* the step each thread is at
    op,       \* the method it called, with its arguments
    buf,      \* the document saveLocked encoded
    tmp,      \* the temporary file of its save, None when there is none
    ret,      \* what the method will return
    file,     \* what s.path names, as the process sees it
    disk,     \* what s.path would name after a power loss
    acked,    \* history: the newest version a write returned nil for
    writes,   \* how many writes were called for
    crashes,  \* how many times the process or the machine went down
    orphans,  \* temporary files that nobody will remove
    diskOrphans, \* how many there would be after a power loss
    uncleaned    \* history: how many saves failed to remove theirs

litter == <<orphans, diskOrphans, uncleaned>>
vars == <<mu, pc, op, buf, tmp, ret, file, disk, acked,
          writes, crashes, litter>>

TypeOK ==
    /\ mu \in Threads \cup {None}
    /\ pc \in [Threads -> Steps]
    /\ op \in [Threads -> Ops \cup {None}]
    /\ buf \in [Threads -> Contents \cup {None}]
    /\ tmp \in [Threads -> File \cup {None}]
    /\ ret \in [Threads -> Answers \cup {None}]
    /\ file \in File
    /\ disk \in File
    /\ acked \in Nat
    /\ writes \in 0 .. MaxWrites
    /\ crashes \in 0 .. MaxCrashes
    /\ orphans \in Nat /\ diskOrphans \in Nat /\ uncleaned \in Nat

-----------------------------------------------------------------------------
(* The calls.                                                              *)

Init ==
    /\ mu = None
    /\ pc = [t \in Threads |-> "idle"]
    /\ op = [t \in Threads |-> None]
    /\ buf = [t \in Threads |-> None]
    /\ tmp = [t \in Threads |-> None]
    /\ ret = [t \in Threads |-> None]
    /\ file = [data |-> Empty, synced |-> TRUE, version |-> 0]
    /\ disk = file
    /\ acked = 0
    /\ writes = 0
    /\ crashes = 0
    /\ orphans = 0
    /\ diskOrphans = 0
    /\ uncleaned = 0

Goto(t, s) == pc' = [pc EXCEPT ![t] = s]

\* A handler calls a method, which starts by asking for the mutex.
Call(t, o) ==
    /\ pc[t] = "idle"
    /\ IF o \in Writes
       THEN writes < MaxWrites /\ writes' = writes + 1
       ELSE UNCHANGED writes
    /\ op' = [op EXCEPT ![t] = o]
    /\ Goto(t, "lock")
    /\ UNCHANGED <<mu, buf, tmp, ret, file, disk, acked, crashes, litter>>

\* Fault: the method does not take the mutex.
LockUnguarded(t) ==
    /\ pc[t] = "lock"
    /\ mu' = t
    /\ Goto(t, "load")
    /\ UNCHANGED <<op, buf, tmp, ret, file, disk, acked, writes, crashes, litter>>

\* s.mu.Lock()
Lock(t) ==
    /\ pc[t] = "lock"
    /\ mu = None
    /\ mu' = t
    /\ Goto(t, "load")
    /\ UNCHANGED <<op, buf, tmp, ret, file, disk, acked, writes, crashes, litter>>

\* Fault: the mutex covers the load only, and the save runs without it.
LoadThenUnlock(t) ==
    /\ pc[t] = "load"
    /\ file.data # Torn
    /\ IF op[t] \in Reads \/ Refused(op[t], file.data)
       THEN /\ ret' = [ret EXCEPT ![t] = Answer(op[t], file.data)]
            /\ Goto(t, "unlock")
            /\ UNCHANGED <<mu, buf>>
       ELSE /\ buf' = [buf EXCEPT ![t] = Effect(op[t], file.data)]
            /\ Goto(t, "create")
            /\ mu' = None
            /\ UNCHANGED ret
    /\ UNCHANGED <<op, tmp, file, disk, acked, writes, crashes, litter>>

\* Fault: UpdateSignCount adds the credential that it does not find, with no
\* owner and no key.
LoadUpserting(t) ==
    /\ pc[t] = "load"
    /\ file.data # Torn
    /\ IF op[t].kind = "UpdateSignCount"
       THEN /\ buf' = [buf EXCEPT ![t] =
                  [file.data EXCEPT ![op[t].id] =
                     IF Refused(op[t], file.data)
                     THEN [user |-> "", key |-> "", count |-> op[t].count]
                     ELSE [@ EXCEPT !.count = op[t].count]]]
            /\ Goto(t, "create")
            /\ UNCHANGED ret
       ELSE IF op[t] \in Reads \/ Refused(op[t], file.data)
       THEN /\ ret' = [ret EXCEPT ![t] = Answer(op[t], file.data)]
            /\ Goto(t, "unlock")
            /\ UNCHANGED buf
       ELSE /\ buf' = [buf EXCEPT ![t] = Effect(op[t], file.data)]
            /\ Goto(t, "create")
            /\ UNCHANGED ret
    /\ UNCHANGED <<mu, op, tmp, file, disk, acked, writes, crashes, litter>>

\* loadLocked, then what the method makes of it: a read and a refused write
\* have their answer, any other write goes on to save a new document.
Load(t) ==
    /\ pc[t] = "load"
    /\ file.data # Torn
    /\ IF op[t] \in Reads \/ Refused(op[t], file.data)
       THEN /\ ret' = [ret EXCEPT ![t] = Answer(op[t], file.data)]
            /\ Goto(t, "unlock")
            /\ UNCHANGED buf
       ELSE /\ buf' = [buf EXCEPT ![t] = Effect(op[t], file.data)]
            /\ Goto(t, "create")
            /\ UNCHANGED ret
    /\ UNCHANGED <<mu, op, tmp, file, disk, acked, writes, crashes, litter>>

\* Fault: a load that fails is retried for ever.
LoadRetries(t) ==
    /\ pc[t] = "load"
    /\ mu' = None
    /\ Goto(t, "lock")
    /\ UNCHANGED <<op, buf, tmp, ret, file, disk, acked, writes, crashes, litter>>

\* The file cannot be read or parsed.
LoadFails(t) ==
    /\ pc[t] = "load"
    /\ ret' = [ret EXCEPT ![t] = IOError]
    /\ Goto(t, "unlock")
    /\ UNCHANGED <<mu, op, buf, tmp, file, disk, acked, writes, crashes, litter>>

\* os.MkdirAll, os.CreateTemp
CreateTemp(t) ==
    /\ pc[t] = "create"
    /\ tmp' = [tmp EXCEPT ![t] = [data |-> Empty, synced |-> FALSE,
                                  version |-> file.version]]
    /\ Goto(t, "write")
    /\ UNCHANGED <<mu, op, buf, ret, file, disk, acked, writes, crashes, litter>>

\* tmp.Chmod, tmp.Write
WriteTemp(t) ==
    /\ pc[t] = "write"
    /\ tmp' = [tmp EXCEPT ![t] = [data |-> buf[t], synced |-> FALSE,
                                  version |-> file.version + 1]]
    /\ Goto(t, "sync")
    /\ UNCHANGED <<mu, op, buf, ret, file, disk, acked, writes, crashes, litter>>

\* Fault: the temporary file is closed without an fsync.
CloseTemp(t) ==
    /\ pc[t] = "sync"
    /\ Goto(t, "rename")
    /\ UNCHANGED <<mu, op, buf, tmp, ret, file, disk, acked, writes, crashes, litter>>

\* tmp.Sync, tmp.Close
SyncTemp(t) ==
    /\ pc[t] = "sync"
    /\ tmp' = [tmp EXCEPT ![t].synced = TRUE]
    /\ Goto(t, "rename")
    /\ UNCHANGED <<mu, op, buf, ret, file, disk, acked, writes, crashes, litter>>

\* os.Rename; the deferred os.Remove finds nothing.
Rename(t) ==
    /\ pc[t] = "rename"
    /\ file' = tmp[t]
    /\ tmp' = [tmp EXCEPT ![t] = None]
    /\ buf' = [buf EXCEPT ![t] = None]
    /\ ret' = [ret EXCEPT ![t] = [status |-> "ok", found |-> Empty]]
    /\ Goto(t, "unlock")
    /\ UNCHANGED <<mu, op, disk, acked, writes, crashes, litter>>

\* Fault: the error of a failed save is dropped.
SaveFailsUnnoticed(t) ==
    /\ pc[t] \in Saving
    /\ tmp' = [tmp EXCEPT ![t] = None]
    /\ buf' = [buf EXCEPT ![t] = None]
    /\ ret' = [ret EXCEPT ![t] = [status |-> "ok", found |-> Empty]]
    /\ Goto(t, "unlock")
    /\ UNCHANGED <<mu, op, file, disk, acked, writes, crashes, litter>>

\* A step of saveLocked returns an error: the deferred os.Remove takes the
\* temporary file away, if there is one yet.  When that fails too nobody
\* learns of it, and the file stays.
SaveFails(t) ==
    /\ pc[t] \in Saving
    /\ tmp' = [tmp EXCEPT ![t] = None]
    /\ buf' = [buf EXCEPT ![t] = None]
    /\ ret' = [ret EXCEPT ![t] = IOError]
    /\ Goto(t, "unlock")
    /\ \/ UNCHANGED litter
       \/ /\ tmp[t] # None
          /\ orphans' = orphans + 1
          /\ uncleaned' = uncleaned + 1
          /\ UNCHANGED diskOrphans
    /\ UNCHANGED <<mu, op, file, disk, acked, writes, crashes>>

\* The deferred s.mu.Unlock(), and the return.
Unlock(t) ==
    /\ pc[t] = "unlock"
    /\ mu' = None
    /\ acked' = IF op[t] \in Writes /\ ret[t].status = "ok"
                THEN file.version ELSE acked
    /\ op' = [op EXCEPT ![t] = None]
    /\ ret' = [ret EXCEPT ![t] = None]
    /\ Goto(t, "idle")
    /\ UNCHANGED <<buf, tmp, file, disk, writes, crashes, litter>>

-----------------------------------------------------------------------------
(* The environment.                                                        *)

\* The temporary files there are a name for: those that were left behind,
\* and those of saves under way.
TempNames == orphans + Cardinality({t \in Threads : tmp[t] # None})

\* The process dies: every call is cut off.  The next process opens the same
\* path (Open).
ProcessEnds ==
    /\ crashes < MaxCrashes
    /\ crashes' = crashes + 1
    /\ mu' = None
    /\ pc' = [t \in Threads |-> "idle"]
    /\ op' = [t \in Threads |-> None]
    /\ buf' = [t \in Threads |-> None]
    /\ tmp' = [t \in Threads |-> None]
    /\ ret' = [t \in Threads |-> None]
    /\ UNCHANGED <<disk, acked, writes, diskOrphans, uncleaned>>

\* A process that is killed leaves its temporary file where it is.
Crash ==
    /\ ProcessEnds
    /\ orphans' = TempNames
    /\ UNCHANGED file

\* The kernel writes the directory back as it is now (a journaling file
\* system keeps the order of creations, renames and removals), and whatever
\* part of the file's data it pleases when nobody asked for an fsync.
Writeback ==
    /\ PowerLossPossible
    /\ \E d \in IF file.synced THEN {file.data} ELSE {file.data, Torn, Empty} :
           disk' = [data |-> d, synced |-> TRUE, version |-> file.version]
    /\ diskOrphans' = TempNames
    /\ UNCHANGED <<mu, pc, op, buf, tmp, ret, file, acked,
                   writes, crashes, orphans, uncleaned>>

\* saveLocked never fsyncs the directory, so a rename not yet written back
\* is undone, and so is the removal of a temporary file.
PowerLoss ==
    /\ PowerLossPossible
    /\ ProcessEnds
    /\ file' = disk
    /\ orphans' = diskOrphans

Step(t) ==
    \/ Lock(t) \/ Load(t) \/ LoadFails(t)
    \/ CreateTemp(t) \/ WriteTemp(t) \/ SyncTemp(t) \/ Rename(t)
    \/ SaveFails(t) \/ Unlock(t)

Next ==
    \/ \E t \in Threads, o \in Ops : Call(t, o)
    \/ \E t \in Threads : Step(t)
    \/ Crash \/ Writeback \/ PowerLoss

Spec == Init /\ [][Next]_vars

\* Each thread goes on once it holds the mutex; a thread that waits for the
\* mutex gets it if it is free again and again (sync.Mutex hands itself to a
\* waiter that has starved for 1ms).
Fairness == \A t \in Threads : WF_vars(Step(t)) /\ SF_vars(Lock(t))

FairSpec == Spec /\ Fairness

-----------------------------------------------------------------------------
(* Properties.                                                             *)

\* The path never names a partial document, whatever fails or crashes: the
\* fsync comes before the rename (file.go 238-249).
NeverTorn == file.data # Torn /\ disk.data # Torn

\* What a write is about to save was computed from what the file still
\* holds: the mutex spans the load and the rename, so no write is lost
\* under another (file.go 38-40).
NoLostUpdate ==
    \A t \in Threads :
        pc[t] \in Saving => /\ ~Refused(op[t], file.data)
                            /\ buf[t] = Effect(op[t], file.data)

\* Temporary files do not pile up: each that stays is owed to a crash, to a
\* power loss or to a clean-up that failed (file.go 227), and none of these
\* leaves two, because saves do not overlap.
LitterBound == orphans <= crashes + uncleaned

\* A write that returned nil is still in the file, whatever went down since.
AckedWritesSurvive == file.version >= acked

\* Every method call returns, or the process dies first.
EveryCallReturns ==
    \A t \in Threads : pc[t] # "idle" ~> pc[t] = "idle"

\* The store implements CredentialMap: each call takes effect at one instant
\* (a read at its load, a write at its rename), an error means that nothing
\* changed, and a crash changes nothing.
Map == INSTANCE CredentialMap WITH
           map <- file.data, request <- op, answer <- ret

ImplementsMap == Map!Spec

-----------------------------------------------------------------------------
(* Why the properties hold: the inductive invariant.                       *)

\* One thread at a time is between its Lock and its Unlock.
MutexHeld ==
    \A t \in Threads : mu = t <=> pc[t] \notin {"idle", "lock"}

\* What a thread carries at each step of its call.
CallState ==
    \A t \in Threads :
        /\ op[t] = None <=> pc[t] = "idle"
        /\ ret[t] = None <=> pc[t] # "unlock"
        /\ pc[t] \in Saving => op[t] \in Writes

\* The temporary file of a save: complete before the fsync, durable before
\* the rename.
TmpState ==
    \A t \in Threads :
        /\ tmp[t] = None <=> pc[t] \notin {"write", "sync", "rename"}
        /\ pc[t] \in {"sync", "rename"} => tmp[t].data = buf[t]
        /\ pc[t] = "rename" => tmp[t].synced

\* What a power loss would bring back: at most the file of the save that was
\* under way when the directory was last written back, besides what was
\* left behind by then.
DiskLitterBound == diskOrphans <= crashes + uncleaned + 1

\* Whatever the path names was fsynced before it got there.
OnlySynced == file.synced /\ disk.synced

\* A save puts the next version in place, and as long as only the process
\* goes down none is ever taken back.
VersionsInOrder ==
    /\ \A t \in Threads : pc[t] \in {"sync", "rename"} =>
          tmp[t].version = file.version + 1
    /\ ~PowerLossPossible => AckedWritesSurvive

IInv == /\ TypeOK
        /\ MutexHeld
        /\ CallState
        /\ TmpState
        /\ NoLostUpdate
        /\ NeverTorn
        /\ OnlySynced
        /\ LitterBound
        /\ DiskLitterBound

=============================================================================
