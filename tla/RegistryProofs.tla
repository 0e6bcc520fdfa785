--------------------------- MODULE RegistryProofs ---------------------------
(***************************************************************************)
(* For any number of runs, saves and cuts: the lock and the file each keep *)
(* their promise by themselves and when they work together, and no run's   *)
(* save is lost to another's, since the document a run has in memory is    *)
(* the one at the path for as long as the run is inside the lock.          *)
(***************************************************************************)
EXTENDS Registry, FiniteSetTheorems, TLAPS

USE OperationsAssumption, BoundsAssumption

-----------------------------------------------------------------------------
(* The lock by itself.  One of its runs works at a time, because whoever   *)
(* works holds it: a run that is inside, or one whose backup lives on with *)
(* the descriptor it inherited.                                            *)

\* Every run that works is the holder.
WorkersHold == \A o \in Operations : o \in Busy => holder = o

\* A controller that waits for its backup command has one.
BackupLives == \A o \in Operations : At(o, "backup") => o \in children

LockInv == LockTypeOK /\ WorkersHold /\ BackupLives

-----------------------------------------------------------------------------
\* At the start nobody is inside.
LEMMA LockInitial == LockInit => LockInv
  BY DEF LockInit, LockInv, LockTypeOK, LockSteps, Waiting, WorkersHold, BackupLives,
         Busy, Inside, At

\* A step of any run keeps the lock with those who work.
LEMMA LockStep == LockInv /\ [LockNext]_lockVars => LockInv'
<1> SUFFICES ASSUME LockInv, [LockNext]_lockVars PROVE LockInv'
  OBVIOUS
<1> USE DEF LockInv, LockTypeOK, LockSteps, Waiting, WorkersHold, BackupLives,
            Busy, Inside, At, Goto
<1>1. ASSUME NEW o \in Operations, Open(o) PROVE LockInv'
  BY <1>1 DEF Open
<1>2. ASSUME NEW o \in Operations, Wait(o) PROVE LockInv'
  <2>1. CASE Acquire(o) BY <2>1 DEF Acquire
  <2>2. CASE Blocked(o) BY <2>2 DEF Blocked
  <2>3. CASE Sleep(o) BY <2>3 DEF Sleep
  <2>4. CASE Refuse(o) BY <2>4 DEF Refuse
  <2> QED BY <1>2, <2>1, <2>2, <2>3, <2>4 DEF Wait
<1>3. ASSUME NEW o \in Operations, DeadlinePasses(o) PROVE LockInv'
  BY <1>3 DEF DeadlinePasses
<1>4. ASSUME NEW o \in Operations, StartBackup(o) PROVE LockInv'
  BY <1>4 DEF StartBackup
<1>5. ASSUME NEW o \in Operations, Work(o) PROVE LockInv'
  <2>1. CASE BackupReturns(o) BY <2>1 DEF BackupReturns
  <2>2. CASE Leave(o) BY <2>2 DEF Leave, Closed
  <2> QED BY <1>5, <2>1, <2>2 DEF Work
<1>6. ASSUME NEW o \in Operations, Killed(o) PROVE LockInv'
  BY <1>6 DEF Killed, Closed
<1>7. ASSUME NEW o \in Operations, ChildEnds(o) PROVE LockInv'
  BY <1>7 DEF ChildEnds
<1>8. CASE HostRestarts
  BY <1>8 DEF HostRestarts
<1>9. CASE UNCHANGED lockVars
  BY <1>9 DEF lockVars
<1> QED BY <1>1, <1>2, <1>3, <1>4, <1>5, <1>6, <1>7, <1>8, <1>9 DEF LockNext

\* The inductive invariant holds in every reachable state.
THEOREM LockInvariance == LockSpec => []LockInv
  BY LockInitial, LockStep, PTL DEF LockSpec

\* Types hold, and a deadline never outlives its wait.
THEOREM LockTypeCorrect == LockSpec => []LockTypeOK
<1>1. LockInv => LockTypeOK
  BY DEF LockInv
<1> QED BY <1>1, LockInvariance, PTL

\* One run at a time works on the instances, surviving backups included.
THEOREM LockExclusion == LockSpec => []OneRunWorks
<1>1. LockInv => OneRunWorks
  BY DEF LockInv, LockTypeOK, WorkersHold, OneRunWorks, Busy
<1> QED BY <1>1, LockInvariance, PTL

-----------------------------------------------------------------------------
(* The file by itself.  The argument is the order of the system calls:     *)
(* whatever the path may name on disk was synced before it got the name,   *)
(* is at least as new as the last acknowledged document, and no newer than *)
(* what processes see.                                                     *)

\* What the writer has achieved where it is.
Progress ==
    /\ call \in {"writing", "written", "synced"} => path < version
    /\ call = "written" => version \in written
    /\ call = "synced" => version \in durable
    /\ call \in {"replaced", "stable"} => path = version
    /\ call = "stable" => onDisk = {path}

\* The documents the disk may show lie between the acknowledged and the visible one.
Between == \A d \in onDisk : acknowledged <= d /\ d <= path

FileInv == FileTypeOK /\ NeverTorn /\ Progress /\ Between

-----------------------------------------------------------------------------
\* The first document is whole and everywhere.
LEMMA FileInitial == FileInit => FileInv
  BY DEF FileInit, FileInv, FileTypeOK, NeverTorn, Progress, Between, Calls, Documents

\* A step of the writer, its failure or a cut keeps the order of the disk's documents.
LEMMA FileStep == FileInv /\ [FileNext]_fileVars => FileInv'
<1> SUFFICES ASSUME FileInv, [FileNext]_fileVars PROVE FileInv'
  OBVIOUS
<1> USE DEF FileInv, FileTypeOK, NeverTorn, Progress, Between, Calls, Documents
<1>1. CASE MakeTemporary
  BY <1>1 DEF MakeTemporary
<1>2. CASE WriteDocument
  BY <1>2 DEF WriteDocument
<1>3. CASE SyncDocument
  BY <1>3 DEF SyncDocument
<1>4. CASE Replace
  BY <1>4 DEF Replace
<1>5. CASE SyncDirectory
  BY <1>5 DEF SyncDirectory
<1>6. CASE WriteReturns
  BY <1>6 DEF WriteReturns
<1>7. CASE WriteFails
  BY <1>7 DEF WriteFails
<1>8. CASE WriterKilled
  BY <1>8 DEF WriterKilled
<1>9. CASE PowerLoss
  <2>1. PICK lucky \in SUBSET (written \ durable) : written' = durable \cup lucky
    BY <1>9 DEF PowerLoss
  <2>2. FileTypeOK'
    BY <1>9, <2>1 DEF PowerLoss
  <2>3. NeverTorn'
    BY <1>9, <2>1 DEF PowerLoss
  <2>4. Progress' /\ Between'
    BY <1>9 DEF PowerLoss
  <2> QED BY <2>2, <2>3, <2>4
<1>10. CASE UNCHANGED fileVars
  BY <1>10 DEF fileVars
<1> QED BY <1>1, <1>2, <1>3, <1>4, <1>5, <1>6, <1>7, <1>8, <1>9, <1>10 DEF FileNext

\* The inductive invariant holds in every reachable state.
THEOREM FileInvariance == FileSpec => []FileInv
  BY FileInitial, FileStep, PTL DEF FileSpec

\* The path has a whole document, in the page cache and on the disk.
THEOREM FileWhole == FileSpec => []NeverTorn
<1>1. FileInv => NeverTorn
  BY DEF FileInv
<1> QED BY <1>1, FileInvariance, PTL

-----------------------------------------------------------------------------
\* The document a process finds at the path.
Visible == IF path \in written THEN path ELSE -1

\* It is the one the path names, since that one is whole.
LEMMA VisibleIsPath == FileInv => Visible = path
  BY DEF FileInv, NeverTorn, Visible

\* replace_json implements StoredDocument through failures, kills and losses of power.
THEOREM FileRefinement == FileSpec => ImplementsStoredDocument
<1> DEFINE AbstractNext == Stored!Next \/ UNCHANGED <<Visible, acknowledged>>
<1>1. FileInit => Stored!Init
  BY DEF FileInit, Stored!Init
<1>2. (FileInv => Visible = path)'
  BY VisibleIsPath, PTL
<1>3. FileInv /\ FileInv' /\ [FileNext]_fileVars => AbstractNext
  <2> SUFFICES ASSUME FileInv, FileInv', [FileNext]_fileVars PROVE AbstractNext
    OBVIOUS
  <2>1. Visible = path /\ Visible' = path'
    BY <1>2, VisibleIsPath
  <2>2. CASE Replace
    <3>1. path' \in Nat /\ path' > path /\ UNCHANGED acknowledged
      BY <2>2 DEF Replace, FileInv, FileTypeOK, Progress, Documents
    <3> QED BY <2>1, <3>1 DEF Stored!Next, Stored!Replace, Visible
  <2>3. CASE WriteReturns
    <3>1. acknowledged' = path /\ UNCHANGED path
      BY <2>3 DEF WriteReturns, FileInv, Progress
    <3> QED BY <2>1, <3>1 DEF Stored!Next, Stored!Promise, Visible
  <2>4. CASE PowerLoss
    <3>1. path' \in acknowledged .. path /\ UNCHANGED acknowledged
      BY <2>4 DEF PowerLoss, FileInv, FileTypeOK, Between, Documents
    <3> QED BY <2>1, <3>1 DEF Stored!Next, Stored!Revert, Visible
  <2>5. CASE UNCHANGED <<path, acknowledged>>
    BY <2>1, <2>5
  <2> QED
    BY <2>2, <2>3, <2>4, <2>5
    DEF FileNext, MakeTemporary, WriteDocument, SyncDocument, SyncDirectory, WriteFails,
        WriterKilled, fileVars
<1> QED
  BY <1>1, <1>3, FileInvariance, PTL DEF FileSpec, ImplementsStoredDocument, Stored!Spec, Visible

-----------------------------------------------------------------------------
(* The temporary files that writers leave behind.                          *)

\* Those of the calls that are over: the call in progress will remove its own.
Leftovers == IF call = "idle" THEN temporaries ELSE temporaries \ {version}

\* A renamed file has no temporary name any more.
Renamed == call \in {"replaced", "stable"} => version \notin temporaries

LeftoversInv == Renamed /\ LeftoversFromCuts

LEMMA FiniteTemporaries ==
    ASSUME FileInv
    PROVE  IsFiniteSet(temporaries) /\ IsFiniteSet(Leftovers) /\ Cardinality(Leftovers) \in Nat
<1>1. IsFiniteSet(1 .. version) /\ temporaries \subseteq 1 .. version
  BY FS_Interval DEF FileInv, FileTypeOK, Documents
<1>2. IsFiniteSet(temporaries) /\ Leftovers \subseteq temporaries
  BY <1>1, FS_Subset DEF Leftovers
<1> QED BY <1>2, FS_Subset, FS_CardinalityType

\* A cut may leave the temporary file of the call it interrupts, and that only.
LEMMA CutLeavesOne ==
    ASSUME FileInv, FileInv', LeftoversInv, cuts' = cuts + 1,
           UNCHANGED <<temporaries, version>>, call' = "idle"
    PROVE  LeftoversFromCuts'
<1>1. Leftovers' \subseteq Leftovers \cup {version}
  BY DEF Leftovers
<1>2. IsFiniteSet(Leftovers) /\ Cardinality(Leftovers) \in Nat /\ Cardinality(Leftovers) <= cuts
  BY FiniteTemporaries DEF LeftoversInv, LeftoversFromCuts, Leftovers
<1>3. /\ IsFiniteSet(Leftovers \cup {version})
      /\ Cardinality(Leftovers \cup {version}) \in Nat
      /\ Cardinality(Leftovers \cup {version}) <= Cardinality(Leftovers) + 1
  <2> DEFINE L == Leftovers
  <2>1. IsFiniteSet(L) /\ Cardinality(L) \in Nat
    BY <1>2
  <2> HIDE DEF L
  <2>2. /\ IsFiniteSet(L \cup {version})
        /\ Cardinality(L \cup {version}) = Cardinality(L)
             \/ Cardinality(L \cup {version}) = Cardinality(L) + 1
    BY <2>1, FS_AddElement
  <2>3. Cardinality(L \cup {version}) \in Nat /\ Cardinality(L \cup {version}) <= Cardinality(L) + 1
    BY <2>1, <2>2
  <2> QED BY <2>2, <2>3 DEF L
<1>4. Cardinality(Leftovers') \in Nat /\ Cardinality(Leftovers') <= Cardinality(Leftovers) + 1
  BY <1>1, <1>3, FS_Subset, FS_CardinalityType
<1>5. cuts \in Nat
  BY DEF FileInv, FileTypeOK
<1>6. Cardinality(Leftovers') <= cuts'
  BY <1>2, <1>4, <1>5
<1> QED BY <1>6 DEF Leftovers, LeftoversFromCuts

LEMMA LeftoversStep == FileInv /\ FileInv' /\ LeftoversInv /\ [FileNext]_fileVars => LeftoversInv'
<1> SUFFICES ASSUME FileInv, FileInv', LeftoversInv, [FileNext]_fileVars PROVE LeftoversInv'
  OBVIOUS
<1>1. CASE MakeTemporary
  <2>1. version + 1 \notin temporaries
    BY DEF FileInv, FileTypeOK, Documents
  <2>2. Leftovers' = Leftovers
    BY <1>1, <2>1 DEF MakeTemporary, Leftovers
  <2> QED BY <1>1, <2>2 DEF MakeTemporary, LeftoversInv, Renamed, LeftoversFromCuts, Leftovers
<1>2. CASE WriteDocument \/ SyncDocument \/ Replace \/ SyncDirectory \/ WriteReturns \/ WriteFails
           \/ UNCHANGED fileVars
  <2>1. Leftovers' = Leftovers /\ Renamed' /\ cuts' = cuts
    BY <1>2 DEF WriteDocument, SyncDocument, Replace, SyncDirectory, WriteReturns, WriteFails,
                fileVars, Leftovers, LeftoversInv, Renamed
  <2> QED BY <2>1 DEF LeftoversInv, LeftoversFromCuts, Leftovers
<1>3. CASE WriterKilled \/ PowerLoss
  <2>1. cuts' = cuts + 1 /\ UNCHANGED <<temporaries, version>> /\ call' = "idle"
    BY <1>3 DEF WriterKilled, PowerLoss
  <2> QED BY <2>1, CutLeavesOne DEF LeftoversInv, Renamed
<1> QED BY <1>1, <1>2, <1>3 DEF FileNext

\* However many writes fail, only a kill or a loss of power leaves a temporary file
\* behind, and each at most one.
THEOREM FileLeftovers == FileSpec => []LeftoversFromCuts
<1>1. FileInit => LeftoversInv
  BY FS_EmptySet DEF FileInit, LeftoversInv, Renamed, LeftoversFromCuts
<1>2. LeftoversInv => LeftoversFromCuts
  BY DEF LeftoversInv
<1> QED BY <1>1, <1>2, LeftoversStep, FileInvariance, PTL DEF FileSpec

-----------------------------------------------------------------------------
(* Lock and file together.                                                 *)

USE NothingLoadedAssumption

\* What a run has in memory is what the path has, and it is inside the lock.
MemoryCurrent ==
    \A o \in Operations : loaded[o] # NothingLoaded => Inside(o) /\ loaded[o] = path

\* A save in progress belongs to a run that has loaded, and is not in its backup.
WriterInside ==
    call # "idle" =>
       \E o \in Operations : loaded[o] # NothingLoaded /\ pc[o] \in {"inside", "backedup"}

MemoryType == loaded \in [Operations -> Nat \cup {NothingLoaded}]

RegistryInv == MemoryType /\ MemoryCurrent /\ WriterInside

-----------------------------------------------------------------------------
\* Every step is one of the lock's and one of the file's, or leaves them alone.
LEMMA StepIsLocks == [Next]_vars => [LockNext]_lockVars
  BY DEF Next, vars, AtLock, Load, Save, Answer, Kill, PowerGoes, LockNext, Work

LEMMA StepIsFiles == [Next]_vars => [FileNext]_fileVars
  BY DEF Next, vars, AtLock, Load, Save, Answer, Kill, PowerGoes, FileNext

\* The registry implements both of its parts, so what is proved of the lock and of
\* the file holds for it.
THEOREM Composition == Spec => LockSpec /\ FileSpec
<1>1. Init => LockInit /\ FileInit
  BY DEF Init
<1> QED BY <1>1, StepIsLocks, StepIsFiles, PTL DEF Spec, LockSpec, FileSpec

\* One run at a time works on the instances, also while the file is written and cut.
THEOREM Exclusion == Spec => []OneRunWorks
  BY Composition, LockExclusion, PTL

\* The registry is whole whenever it is read.
THEOREM Whole == Spec => []NeverTorn
  BY Composition, FileWhole, PTL

-----------------------------------------------------------------------------
\* Only one run is inside.
LEMMA InsideAlone ==
    ASSUME LockInv, NEW o \in Operations, NEW p \in Operations, Inside(o), Inside(p)
    PROVE  o = p
  BY DEF LockInv, WorkersHold, Busy

\* Documents are numbers.
LEMMA PathIsNumber == FileInv => path \in Nat /\ version \in Nat
  BY DEF FileInv, FileTypeOK, Documents

LEMMA RegistryInitial == Init => RegistryInv
  BY DEF Init, RegistryInv, MemoryType, MemoryCurrent, WriterInside, FileInit

\* A step of the lock that neither enters nor leaves keeps what is in memory.
LEMMA AtLockStep ==
    ASSUME LockInv, RegistryInv, NEW o \in Operations, AtLock(o)
    PROVE  RegistryInv'
<1> USE DEF RegistryInv, MemoryType, MemoryCurrent, WriterInside, LockInv, LockTypeOK,
            Inside, Waiting, At, Goto, LockSteps
<1>0. UNCHANGED <<fileVars, loaded>>
  BY DEF AtLock
<1>1. \A p \in Operations \ {o} : pc'[p] = pc[p]
  BY DEF AtLock, Open, Wait, Acquire, Blocked, Sleep, Refuse, DeadlinePasses, BackupReturns,
         ChildEnds, StartBackup
<1>2. Inside(o) => Inside(o)'
  BY DEF AtLock, Open, Wait, Acquire, Blocked, Sleep, Refuse, DeadlinePasses, BackupReturns,
         ChildEnds, StartBackup
<1>3. pc[o] \in {"inside", "backedup"} => call = "idle" \/ pc'[o] \in {"inside", "backedup"}
  BY DEF AtLock, Open, Wait, Acquire, Blocked, Sleep, Refuse, DeadlinePasses, BackupReturns,
         ChildEnds, StartBackup
<1>4. MemoryCurrent'
  BY <1>0, <1>1, <1>2 DEF fileVars
<1>5. WriterInside'
  BY <1>0, <1>1, <1>3 DEF fileVars
<1> QED BY <1>0, <1>4, <1>5

\* A save leaves its document in memory and at the path.
LEMMA SaveStep ==
    ASSUME LockInv, FileInv, RegistryInv, NEW o \in Operations, Save(o)
    PROVE  RegistryInv'
<1> USE DEF RegistryInv, MemoryType, MemoryCurrent, WriterInside
<1>0. /\ pc' = pc
      /\ loaded[o] # NothingLoaded
      /\ pc[o] \in {"inside", "backedup"}
      /\ Inside(o)
  BY DEF Save, lockVars, Inside
<1>1. CASE Replace /\ Keeps(o, version)
  <2>1. path' = version /\ loaded' = [loaded EXCEPT ![o] = version]
    BY <1>1 DEF Replace, Keeps
  <2>2. \A p \in Operations : loaded[p] # NothingLoaded => p = o
    BY <1>0, InsideAlone
  <2>3. MemoryType' /\ loaded'[o] = version /\ version # NothingLoaded
    BY <2>1, PathIsNumber
  <2> QED BY <1>0, <2>1, <2>2, <2>3 DEF Inside
<1>2. CASE /\ MakeTemporary \/ WriteDocument \/ SyncDocument \/ SyncDirectory
                \/ WriteReturns \/ WriteFails
           /\ UNCHANGED loaded
  <2>1. path' = path
    BY <1>2 DEF MakeTemporary, WriteDocument, SyncDocument, SyncDirectory, WriteReturns,
                WriteFails
  <2> QED BY <1>0, <1>2, <2>1 DEF Inside
<1> QED BY <1>1, <1>2 DEF Save

\* A killed run takes its memory and its save along.
LEMMA KillStep ==
    ASSUME LockInv, FileInv, RegistryInv, NEW o \in Operations, Kill(o)
    PROVE  RegistryInv'
<1> USE DEF RegistryInv, MemoryType, MemoryCurrent, WriterInside
<1>1. /\ loaded' = [loaded EXCEPT ![o] = NothingLoaded]
      /\ \A p \in Operations \ {o} : pc'[p] = pc[p]
      /\ path' = path
  BY DEF Kill, Killed, Goto, Keeps, WriterKilled, fileVars, LockInv, LockTypeOK
<1>2. MemoryType' /\ MemoryCurrent'
  BY <1>1 DEF Inside
<1>3. CASE Inside(o)
  <2>1. call' = "idle"
    BY <1>3 DEF Kill, WriterKilled, fileVars
  <2> QED BY <1>2, <2>1
<1>4. CASE ~Inside(o)
  <2>1. call' = call
    BY <1>4 DEF Kill, fileVars
  <2>2. pc[o] \notin {"inside", "backedup"}
    BY <1>4 DEF Inside
  <2>3. WriterInside'
    BY <1>1, <2>1, <2>2
  <2> QED BY <1>2, <2>3
<1> QED BY <1>3, <1>4

\* Every step keeps memory and path together.
LEMMA RegistryStep == LockInv /\ FileInv /\ RegistryInv /\ [Next]_vars => RegistryInv'
<1> SUFFICES ASSUME LockInv, FileInv, RegistryInv, [Next]_vars PROVE RegistryInv'
  OBVIOUS
<1>1. ASSUME NEW o \in Operations, Load(o) PROVE RegistryInv'
  BY <1>1, PathIsNumber DEF Load, Keeps, RegistryInv, MemoryType, MemoryCurrent, WriterInside,
     lockVars, fileVars, Inside, At
<1>2. ASSUME NEW o \in Operations, Answer(o) PROVE RegistryInv'
  BY <1>2 DEF Answer, Leave, Goto, Keeps, RegistryInv, MemoryType, MemoryCurrent, WriterInside,
     fileVars, Inside, LockInv, LockTypeOK
<1>3. CASE PowerGoes
  BY <1>3 DEF PowerGoes, PowerLoss, HostRestarts, RegistryInv, MemoryType, MemoryCurrent,
     WriterInside
<1>4. CASE UNCHANGED vars
  BY <1>4 DEF vars, lockVars, fileVars, RegistryInv, MemoryType, MemoryCurrent, WriterInside,
     Inside
<1> QED BY <1>1, <1>2, <1>3, <1>4, AtLockStep, SaveStep, KillStep DEF Next

\* The invariant of the registry, with those of its parts.
THEOREM RegistryInvariance == Spec => []RegistryInv
  BY RegistryInitial, RegistryStep, Composition, LockInvariance, FileInvariance, PTL DEF Spec

\* Every variable of the registry keeps its type.
THEOREM TypeCorrect == Spec => []TypeOK
<1>1. LockInv /\ FileInv /\ RegistryInv => TypeOK
  <2> SUFFICES ASSUME LockInv, FileInv, RegistryInv PROVE TypeOK
    OBVIOUS
  <2>1. LockTypeOK /\ FileTypeOK
    BY DEF LockInv, FileInv
  <2>2. path \in Documents
    BY <2>1 DEF FileTypeOK, Documents
  <2>3. loaded \in [Operations -> Documents \cup {NothingLoaded}]
    BY <2>2 DEF RegistryInv, MemoryType, MemoryCurrent
  <2> QED BY <2>1, <2>3 DEF TypeOK
<1> QED BY <1>1, RegistryInvariance, Composition, LockInvariance, FileInvariance, PTL DEF Spec

\* Every save replaces the document its run has read.
THEOREM NothingLost == Spec => NoLostUpdate
<1>1. LockInv /\ FileInv /\ RegistryInv /\ [Next]_vars =>
         (path' > path => \E o \in Operations : Inside(o) /\ loaded[o] = path)
  <2> SUFFICES ASSUME LockInv, FileInv, RegistryInv, [Next]_vars, path' > path
               PROVE  \E o \in Operations : Inside(o) /\ loaded[o] = path
    OBVIOUS
  <2>1. CASE \E o \in Operations : Save(o)
    BY <2>1 DEF Save, RegistryInv, MemoryCurrent
  <2>2. CASE PowerGoes
    <3>1. path' \in onDisk
      BY <2>2 DEF PowerGoes, PowerLoss
    <3>2. path' <= path
      BY <3>1 DEF FileInv, Between
    <3> QED BY <3>1, <3>2 DEF FileInv, FileTypeOK, Documents
  <2>3. CASE UNCHANGED path
    BY <2>3, PathIsNumber
  <2>4. \/ \E o \in Operations : Save(o)
        \/ PowerGoes
        \/ UNCHANGED path
    BY DEF Next, AtLock, Load, Answer, Kill, WriterKilled, vars, fileVars
  <2> QED BY <2>1, <2>2, <2>3, <2>4
<1> QED BY <1>1, RegistryInvariance, Composition, LockInvariance, FileInvariance, PTL
        DEF Spec, NoLostUpdate
=============================================================================
