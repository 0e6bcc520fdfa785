----------------------------- MODULE AtomicFile -----------------------------
(***************************************************************************)
(* replace_json on a POSIX file system: a temporary file is written and    *)
(* synced, renamed over the path, and the directory is synced.  What a     *)
(* process sees (the page cache) and what the disk is sure to keep differ  *)
(* between the syncs.  Writers follow each other under the controller's    *)
(* lock; any system call may fail, the writer may be killed and the power  *)
(* may go.                                                                 *)
(*                                                                         *)
(* A document is the number of the write that made it, 0 the first one.    *)
(***************************************************************************)
EXTENDS Integers, FiniteSets

CONSTANTS
    MaxWrites,  \* bound: writes that are begun
    MaxCuts     \* bound: kills and losses of power

ASSUME BoundsAssumption == MaxWrites \in Nat /\ MaxCuts \in Nat

VARIABLES
    call,         \* the writer: where it is in replace_json
    version,      \* the document it writes, or the last one that was begun
    temporaries,  \* documents with a temporary name
    written,      \* documents whose file is whole, as processes see it
    durable,      \* documents whose file is whole on disk
    path,         \* the document the path names, as processes see it
    onDisk,       \* the documents that the path may name on disk
    acknowledged, \* the document of the last call that returned
    cuts          \* kills and losses of power so far

fileVars == <<call, version, temporaries, written, durable, path, onDisk, acknowledged, cuts>>

Documents == 0 .. MaxWrites
Calls == {"idle", "writing", "written", "synced", "replaced", "stable"}

FileInit ==
    /\ call = "idle"
    /\ version = 0
    /\ temporaries = {}
    /\ written = {0}
    /\ durable = {0}
    /\ path = 0
    /\ onDisk = {0}
    /\ acknowledged = 0
    /\ cuts = 0

-----------------------------------------------------------------------------
\* mkstemp: a name that no other file has.
MakeTemporary ==
    /\ call = "idle"
    /\ version < MaxWrites
    /\ version' = version + 1
    /\ temporaries' = temporaries \cup {version + 1}
    /\ call' = "writing"
    /\ UNCHANGED <<written, durable, path, onDisk, acknowledged, cuts>>

\* json.dump and flush.
WriteDocument ==
    /\ call = "writing"
    /\ written' = written \cup {version}
    /\ call' = "written"
    /\ UNCHANGED <<version, temporaries, durable, path, onDisk, acknowledged, cuts>>

\* A slip: the document is left to the page cache.
SkipSync ==
    /\ call = "written"
    /\ call' = "synced"
    /\ UNCHANGED <<version, temporaries, written, durable, path, onDisk, acknowledged, cuts>>

\* fsync of the temporary file.
SyncDocument ==
    /\ call = "written"
    /\ durable' = durable \cup {version}
    /\ call' = "synced"
    /\ UNCHANGED <<version, temporaries, written, path, onDisk, acknowledged, cuts>>

\* os.replace: at once for every process, some time for the disk.
Replace ==
    /\ call = "synced"
    /\ temporaries' = temporaries \ {version}
    /\ path' = version
    /\ onDisk' = onDisk \cup {version}
    /\ call' = "replaced"
    /\ UNCHANGED <<version, written, durable, acknowledged, cuts>>

\* A slip: the directory is not synced.
SkipDirectory ==
    /\ call = "replaced"
    /\ call' = "stable"
    /\ UNCHANGED <<version, temporaries, written, durable, path, onDisk, acknowledged, cuts>>

\* fsync of the directory.
SyncDirectory ==
    /\ call = "replaced"
    /\ onDisk' = {path}
    /\ call' = "stable"
    /\ UNCHANGED <<version, temporaries, written, durable, path, acknowledged, cuts>>

\* The call returns.
WriteReturns ==
    /\ call = "stable"
    /\ acknowledged' = version
    /\ call' = "idle"
    /\ UNCHANGED <<version, temporaries, written, durable, path, onDisk, cuts>>

\* A slip: the temporary file of a failed write stays.
WriteFailsLeaving ==
    /\ call \in {"writing", "written", "synced", "replaced"}
    /\ call' = "idle"
    /\ UNCHANGED <<version, temporaries, written, durable, path, onDisk, acknowledged, cuts>>

\* A system call fails (no space, no memory, an I/O error): the temporary file is
\* removed and the caller gets the exception, also when the rename has been done.
WriteFails ==
    /\ call \in {"writing", "written", "synced", "replaced"}
    /\ temporaries' = temporaries \ {version}
    /\ call' = "idle"
    /\ UNCHANGED <<version, written, durable, path, onDisk, acknowledged, cuts>>

-----------------------------------------------------------------------------
\* SIGKILL: no handler runs, the kernel keeps what it has.
WriterKilled ==
    /\ cuts < MaxCuts
    /\ call # "idle"
    /\ call' = "idle"
    /\ cuts' = cuts + 1
    /\ UNCHANGED <<version, temporaries, written, durable, path, onDisk, acknowledged>>

\* The disk tells what is left: one of the documents the path may name, the data
\* that was synced, and by chance some that was not.  Temporary names stay as processes saw
\* them: one whose unlink or rename had not been synced may come back, which is left out.
PowerLoss ==
    /\ cuts < MaxCuts
    /\ path' \in onDisk
    /\ onDisk' = {path'}
    /\ \E lucky \in SUBSET (written \ durable) : written' = durable \cup lucky
    /\ durable' = written'
    /\ call' = "idle"
    /\ cuts' = cuts + 1
    /\ UNCHANGED <<version, temporaries, acknowledged>>

FileNext ==
    \/ MakeTemporary \/ WriteDocument \/ SyncDocument \/ Replace \/ SyncDirectory \/ WriteReturns
    \/ WriteFails \/ WriterKilled \/ PowerLoss

FileSpec == FileInit /\ [][FileNext]_fileVars

-----------------------------------------------------------------------------
(* What the runs check.                                                    *)

\* Every variable has its type, and the path names a file that was written.
FileTypeOK ==
    /\ call \in Calls
    /\ version \in Documents
    /\ temporaries \subseteq 1 .. version
    /\ written \subseteq Documents
    /\ durable \subseteq written
    /\ path \in onDisk
    /\ onDisk \subseteq 0 .. version
    /\ acknowledged \in Documents
    /\ cuts \in 0 .. MaxCuts

\* Registry.load finds a whole document at the path, now and after a loss of power
\* at any moment: an unreadable registry would stop every operation.
NeverTorn == path \in written /\ onDisk \subseteq durable

\* Only cuts leave temporary files behind, one each at most; a call that failed
\* has removed its own.
LeftoversFromCuts ==
    Cardinality(IF call = "idle" THEN temporaries ELSE temporaries \ {version}) <= cuts

\* The path holds its document as StoredDocument promises: an acknowledged save of
\* the registry survives, whatever fails or is cut afterwards.
Stored == INSTANCE StoredDocument WITH
    document <- IF path \in written THEN path ELSE -1,
    promised <- acknowledged
ImplementsStoredDocument == Stored!Spec
=============================================================================
