---------------------------- MODULE CheckpointStore ----------------------------
(***************************************************************************)
(* A checkpointed session's files: its checkpoint's manifest and payload   *)
(* (session/checkpoint-store.ts), its exec history and its catalog entry,  *)
(* as the session manager writes them one after the other at an exec's     *)
(* start and end, a close and a start of the server, and as the next       *)
(* server reads them, whichever of them the one before came to write.      *)
(*                                                                         *)
(* Each file is replaced by a rename: it is the old one or the new one.    *)
(* The server dies between any two of the steps, any write may fail, and   *)
(* what is outside it may damage the checkpoint, or remove it.  A file     *)
(* under a temporary name is read by nobody, and left out.                 *)
(*                                                                         *)
(* A checkpoint's revision is the exec that committed it, 0 for the one a  *)
(* session was created with or that a server of before left in its own     *)
(* format (legacy).                                                        *)
(***************************************************************************)
EXTENDS Naturals

CONSTANTS
    None,        \* no checkpoint, or no exec
    Unreadable,  \* a checkpoint that does not validate
    NotLive,     \* no runtime
    MaxExecs,    \* bound: execs
    MaxFaults,   \* bound: writes, and reads of a commit, that fail
    MaxCrashes,  \* bound: servers that die
    MaxHarms     \* bound: damages from outside

ASSUME SentinelAssumption ==
    /\ None \notin Nat /\ Unreadable \notin Nat /\ NotLive \notin Nat
    /\ None # Unreadable /\ None # NotLive /\ Unreadable # NotLive

ASSUME BoundAssumption ==
    /\ MaxExecs \in Nat /\ MaxFaults \in Nat
    /\ MaxCrashes \in Nat /\ MaxHarms \in Nat

Execs == 1..MaxExecs

VARIABLES
    manifest,  \* the revision manifest.json holds
    sidecars,  \* the revisions whose payload is a file of its own
    payloads,  \* the payload files, each named by its revision
    legacy,    \* the legacy checkpoint's file is there
    damaged,   \* the checkpoint does not validate any more
    catalog,   \* the catalog entry
    stored,    \* the exec history's file
    step,      \* how far the server's turn is
    then,      \* what the persist under way is of
    exec,      \* the exec that runs, or is being ended
    rev,       \* record.checkpointRevision
    status,    \* record.status
    hist,      \* session.history
    from,      \* the checkpoint the live runtime came up from
    told,      \* history: revisions told committed, and execs told ok
    recorded,  \* history: the catalog has held a revision
    faults, crashes, harms

storeVars == <<manifest, sidecars, payloads, legacy>>
fileVars == <<storeVars, catalog, stored, recorded>>
entryVars == <<exec, rev, status, hist, from>>
boundVars == <<faults, crashes, harms>>
vars == <<fileVars, damaged, step, then, entryVars, told, boundVars>>

Ends == {"ok", "error", "interrupted"}
Histories == [Execs -> {"none", "running"} \cup Ends]
Statuses == {"live", "suspended", "quarantined", "closed"}
Revision == {None} \cup Nat
Steps == {"down", "gone", "idle", "starting", "running", "committing", "placed", "committed",
          "retired", "history", "catalog", "persisted", "removing", "removed"}
Persists == {"started", "committed", "failed", "ended", "contained", "stopped", "tombstone",
             "refused", "loaded", "leaving", "back"}

TypeOK ==
    /\ manifest \in Revision /\ sidecars \subseteq Nat /\ payloads \subseteq Nat
    /\ legacy \in BOOLEAN /\ damaged \in BOOLEAN
    /\ catalog \in [status : {"none"} \cup Statuses, rev : Revision]
    /\ stored \in Histories
    /\ step \in Steps /\ then \in Persists
    /\ exec \in {None} \cup Execs /\ rev \in Revision
    /\ status \in Statuses /\ hist \in Histories
    /\ from \in {NotLive} \cup Revision
    /\ told \subseteq Nat /\ recorded \in BOOLEAN
    /\ faults \in 0..MaxFaults /\ crashes \in 0..MaxCrashes /\ harms \in 0..MaxHarms

\* A session created and live, with a checkpoint or none, or one of a server of
\* before, which is down.
Init ==
    /\ manifest \in {None, 0} /\ legacy \in BOOLEAN /\ (legacy => manifest = None)
    /\ sidecars = {} /\ payloads = {} /\ damaged = FALSE
    /\ rev = IF manifest = 0 \/ legacy THEN 0 ELSE None
    /\ status = "live" /\ from = rev
    /\ catalog = [status |-> "live", rev |-> rev] /\ recorded = (rev # None)
    /\ hist = [e \in Execs |-> "none"] /\ stored = hist
    /\ step = (IF legacy THEN "down" ELSE "idle") /\ then = "back" /\ exec = None
    /\ told = {} /\ faults = 0 /\ crashes = 0 /\ harms = 0

\* inspect: the manifest first, the legacy file where there is none.
Inspected ==
    IF manifest # None
    THEN IF damaged \/ (manifest \in sidecars /\ manifest \notin payloads)
         THEN Unreadable ELSE manifest
    ELSE IF legacy THEN (IF damaged THEN Unreadable ELSE 0) ELSE None

\* A checkpoint that is missing is taken for one never committed (mutant).
Readable == Inspected # Unreadable

\* compatibleCheckpoint: one the session committed and the store lacks is lost.
Compatible == Inspected # Unreadable /\ (Inspected = None => rev = None)

Fault == faults < MaxFaults /\ faults' = faults + 1
SameCounts == UNCHANGED <<crashes, harms>>
SameFiles == UNCHANGED <<fileVars, damaged>>

\* The server's next writes are persist's, of what `what` says.
Persisting(what) == step' = "history" /\ then' = what

-----------------------------------------------------------------------------
(* persist, and what follows it.                                           *)

WriteHistory ==
    /\ step = "history" /\ step' = "catalog"
    /\ stored' = hist
    /\ UNCHANGED <<storeVars, catalog, recorded, damaged, then, entryVars, told, boundVars>>

WriteCatalog ==
    /\ step = "catalog" /\ then # "refused" /\ step' = "persisted"
    /\ catalog' = [status |-> status, rev |-> rev]
    /\ recorded' = (recorded \/ rev # None)
    /\ UNCHANGED <<storeVars, stored, damaged, then, entryVars, told, boundVars>>

\* The history, the exec having ended, if there is one.
EndedAs(end) == [e \in Execs |-> IF e = exec THEN end ELSE hist[e]]

\* containRuntimeFailure, failExecStartup and quarantineSession: the exec ends, and
\* its runtime with it.
Contain ==
    /\ \E end \in {"error", "interrupted"} : hist' = EndedAs(end)
    /\ status' = "quarantined" /\ from' = NotLive
    /\ Persisting("contained")
    /\ UNCHANGED <<exec, rev>>

\* failCheckpointCommit, whose exec ends in error once it is persisted.
FailCommit ==
    /\ status' = "quarantined" /\ Persisting("failed")
    /\ UNCHANGED <<exec, rev, hist, from>>

\* A persist that fails: the generation does not move, or a write does not come
\* through.  What moved no generation is told to nobody.
PersistFails ==
    /\ step \in {"history", "catalog"} /\ Fault
    /\ \E moved \in BOOLEAN :
         /\ step = "catalog" => moved
         /\ told' = IF then = "committed" /\ moved THEN told \cup {exec} ELSE told
         /\ \/ /\ then = "committed" /\ status' = "quarantined" /\ Persisting("failed")
               /\ UNCHANGED <<exec, rev, hist, from>>
            \/ then \in {"started", "failed", "ended", "leaving", "back"} /\ Contain
            \/ /\ then = "contained" /\ step' = "idle" /\ exec' = None
               /\ UNCHANGED <<then, rev, status, hist, from>>
            \/ /\ then = "loaded" /\ step' = "down"
               /\ UNCHANGED <<then, entryVars>>
            \/ /\ then = "stopped" /\ step' = "idle"
               /\ UNCHANGED <<then, entryVars>>
            \/ /\ then \in {"tombstone", "refused"} /\ step' = (IF moved THEN "removing" ELSE "idle")
               /\ UNCHANGED <<then, entryVars>>
    /\ SameFiles /\ SameCounts

Persisted(what) == step = "persisted" /\ then = what

Started ==
    /\ Persisted("started") /\ step' = "running"
    /\ SameFiles /\ UNCHANGED <<then, entryVars, told, boundVars>>

TellCommitted ==
    /\ Persisted("committed") /\ told' = told \cup {exec}
    /\ Persisting("ended")
    /\ SameFiles /\ UNCHANGED <<entryVars, boundVars>>

CommitFailed ==
    /\ Persisted("failed") /\ hist' = EndedAs("error")
    /\ Persisting("ended")
    /\ SameFiles /\ UNCHANGED <<exec, rev, status, from, told, boundVars>>

\* The exec's end is told, and the runtime of a quarantined session stopped.
TellEnd ==
    /\ Persisted("ended") /\ step' = "idle"
    /\ told' = told \cup {e \in Execs : e = exec /\ hist[e] = "ok"}
    /\ exec' = None
    /\ from' = IF status = "quarantined" THEN NotLive ELSE from
    /\ SameFiles /\ UNCHANGED <<then, rev, status, hist, boundVars>>

Settled ==
    /\ step = "persisted" /\ then \in {"contained", "loaded", "back"}
    /\ step' = "idle" /\ exec' = None
    /\ SameFiles /\ UNCHANGED <<then, rev, status, hist, from, told, boundVars>>

-----------------------------------------------------------------------------
(* An exec.                                                                *)

NextExec(e) == hist[e] = "none" /\ \A d \in Execs : d < e => hist[d] # "none"

\* drainExecQueue's snapshot of the checkpoint and performExec; a checkpoint that
\* cannot be read fails the exec's start.
StartExec ==
    /\ step = "idle" /\ status = "live" /\ from # NotLive
    /\ \E e \in Execs :
         /\ NextExec(e) /\ exec' = e
         /\ IF Inspected = Unreadable
            THEN /\ hist' = [hist EXCEPT ![e] = "error"] /\ status' = "quarantined"
                 /\ from' = NotLive /\ Persisting("contained")
            ELSE /\ hist' = [hist EXCEPT ![e] = "running"] /\ Persisting("started")
                 /\ UNCHANGED <<status, from>>
    /\ SameFiles /\ UNCHANGED <<rev, told, boundVars>>

Ending(end) == step = "running" /\ hist' = EndedAs(end)

\* An exec with neither a commit nor a preservation is taken as it ended (mutant).
EndsAsItSays ==
    \E end \in Ends :
        /\ Ending(end) /\ Persisting("ended")
        /\ SameFiles /\ UNCHANGED <<exec, rev, status, from, told, boundVars>>

\* Interrupted, or in error with the checkpoint preserved: nothing is committed.
EndsWithout ==
    \E end \in {"error", "interrupted"} :
        /\ Ending(end) /\ Persisting("ended")
        /\ SameFiles /\ UNCHANGED <<exec, rev, status, from, told, boundVars>>

\* With exactly one commit.
EndsWithCommit ==
    \E end \in {"ok", "error"} :
        /\ Ending(end) /\ step' = "committing"
        /\ SameFiles /\ UNCHANGED <<then, exec, rev, status, from, told, boundVars>>

\* With none, with several, or with a commit the runtime's adapter refuses: the
\* history is first persisted as the exec ended.
EndsInvalid ==
    \E end \in {"ok", "error"} :
        /\ Ending(end)
        /\ status' = "quarantined" /\ Persisting("failed")
        /\ SameFiles /\ UNCHANGED <<exec, rev, from, told, boundVars>>

\* The state generation does not move: nothing is written of the commit.
CommitUnmoved ==
    /\ step = "committing" /\ Fault /\ Contain
    /\ SameFiles /\ SameCounts /\ UNCHANGED told

\* write: the payload comes first, inline in the manifest or a file of its own.
WritePayload ==
    /\ step = "committing" /\ Inspected # Unreadable /\ step' = "placed"
    /\ \/ payloads' = payloads \cup {exec} /\ sidecars' = sidecars \cup {exec}
       \/ UNCHANGED <<payloads, sidecars>>
    /\ UNCHANGED <<manifest, legacy, catalog, stored, recorded, damaged, then, entryVars,
                   told, boundVars>>

\* A commit over a checkpoint that cannot be read, or of a payload that does not
\* validate, or one whose write fails before its manifest's rename, which takes
\* its payload away again if it can.
WriteFails ==
    /\ \/ step = "committing" /\ Inspected = Unreadable /\ UNCHANGED faults
       \/ step = "placed" /\ exec \in sidecars \ payloads /\ UNCHANGED faults
       \/ step \in {"committing", "placed"} /\ Fault
    /\ payloads' \in {payloads, payloads \ {exec}}
    /\ FailCommit
    /\ UNCHANGED <<manifest, sidecars, legacy, catalog, stored, recorded, damaged, told>>
    /\ SameCounts

\* The manifest's rename is the commit.
RenameManifest ==
    /\ step = "placed" /\ step' = "committed"
    /\ manifest' = exec /\ damaged' = FALSE
    /\ UNCHANGED <<sidecars, payloads, legacy, catalog, stored, recorded, then, entryVars,
                   told, boundVars>>

\* retireObsoleteArtifacts removes what it can of the payloads before.
Retire ==
    /\ step = "committed" /\ step' = "retired"
    /\ payloads' \in {kept \in SUBSET payloads : payloads \cap {manifest} \subseteq kept}
    /\ legacy' \in {legacy, FALSE}
    /\ UNCHANGED <<manifest, sidecars, catalog, stored, recorded, damaged, then, entryVars,
                   told, boundVars>>

\* writeCommit reads back what it wrote, and the session's record is of it.
Verify ==
    /\ step = "retired" /\ Inspected = exec
    /\ rev' = exec /\ Persisting("committed")
    /\ SameFiles /\ UNCHANGED <<exec, status, hist, from, told, boundVars>>

\* It cannot be read back: the commit is said to have failed.
VerifyFails ==
    /\ step = "retired"
    /\ \/ Inspected # exec /\ UNCHANGED faults
       \/ Inspected = exec /\ Fault
    /\ FailCommit
    /\ SameFiles /\ SameCounts /\ UNCHANGED told

-----------------------------------------------------------------------------
(* The session comes back.                                                 *)

\* The session leaves the runtime it has: its exec is interrupted.
Leaves == hist' = EndedAs("interrupted") /\ exec' = None /\ from' = NotLive

\* recoverRuntime, or a recycle of a live runtime.  A checkpoint that is lost or
\* cannot be read quarantines the session.
ComeBack ==
    /\ step \in {"idle", "running"} /\ status \in {"live", "suspended"}
    /\ IF Compatible THEN Leaves /\ Persisting("leaving") /\ UNCHANGED <<rev, status>>
       ELSE Contain
    /\ SameFiles /\ UNCHANGED <<told, boundVars>>

\* stopRuntime persists, which a session with no runtime has nothing of.
Recycles ==
    \/ from # NotLive /\ Persisting("leaving")
    \/ from = NotLive /\ step' = "starting" /\ UNCHANGED then

\* resetToCheckpoint, which needs a checkpoint; of a quarantined session too, whose
\* runtime does not come up.
Reset ==
    /\ step \in {"idle", "running"} /\ status # "closed"
    /\ Inspected \in Nat
    /\ Leaves /\ Recycles
    /\ SameFiles /\ UNCHANGED <<rev, status, told, boundVars>>

Left ==
    /\ Persisted("leaving") /\ step' = "starting"
    /\ SameFiles /\ UNCHANGED <<then, entryVars, told, boundVars>>

\* The runtime does not come up, or its bootstrap fails.
StartFails ==
    /\ step = "starting" /\ Contain
    /\ SameFiles /\ UNCHANGED <<told, boundVars>>

\* launchRuntime refuses the runtime of a quarantined session, and
\* hydrateFromCheckpoint reads the checkpoint again, its runtime being up.
Hydrate ==
    /\ step = "starting"
    /\ IF status # "quarantined" /\ Compatible
       THEN /\ from' = Inspected /\ status' = "live" /\ Persisting("back")
            /\ UNCHANGED <<exec, rev, hist>>
       ELSE Contain
    /\ SameFiles /\ UNCHANGED <<told, boundVars>>

-----------------------------------------------------------------------------
(* Close.                                                                  *)

\* A session that was quarantined keeps the reason, with which the catalog's schema
\* takes no closed entry.
Buried == Persisting(IF status = "quarantined" \/ then = "refused" THEN "refused" ELSE "tombstone")

Close ==
    /\ step \in {"idle", "running"}
    /\ Leaves
    /\ \/ from # NotLive /\ Persisting("stopped") /\ UNCHANGED status
       \/ from = NotLive /\ Buried /\ status' = "closed"
    /\ SameFiles /\ UNCHANGED <<rev, told, boundVars>>

Stopped ==
    /\ Persisted("stopped") /\ Buried /\ status' = "closed"
    /\ SameFiles /\ UNCHANGED <<exec, rev, hist, from, told, boundVars>>

Tombstone ==
    /\ Persisted("tombstone") /\ step' = "removing"
    /\ SameFiles /\ UNCHANGED <<then, entryVars, told, boundVars>>

\* Its removal goes on without.
TombstoneRefused ==
    /\ step = "catalog" /\ then = "refused" /\ step' = "removing"
    /\ SameFiles /\ UNCHANGED <<then, entryVars, told, boundVars>>

\* removePersistedSession, whose catalog entry goes last (mutant).
RemoveCatalogLast ==
    /\ step = "removing" /\ step' = "removed"
    /\ manifest' = None /\ legacy' = FALSE /\ payloads' = {}
    /\ UNCHANGED <<sidecars, catalog, stored, recorded, damaged, then, entryVars, told,
                   boundVars>>

\* removePersistedSession: the catalog entry goes first.
RemoveCatalog ==
    /\ step = "removing" /\ step' = "removed"
    /\ catalog' = [status |-> "none", rev |-> None]
    /\ UNCHANGED <<storeVars, stored, recorded, damaged, then, entryVars, told, boundVars>>

\* The session stays, closed, for a close tried again, or for the next start.
RemoveCatalogFails ==
    /\ step = "removing" /\ Fault
    /\ step' = IF then = "loaded" THEN "gone" ELSE "idle"
    /\ SameFiles /\ SameCounts /\ UNCHANGED <<then, entryVars, told>>

\* The history and the checkpoint go, or stay as nobody's.
RemoveRest ==
    /\ step = "removed" /\ step' = "gone"
    /\ stored' \in {stored, [e \in Execs |-> "none"]}
    /\ \/ UNCHANGED <<manifest, legacy, payloads>>
       \/ manifest' = None /\ legacy' = FALSE /\ payloads' = {}
    /\ UNCHANGED <<sidecars, catalog, recorded, damaged, then, entryVars, told, boundVars>>

-----------------------------------------------------------------------------
(* The server ends, and the next one starts.                               *)

Crash ==
    /\ step # "down" /\ crashes < MaxCrashes /\ crashes' = crashes + 1
    /\ step' = "down" /\ exec' = None /\ from' = NotLive
    /\ SameFiles /\ UNCHANGED <<then, rev, status, hist, told, faults, harms>>

\* normalizeCatalogEntry, and what loadCatalog makes of an unreadable checkpoint.
LoadedStatus ==
    IF \/ Inspected = Unreadable \/ catalog.status = "quarantined"
       \/ Inspected = None /\ catalog.rev # None
    THEN "quarantined" ELSE "suspended"

\* loadCatalog, of the session's entry: pending execs end interrupted, and the
\* checkpoint on the disk is the session's, whatever the catalog says.
Load ==
    /\ step = "down" /\ catalog.status \notin {"none", "closed"}
    /\ hist' = [e \in Execs |-> IF stored[e] = "running" THEN "interrupted" ELSE stored[e]]
    /\ rev' = IF Inspected = Unreadable THEN None ELSE Inspected
    /\ status' = LoadedStatus
    /\ exec' = None /\ from' = NotLive
    /\ Persisting("loaded")
    /\ SameFiles /\ UNCHANGED <<told, boundVars>>

\* The entry of a closed session is removed; no entry, no session.
LoadClosed ==
    /\ step = "down" /\ catalog.status \in {"none", "closed"}
    /\ step' = IF catalog.status = "closed" THEN "removing" ELSE "gone"
    /\ status' = "closed" /\ then' = "loaded"
    /\ SameFiles /\ UNCHANGED <<exec, rev, hist, from, told, boundVars>>

\* What is outside the server damages the checkpoint, or takes it away.
Corrupt ==
    /\ harms < MaxHarms /\ harms' = harms + 1
    /\ Inspected \in Nat /\ damaged' = TRUE
    /\ UNCHANGED <<fileVars, step, then, entryVars, told, faults, crashes>>

Lose ==
    /\ harms < MaxHarms /\ harms' = harms + 1
    /\ manifest' = None /\ legacy' = FALSE /\ payloads' = {} /\ damaged' = FALSE
    /\ UNCHANGED <<sidecars, catalog, stored, recorded, step, then, entryVars, told,
                   faults, crashes>>

Next ==
    \/ WriteHistory \/ WriteCatalog \/ PersistFails
    \/ Started \/ TellCommitted \/ CommitFailed \/ TellEnd \/ Settled
    \/ StartExec \/ EndsWithout \/ EndsWithCommit \/ EndsInvalid
    \/ CommitUnmoved \/ WritePayload \/ WriteFails \/ RenameManifest \/ Retire
    \/ Verify \/ VerifyFails
    \/ ComeBack \/ Reset \/ Left \/ StartFails \/ Hydrate
    \/ Close \/ Stopped \/ Tombstone \/ TombstoneRefused \/ RemoveCatalog \/ RemoveCatalogFails \/ RemoveRest
    \/ Crash \/ Load \/ LoadClosed \/ Corrupt \/ Lose

Spec == Init /\ [][Next]_vars

-----------------------------------------------------------------------------
(* Properties.                                                             *)

\* A session the next server would find.
Listed == catalog.status \notin {"none", "closed"}

\* Whenever the server dies, the session's checkpoint is one that validates, the
\* one before or the one being committed (checkpoint-store.ts:391-393), unless
\* it was harmed from outside.
CrashReadsOne == harms = 0 /\ Listed => Inspected # Unreadable

\* A session that is found has the checkpoint its catalog entry names, or one
\* committed since: no start finds one lost that nobody took away, as what is
\* removed goes from the catalog first (session-manager.ts:2460-2462).
CatalogIsBacked ==
    harms = 0 /\ Listed /\ catalog.rev \in Nat => Inspected \in Nat /\ Inspected >= catalog.rev

\* What was told committed, or told ok, is in the checkpoint the next server
\* finds, through every failure and crash.
ToldIsKept ==
    harms = 0 /\ Listed => \A r \in told : Inspected \in Nat /\ Inspected >= r

\* A session whose checkpoint was ever recorded never comes back as it began, nor
\* from a checkpoint before one it was told of: damaged or lost, it is
\* quarantined, and a reset does not bring it back.
BackWhole ==
    [][from = NotLive /\ from' # NotLive =>
         /\ from' = None => ~recorded
         /\ from' \in Nat => \A r \in told : from' >= r]_vars

\* "A checkpointed exec must end with exactly one valid commit, or one
\* preservation after an error" (session-manager.ts:3344-3348): a session that may
\* run its next exec has what its history says ended ok in its checkpoint.
OkIsKept ==
    harms = 0 /\ step = "idle" /\ status \in {"live", "suspended"} =>
      \A e \in Execs : hist[e] = "ok" => Inspected \in Nat /\ Inspected >= e

-----------------------------------------------------------------------------
(* The inductive invariant, part by part.                                  *)

Writing == step \in {"history", "catalog", "persisted"}

\* The exec's own commit is still to come.
Uncommitted ==
    step \in {"running", "committing", "placed"} \/ (Writing /\ then = "started")

\* It is done, and not yet said in the session's record and told.
Committed == step \in {"committed", "retired"} \/ (Writing /\ then = "committed")

\* A turn that starts, commits or ends an exec has one.
TurnHasExec == Uncommitted \/ Committed \/ (Writing /\ then \in {"failed", "ended"}) => exec # None

\* The session's files are not being removed, nor gone.
Owned ==
    Listed \/ ~(step \in {"down", "gone", "removed"} \/ (step = "removing" /\ then = "loaded"))

\* The payload of the checkpoint is on the disk, and that of the commit under way.
PayloadIsThere ==
    harms = 0 => /\ manifest \in sidecars => manifest \in payloads
                 /\ step = "placed" /\ exec \in sidecars => exec \in payloads

\* No exec's commit is tried twice.
SidecarsAreOfExecs ==
    /\ \A r \in sidecars : r \in Execs /\ hist[r] # "none"
    /\ Owned => \A r \in sidecars : stored[r] # "none"
    /\ Uncommitted /\ step # "placed" => exec \notin sidecars

DamageIsHarm == damaged => harms > 0

\* What is removed is not listed.
RemovedIsUnlisted ==
    /\ catalog.status = "none" => step \in {"down", "gone", "removed"}
    /\ step \in {"gone", "removed"} \/ (step = "removing" /\ then = "loaded") => ~Listed

\* Execs run in order, in memory as on the disk, which is never ahead.
ExecsInOrder ==
    /\ \A d, e \in Execs : d < e /\ hist[e] # "none" => hist[d] # "none"
    /\ \A d, e \in Execs : d < e /\ stored[e] # "none" => stored[d] # "none"
    /\ \A e \in Execs : stored[e] # "none" => hist[e] # "none"
    /\ step = "catalog" => stored = hist

\* The checkpoint is gone, by what is outside.
Lost == harms > 0 /\ manifest = None /\ ~legacy

\* The turn's exec is the last, is on the disk before it runs, and has the
\* checkpoint once its own is committed, and only then.
TurnsExec ==
    /\ exec # None => /\ hist[exec] # "none"
                      /\ \A e \in Execs : e > exec => hist[e] = "none"
    /\ (Uncommitted /\ step # "history") \/ Committed => stored[exec] # "none"
    /\ Writing /\ then \in {"failed", "ended"} => stored[exec] # "none"
    /\ Uncommitted /\ manifest # None => manifest < exec
    /\ Committed => manifest = exec \/ Lost
    /\ Writing /\ then = "ended" /\ hist[exec] = "ok" => manifest = exec \/ Lost

\* A revision of this session: the first, or of an exec on the disk.
Known(r) == r = 0 \/ (r \in Execs /\ hist[r] # "none" /\ (Owned => stored[r] # "none"))

\* The checkpoint on the disk is of `r`, or of an exec since.
Holds(r) == IF manifest = None THEN legacy /\ r = 0 ELSE manifest >= r

RevisionsAreKnown ==
    /\ manifest # None => Known(manifest)
    /\ rev # None => Known(rev)
    /\ catalog.rev # None => Known(catalog.rev)
    /\ \A r \in told : r \in Execs /\ Known(r)

CheckpointIsKept ==
    Owned /\ ~Lost => /\ rev # None => Holds(rev)
                      /\ catalog.rev # None => Holds(catalog.rev)
                      /\ \A r \in told : Holds(r)

\* A session whose checkpoint the record lacks and the catalog held is quarantined
\* for what is on the disk.
RecordedIsKnown ==
    /\ recorded /\ catalog.rev = None => catalog.status \in {"quarantined", "closed", "none"}
    /\ recorded /\ rev = None =>
         /\ status \in {"quarantined", "closed"} /\ Inspected \notin Nat
         /\ step \notin {"starting", "running", "committing", "placed", "committed", "retired"}
         /\ Writing => then \notin {"started", "committed", "leaving", "back"}

StoreInv ==
    /\ TypeOK /\ TurnHasExec
    /\ PayloadIsThere /\ SidecarsAreOfExecs /\ DamageIsHarm /\ RemovedIsUnlisted
    /\ ExecsInOrder /\ TurnsExec /\ RevisionsAreKnown /\ CheckpointIsKept
    /\ RecordedIsKnown
=============================================================================
