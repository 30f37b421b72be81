--------------------------- MODULE StateGeneration ---------------------------
(***************************************************************************)
(* The state directory's generation (session/state-generation.ts): the     *)
(* count a server moves on before it persists a change of its state, or    *)
(* tells its clients of one, by which a save of the sandbox that left the  *)
(* server running is refused once the directory moved past it.             *)
(*                                                                         *)
(* One server runs on the directory at a time, as the host sees to.  The   *)
(* host saves it whole, memory and all (Freeze), at any instant after the  *)
(* server answered `sandbox-hook save`, may let it run on, stop it at any  *)
(* instant (Kill), and start either a new server (Start) or a save it      *)
(* took earlier (Thaw), which runs on before it hears of the restore.      *)
(*                                                                         *)
(* The server changes its state in turns of its event loop, each of which  *)
(* is  change in memory -> assertCurrent -> write generation -> persist    *)
(* -> tell;  a Freeze or a Kill can come between any two of those.         *)
(***************************************************************************)
EXTENDS Naturals, FiniteSets

CONSTANTS
    Missing,     \* the file before the first server made it
    Unreadable,  \* a file of another schema, or none JSON
    MaxChanges,  \* bound: changes of state the servers make in all
    MaxStarts,   \* bound: servers started afresh
    MaxLast,     \* bound: the generations a failed start may write past, draw and count
    MaxImages    \* bound: saves the host holds

\* A generation: the number it was counted on from, and how far.  Draw 0 is the
\* 0 of a file that a server makes, any other the random number that a server
\* writes over a file it cannot read, named by when it was drawn.  The code's
\* generation is one number, their sum, and is only ever compared for equality;
\* that two draws lie as near as servers count is left out.
Generation == [draw : Nat, count : Nat]

Counted(g) == [g EXCEPT !.count = @ + 1]

\* Which of two generations was written first (history: no code compares so, and
\* of two draws the later may be the lower number).
g \preceq h == g.draw < h.draw \/ (g.draw = h.draw /\ g.count <= h.count)

NoGeneration == [draw |-> 0, count |-> 0]

ASSUME SentinelAssumption ==
    /\ Missing \notin Generation
    /\ Unreadable \notin Generation
    /\ Missing # Unreadable

ASSUME GenerationBounds ==
    MaxChanges \in Nat /\ MaxStarts \in Nat /\ MaxLast \in Nat /\ MaxImages \in Nat

VARIABLES
    disk,      \* what generation.json holds
    stored,    \* the changes the catalog, histories and checkpoints hold
    lastSave,  \* the generation last-save.json says (NoGeneration: no such file)
    told,      \* the changes clients were told of since the last fresh start
    mode,      \* the server: down, running, or saved
    value,     \* StateGeneration.value
    stale,     \* StateGeneration.staleBecause is set
    mem,       \* the changes the server's memory holds
    turn,      \* how far the event loop's current turn is
    caught,    \* the generation the server's last save said it caught
    lineage,   \* the fresh start the server's memory descends from
    restored,  \* history: the server was started from a save
    images,    \* the saves the host holds
    starts,    \* history: fresh starts so far
    made,      \* history: changes made so far, each named by its number
    last       \* history: the generation written last

serverVars == <<mode, value, stale, mem, turn, caught, lineage, restored>>
madeVars == <<starts, made, last>>
generationVars == <<disk, stored, lastSave, told, serverVars, images, madeVars>>

ServerModes == {"down", "running", "saved"}
Turns == {"idle", "changed", "checked", "bumped", "written"}
Changes == SUBSET Nat

Image == [caught : Generation, value : Generation, stale : BOOLEAN, mem : Changes,
          turn : Turns, lineage : Nat]

Readable == disk \in Generation

GenerationTypeOK ==
    /\ disk \in Generation \cup {Missing, Unreadable}
    /\ stored \in Changes /\ told \in Changes
    /\ lastSave \in Generation
    /\ mode \in ServerModes
    /\ value \in Generation /\ stale \in BOOLEAN /\ mem \in Changes /\ turn \in Turns
    /\ caught \in Generation /\ lineage \in Nat /\ restored \in BOOLEAN
    /\ images \subseteq Image
    /\ starts \in Nat /\ made \in Nat /\ last \in Generation

\* The changes that outlive the server: persisted, or known to a client.
seen == stored \cup told

Up == mode # "down"

GenerationInit ==
    /\ disk = Missing
    /\ stored = {} /\ told = {} /\ lastSave = NoGeneration
    /\ mode = "down" /\ value = NoGeneration /\ stale = FALSE /\ mem = {} /\ turn = "idle"
    /\ caught = NoGeneration /\ lineage = 0 /\ restored = FALSE
    /\ images = {}
    /\ starts = 0 /\ made = 0 /\ last = NoGeneration

-----------------------------------------------------------------------------
(* A server that starts afresh: loadCatalog's openAfresh, bump, and load.  *)

\* openAfresh: the generation the file holds, or 0 in a file it makes; over one
\* it cannot read, a new draw.
Opened ==
    IF Readable THEN disk
    ELSE IF disk = Missing THEN NoGeneration
    ELSE [draw |-> last.draw + 1, count |-> 0]

\* The server's clients are new, and are told its state anew as it loads it.
Start ==
    /\ ~Up /\ starts < MaxStarts
    /\ disk' = Counted(Opened) /\ last' = disk'
    /\ mode' = "running" /\ value' = disk' /\ stale' = FALSE
    /\ mem' = stored /\ turn' = "bumped" /\ told' = {}
    /\ caught' = NoGeneration /\ starts' = starts + 1 /\ lineage' = starts + 1
    /\ restored' = FALSE
    /\ UNCHANGED <<stored, lastSave, images, made>>

\* Its open or its bump fails and so does the start: before a write, or past
\* the write, as the sync of the file fails.
StartFails ==
    /\ ~Up /\ last.draw + last.count < MaxLast
    /\ \/ UNCHANGED <<disk, last>>
       \/ disk' \in {Opened, Counted(Opened)} /\ last' = disk'
    /\ UNCHANGED <<stored, lastSave, told, serverVars, images, starts, made>>

-----------------------------------------------------------------------------
(* A turn that changes the state: SessionManager.persist and its callers.  *)

\* A change in memory begins the turn that persists and tells it.
Change ==
    /\ Up /\ turn = "idle" /\ made < MaxChanges
    /\ made' = made + 1
    /\ mem' = mem \cup {made + 1}
    /\ turn' = "changed"
    /\ UNCHANGED <<disk, stored, lastSave, told, mode, value, stale, caught,
                   lineage, restored, images, starts, last>>

\* A server that bumps from its own count, whatever the disk holds (mutant).
AssertUnchecked ==
    /\ Up /\ turn = "changed"
    /\ turn' = "checked"
    /\ UNCHANGED <<disk, stored, lastSave, told, mode, value, stale, mem, caught,
                   lineage, restored, images, madeVars>>

\* assertCurrent: stale is for good; a file that cannot be read throws too, but
\* only while it cannot.  The change of a turn that throws is not told.
AssertCurrent ==
    /\ Up /\ turn = "changed"
    /\ turn' = IF ~stale /\ disk = value THEN "checked" ELSE "idle"
    /\ stale' = (stale \/ (Readable /\ disk # value))
    /\ UNCHANGED <<disk, stored, lastSave, told, mode, value, mem, caught,
                   lineage, restored, images, madeVars>>

\* A bump that leaves the count where it was (mutant).
WriteNoCount ==
    /\ Up /\ turn = "checked"
    /\ disk' = value /\ last' = value
    /\ turn' = "bumped"
    /\ UNCHANGED <<stored, lastSave, told, mode, value, stale, mem, caught, lineage,
                   restored, images, starts, made>>

\* bump's write, in place, and its sync.
Write ==
    /\ Up /\ turn = "checked"
    /\ disk' = Counted(value) /\ last' = disk' /\ value' = disk'
    /\ turn' = "bumped"
    /\ UNCHANGED <<stored, lastSave, told, mode, stale, mem, caught, lineage,
                   restored, images, starts, made>>

\* The write fails, or the sync after it does, the file's new bytes read all
\* the same: bump throws, the count as it was, the change untold.
WriteFails ==
    /\ Up /\ turn = "checked"
    /\ \/ UNCHANGED <<disk, last>>
       \/ disk' = Counted(value) /\ last' = disk'
    /\ turn' = "idle"
    /\ UNCHANGED <<stored, lastSave, told, mode, value, stale, mem, caught, lineage,
                   restored, images, starts, made>>

\* The history, the catalog entry or the checkpoint is written, or its write
\* fails, of which clients are told as of any change.
Persist ==
    /\ Up /\ turn = "bumped"
    /\ stored' \in {stored, mem}
    /\ turn' = "written"
    /\ UNCHANGED <<disk, lastSave, told, mode, value, stale, mem, caught, lineage,
                   restored, images, madeVars>>

Tell ==
    /\ Up /\ turn = "written"
    /\ told' = told \cup mem
    /\ turn' = "idle"
    /\ UNCHANGED <<disk, stored, lastSave, mode, value, stale, mem, caught, lineage,
                   restored, images, madeVars>>

-----------------------------------------------------------------------------
(* The hook's modes, each a turn of its own (mcp/sandbox-hook.ts).         *)

\* save: sandboxSaving's assertCurrent, then last-save.json.
Save ==
    /\ Up /\ turn = "idle" /\ ~stale /\ disk = value
    /\ mode' = "saved" /\ caught' = value /\ lastSave' = value
    /\ UNCHANGED <<disk, stored, told, value, stale, mem, turn, lineage, restored,
                   images, madeVars>>

\* A save that fails has the server run on: stale, on a file it cannot read, or
\* once last-save.json is written, as its directory's sync or the collection of
\* garbage after it fails.
SaveFails ==
    /\ Up /\ turn = "idle"
    /\ mode' = "running"
    /\ stale' = (stale \/ (Readable /\ disk # value))
    /\ \/ lastSave' = lastSave
       \/ ~stale /\ disk = value /\ lastSave' = value
    /\ UNCHANGED <<disk, stored, told, value, mem, turn, caught, lineage, restored,
                   images, madeVars>>

\* restore: the server runs on where assertSandboxRestorable finds its own
\* generation on the disk, and stays saved where it does not.
Restore ==
    /\ mode = "saved" /\ turn = "idle"
    /\ mode' = IF disk = value THEN "running" ELSE "saved"
    /\ UNCHANGED <<disk, stored, lastSave, told, value, stale, mem, turn, caught,
                   lineage, restored, images, madeVars>>

\* resume, and the expiry of a save: nothing is read of the directory.  The hook
\* answers a resume alike where the save was outlived.
Resume ==
    /\ mode = "saved" /\ turn = "idle"
    /\ mode' = "running"
    /\ UNCHANGED <<disk, stored, lastSave, told, value, stale, mem, turn, caught,
                   lineage, restored, images, madeVars>>

-----------------------------------------------------------------------------
(* The host.                                                               *)

Process == [caught |-> caught, value |-> value, stale |-> stale, mem |-> mem,
            turn |-> turn, lineage |-> lineage]

\* The host takes a saved server's memory, between any two of its steps.
Freeze ==
    /\ mode = "saved" /\ Cardinality(images) < MaxImages
    /\ images' = images \cup {Process}
    /\ UNCHANGED <<disk, stored, lastSave, told, serverVars, madeVars>>

\* The server ends, and its memory with it.
Kill ==
    /\ Up
    /\ mode' = "down" /\ value' = NoGeneration /\ stale' = FALSE /\ mem' = {} /\ turn' = "idle"
    /\ caught' = NoGeneration /\ lineage' = 0 /\ restored' = FALSE
    /\ UNCHANGED <<disk, stored, lastSave, told, images, madeVars>>

\* A save runs on where it was taken.  A host that checks the contract first
\* (the directory's generation is the one the save said it caught) may have
\* frozen the server anywhere; one that leaves the check to the server's own
\* restore is taken to have frozen it between two turns.
Thaw ==
    \E i \in images :
        /\ ~Up
        /\ disk = i.caught \/ i.turn = "idle"
        /\ mode' = "saved" /\ value' = i.value /\ stale' = i.stale
        /\ mem' = i.mem /\ turn' = i.turn /\ caught' = i.caught
        /\ lineage' = i.lineage /\ restored' = TRUE
        /\ UNCHANGED <<disk, stored, lastSave, told, images, madeVars>>

\* What is outside the server leaves a file there that it cannot read.
Corrupt ==
    /\ disk # Unreadable
    /\ disk' = Unreadable
    /\ UNCHANGED <<stored, lastSave, told, serverVars, images, madeVars>>

GenerationNext ==
    \/ Start \/ StartFails
    \/ Change \/ AssertCurrent \/ Write \/ WriteFails \/ Persist \/ Tell
    \/ Save \/ SaveFails \/ Restore \/ Resume
    \/ Freeze \/ Kill \/ Thaw \/ Corrupt

GenerationSpec == GenerationInit /\ [][GenerationNext]_generationVars

-----------------------------------------------------------------------------
(* Properties.                                                             *)

\* A save whose generation is the directory's holds every change that was
\* persisted or told: what assertSandboxRestorable lets run on shows clients no
\* state they had moved past (state-generation.ts:20-28).
RestorableSavesAreWhole ==
    \A i \in images : i.value = disk => seen \subseteq i.mem

\* Once a server has started afresh no save from before may be restored
\* (openAfresh), a start over an unreadable file included.
FreshStartOutlivesSaves ==
    \A i \in images : i.value = disk => i.lineage = starts

\* What is persisted is never replaced by a state that lacks a change persisted
\* or told before: a server restored from an outlived save, or one made to run
\* on all the same by a resume, writes nothing over what is newer.
NothingNewerOverwritten ==
    [][stored' # stored => seen \subseteq stored']_generationVars

\* No client is told of a state that lacks a change it was told of, or that the
\* directory holds: a stale server tells nothing.
NothingToldGoesBack ==
    [][told' # told /\ Up => seen \subseteq told']_generationVars

\* What a save writes into last-save.json is the generation written last of all,
\* by any server, whichever of two draws is the higher number: a stale server, or
\* one whose file was damaged or replaced, records no save (sandboxSaving).
LastSaveIsLatest == [][lastSave' # lastSave => lastSave' = last']_generationVars

-----------------------------------------------------------------------------
(* The inductive invariant, part by part.                                  *)

\* The file holds the generation written last, or none that can be read.
DiskIsLast ==
    /\ Readable => disk = last
    /\ disk = Missing => last = NoGeneration
    /\ lastSave \preceq last

\* Past assertCurrent and until the turn ends the server's count was written
\* last, and past the write it was written after what its last save caught.
ServerCounts ==
    Up => /\ caught \preceq value /\ value \preceq last
          /\ turn \in {"checked", "bumped", "written"} => value = last
          /\ turn \in {"bumped", "written"} => caught # value

\* A server whose count was written last misses nothing persisted or told.
ServerIsWhole ==
    Up /\ value = last => seen \subseteq mem /\ lineage = starts

SavesCount ==
    \A i \in images :
        /\ i.caught \preceq i.value /\ i.value \preceq last
        /\ i.turn \in {"bumped", "written"} => i.caught # i.value

\* Nor does a save whose count was written last, not even what the server is about
\* to persist and tell under that count.
SavesAreWhole ==
    \A i \in images :
        i.value = last =>
            /\ seen \subseteq i.mem /\ i.lineage = starts
            /\ Up /\ turn \in {"bumped", "written"} => mem \subseteq i.mem

FenceInv ==
    /\ GenerationTypeOK /\ DiskIsLast /\ ServerCounts /\ ServerIsWhole
    /\ SavesCount /\ SavesAreWhole
=============================================================================
