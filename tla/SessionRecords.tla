---------------------------- MODULE SessionRecords ----------------------------
(***************************************************************************)
(* A session's record and its execs', as the session manager changes them, *)
(* and the schemas its stores hold what they write to: the catalog's       *)
(* (session/catalog-store.ts) and the exec history's                       *)
(* (session/exec-history-store.ts).  A write a schema refuses throws, and  *)
(* its session is not persisted; at a server's start it stops the start.   *)
(*                                                                         *)
(* Each time is what the clock says at the moment, and the clock may be    *)
(* set back or forth between any two: 0 is no time.  What a write costs    *)
(* that fails for another reason is of CheckpointStore and                 *)
(* SessionLifecycle, and so is what a session does while it waits.         *)
(***************************************************************************)
EXTENDS Naturals, Sequences, SequencesExt, FiniteSets

CONSTANTS
    MaxTime,      \* bound: the latest time the clock says
    MaxExecs,     \* bound: execs submitted
    MaxStarts,    \* bound: execs started
    MaxMessages,  \* bound: what an exec says
    MaxHarms      \* bound: damages to the checkpoint from outside

ASSUME BoundAssumption ==
    /\ MaxTime \in Nat \ {0} /\ MaxExecs \in Nat
    /\ MaxStarts \in Nat /\ MaxMessages \in Nat /\ MaxHarms \in Nat

Clock == 1..MaxTime
Execs == 1..MaxExecs
None == 0

VARIABLES
    mem,      \* the session's entry, its history and its execs' messages
    durable,  \* its durability is checkpointed
    live,     \* its runtime: none, starting, up, killed for its memory, or closing
    active,   \* the runtime's active exec
    writing,  \* the active exec's submission is still being written
    late,     \* the stopped execs whose submission is: their loops hold old records
    store,    \* the checkpoint store: the checkpoint's time, and whether it reads
    disk,     \* what the catalog and the history's file hold
    up,       \* the server runs
    gone,     \* the session is removed
    spoiled,  \* history: an exec's late failure was added to this server's history
    refused,  \* history: the last turn that wrote, where a schema refused it
    harms

vars == <<mem, durable, live, active, writing, late, store, disk, up, gone, spoiled,
          refused, harms>>

Statuses == {"recovering", "live_idle", "live_busy", "suspended", "quarantined", "closed"}
Pending == {"queued", "running"}
Ends == {"ok", "error", "interrupted"}

\* SessionRecord: a reason is quarantineReason, rev checkpointRevision, ckAt its time
\* and snap processSnapshot, as there or not.
Entries == [status : Statuses, reason : BOOLEAN, created : Nat, updated : Nat,
            rev : BOOLEAN, ckAt : Nat, snap : BOOLEAN]

\* ExecRecord, without its messages, which are of Messages: their times, as they were
\* appended.  An exec that is copied as it ends shares them with the record it was.
Records == [status : {"none"} \cup Pending \cup Ends, submitted : Nat, started : Nat,
            finished : Nat, lasted : Nat, why : BOOLEAN]
Messages == Seq(Nat)

Memories == [entry : Entries, hist : [Execs -> Records], msgs : [Execs -> Messages]]

NoRecord == [status |-> "none", submitted |-> 0, started |-> 0, finished |-> 0,
             lasted |-> 0, why |-> FALSE]
NoEntry == [status |-> "closed", reason |-> FALSE, created |-> 0, updated |-> 0,
            rev |-> FALSE, ckAt |-> 0, snap |-> FALSE]
NoHistory == [e \in Execs |-> NoRecord]
NoMessages == [e \in Execs |-> <<>>]
Forgotten == [entry |-> NoEntry, hist |-> NoHistory, msgs |-> NoMessages]
NoFiles == [listed |-> FALSE, entry |-> NoEntry, hist |-> NoHistory, msgs |-> NoMessages]

\* The turns that write.
Turns == {"recover", "back", "back fails", "recycle", "quarantine", "touch", "submit", "start",
          "startup", "late", "end", "commit", "end fails", "contain", "memory kill", "stop",
          "close", "tombstone", "shutdown", "load"}

TypeOK ==
    /\ mem \in Memories /\ durable \in BOOLEAN
    /\ live \in {"none", "starting", "up", "killed", "closing"}
    /\ active \in {None} \cup Execs /\ writing \in BOOLEAN /\ late \subseteq Execs
    /\ store \in [at : Nat, reads : BOOLEAN]
    /\ disk \in [listed : BOOLEAN, entry : Entries, hist : [Execs -> Records],
                 msgs : [Execs -> Messages]]
    /\ up \in BOOLEAN /\ gone \in BOOLEAN /\ spoiled \in BOOLEAN
    /\ refused \subseteq Turns /\ harms \in 0..MaxHarms

Later(a, b) == IF a >= b THEN a ELSE b
Earlier(a, b) == IF a <= b THEN a ELSE b

-----------------------------------------------------------------------------
(* The schemas.                                                            *)

Origin(r) == IF r.started # 0 THEN r.started ELSE r.submitted

\* ExecRecordSchema, of what depends on more than one field.
ExecTaken(r, ms) ==
    /\ r.status \in Ends <=> r.finished # 0
    /\ r.status = "interrupted" <=> r.why
    /\ r.status = "queued" => r.started = 0 /\ ms = <<>>
    /\ r.status \in {"running", "ok", "error"} => r.started # 0
    /\ r.started # 0 => r.started >= r.submitted
    /\ r.finished # 0 => /\ r.finished >= Origin(r)
                         /\ r.lasted = IF r.started = 0 /\ r.status = "interrupted" THEN 0
                                       ELSE r.finished - Origin(r)
    /\ \A i \in 1..Len(ms) :
         /\ ms[i] >= Origin(r) /\ (r.finished # 0 => ms[i] <= r.finished)
         /\ i > 1 => ms[i] >= ms[i - 1]

\* ExecHistorySchema.
HistoryTaken(hist, msgs) ==
    \A e \in Execs : hist[e].status # "none" =>
        /\ ExecTaken(hist[e], msgs[e])
        /\ \A d \in Execs : d < e => hist[d].submitted <= hist[e].submitted

\* SessionCatalogEntrySchema; that a closed entry says so twice is persist's to do.
EntryTaken(s) ==
    /\ s.rev <=> s.ckAt # 0
    /\ s.status = "quarantined" <=> s.reason
    /\ ~durable => ~s.rev /\ ~s.snap
    /\ s.updated >= s.created /\ s.updated >= s.ckAt

Taken(m) == HistoryTaken(m.hist, m.msgs) /\ EntryTaken(m.entry)

-----------------------------------------------------------------------------
(* What a turn does to the memory, before it is persisted.                 *)

LastOf(ms) == IF ms = <<>> THEN 0 ELSE ms[Len(ms)]

\* An exec's end may precede what it said (mutant).
EndSinceStart(r, ms, t) == Later(t, Later(r.submitted, r.started))

\* The end of an exec observed at t: execTimestampAtOrAfterHistory.
EndOf(r, ms, t) == Later(Later(t, r.submitted), Later(r.started, LastOf(ms)))

\* finishExec, as `end`, at t.
Finished(r, end, t) ==
    [r EXCEPT !.status = end, !.finished = t, !.why = (end = "interrupted"),
              !.lasted = IF r.started # 0 /\ t >= r.started THEN t - r.started ELSE 0]

\* appendExecMessage, observed at t.
Said(r, ms, t) ==
    LET observed == Later(t, Later(Origin(r), LastOf(ms))) IN
    Append(ms, IF r.finished = 0 THEN observed ELSE Earlier(observed, r.finished))

\* reconcileOrphanedExecs: the pending execs, but those kept, end interrupted.
Orphaned(r, ms, t) ==
    [r EXCEPT !.status = "interrupted", !.why = TRUE, !.finished = EndOf(r, ms, t),
              !.lasted = IF r.status = "queued" THEN 0 ELSE EndOf(r, ms, t) - Origin(r)]

\* Every exec's but those kept, ended or not (mutant).
ReconciledEnded(m, kept, t) ==
    [m EXCEPT !.hist = [e \in Execs |->
        IF @[e].status \in (Pending \cup Ends) \ kept THEN Orphaned(@[e], m.msgs[e], t)
        ELSE @[e]]]

Reconciled(m, kept, t) ==
    [m EXCEPT !.hist = [e \in Execs |->
        IF @[e].status \in Pending \ kept THEN Orphaned(@[e], m.msgs[e], t) ELSE @[e]]]

\* touchSession, at u.
Touched(m, u) ==
    [m EXCEPT !.entry.updated =
        Later(Later(u, m.entry.created), Later(m.entry.updated, m.entry.ckAt))]

\* setQuarantinedState, at u.
Quarantined(m, u) ==
    Touched([m EXCEPT !.entry.status = "quarantined", !.entry.reason = TRUE], u)

\* terminalizeRuntimeExecs, at t; the entry is as late as its end.
Terminalized(m, kept, t) ==
    [Reconciled(m, kept, t) EXCEPT !.entry.updated = Later(m.entry.updated, t)]

\* The exec ends as `end`, observed at t, and says why at v where it failed.
EndedAs(m, e, end, t) ==
    [m EXCEPT !.hist[e] = Finished(m.hist[e], end, EndOf(m.hist[e], m.msgs[e], t))]
Failing(m, e, v) == [m EXCEPT !.msgs[e] = Said(m.hist[e], m.msgs[e], v)]
Failed(m, e, t, v) == Failing(EndedAs(m, e, "error", t), e, v)

Status(m, status) == [m EXCEPT !.entry.status = status]
LiveIdle(m) == [m EXCEPT !.entry.status = "live_idle", !.entry.reason = FALSE]

\* persist's own of the entry's times.
Stamped(m) ==
    [m EXCEPT !.entry.updated = Later(@, Later(m.entry.created, m.entry.ckAt))]

\* Whether a schema refuses one of `all`, the writes of the turn `what`.
Written(what, all) ==
    refused' = IF \A n \in all : Taken(Stamped(n)) THEN {} ELSE {what}

\* What the disk holds then: the history is written first.  A server that dies between
\* the two files leaves the entry as it was, and forgets the rest.
OnDisk(m) ==
    \E dies \in BOOLEAN :
      LET lists == ~dies /\ Taken(Stamped(m)) IN
      /\ up' = ~dies /\ mem' = IF dies THEN Forgotten ELSE Stamped(m)
      /\ disk' = IF ~HistoryTaken(m.hist, m.msgs) THEN disk
                 ELSE [listed |-> disk.listed \/ lists,
                       entry |-> IF lists THEN Stamped(m).entry ELSE disk.entry,
                       hist |-> m.hist, msgs |-> m.msgs]

\* A turn's writes: `m`, the last of them, is what it leaves.
Persist(what, before, m) == Written(what, before \cup {m}) /\ OnDisk(m)

-----------------------------------------------------------------------------
(* A session's runtime starts, and its session comes back.                 *)

\* A session being created, its initial checkpoint committed if it has one.
Init ==
    /\ durable \in BOOLEAN
    /\ \E t \in Clock, c \in Clock \cup {0} :
         /\ c # 0 => durable
         /\ mem = [entry |-> [status |-> "recovering", reason |-> FALSE, created |-> t,
                              updated |-> Later(t, c), rev |-> c # 0, ckAt |-> c,
                              snap |-> FALSE],
                   hist |-> NoHistory, msgs |-> NoMessages]
         /\ store = [at |-> c, reads |-> TRUE]
         /\ disk = IF c = 0 THEN NoFiles ELSE [NoFiles EXCEPT !.listed = TRUE, !.entry = mem.entry]
    /\ live = "starting" /\ active = None /\ writing = FALSE /\ late = {}
    /\ up = TRUE /\ gone = FALSE /\ spoiled = FALSE /\ refused = {} /\ harms = 0

\* A server whose history a late failure spoiled is followed no further than its end.
Serving == up /\ ~gone /\ ~spoiled
Open == Serving /\ mem.entry.status # "closed"
Unlocked == Open /\ live \in {"none", "up", "killed"}
Ran == live \in {"up", "killed"}

\* compatibleCheckpoint.
Compatible == store.reads /\ (store.at = 0 => ~mem.entry.rev)

\* The runtime goes, and with it the exec that runs: the loop whose write is under way
\* fails with its old record.
Leaves(to) ==
    /\ live' = to /\ active' = None /\ writing' = FALSE
    /\ late' = late \cup {e \in Execs : e = active /\ writing}
\* The exec that ran has ended, and its loop finds its record so.
Idle(to) == live' = to /\ active' = None /\ writing' = FALSE /\ UNCHANGED late
Removed == gone' = TRUE /\ mem' = Forgotten /\ disk' = NoFiles
SameRuntime == UNCHANGED <<live, active, writing, late>>
SameRest == UNCHANGED <<durable, store, gone, spoiled, harms>>

Recover ==
    /\ Open /\ live = "none" /\ mem.entry.status = "suspended"
    /\ mem.entry.snap \/ Compatible
    /\ \E u \in Clock : LET m == Touched(Status(mem, "recovering"), u) IN
         Persist("recover", {}, m)
    /\ Leaves("starting") /\ SameRest

\* The runtime is up: the end of a create, a recovery or a recycle.  One that is
\* quarantined meanwhile, or was before a reset, does not come up.
Back ==
    /\ Open /\ live = "starting" /\ mem.entry.status # "quarantined"
    /\ \E u \in Clock : LET m == Touched([LiveIdle(mem) EXCEPT !.entry.snap = FALSE], u) IN
         Persist("back", {}, m)
    /\ Leaves("up") /\ SameRest

BackFails ==
    /\ Open /\ live = "starting" /\ (durable \/ disk.listed)
    /\ \E t, u \in Clock :
         LET spent == [mem EXCEPT !.entry.snap = FALSE]
             m == Quarantined(spent, u) IN
         Persist("back fails", {m, Quarantined(Reconciled(spent, {}, t), u)},
                 Terminalized(m, {}, t))
    /\ Leaves("none") /\ SameRest

\* An ephemeral session that cannot be created is removed.
CreateFails ==
    /\ Open /\ live = "starting" /\ ~durable /\ ~disk.listed
    /\ Leaves("none") /\ Removed
    /\ UNCHANGED <<up, refused, durable, store, spoiled, harms>>

\* recycleRuntime, after a memory kill, past the memory budget, on a reset or an
\* interrupt, which ends the exec first: the queued execs wait for the next runtime.
Recycle ==
    /\ Unlocked /\ Ran /\ (durable => Compatible)
    /\ \E t \in Clock :
         \/ LET m == Terminalized(mem, {"queued"}, t) IN
            /\ Persist("recycle", {}, m)
            /\ Leaves("starting")
         \/ /\ active # None
            /\ LET ended == Touched(EndedAs(mem, active, "interrupted", t),
                                   EndOf(mem.hist[active], mem.msgs[active], t))
                   m == Terminalized(ended, {"queued"}, t) IN
               Persist("recycle", {ended}, m)
            /\ Idle("starting")
    /\ SameRest

\* resetToCheckpoint of a session with no runtime.
Reset ==
    /\ Open /\ live = "none" /\ durable /\ store.reads /\ store.at # 0
    /\ live' = "starting"
    /\ UNCHANGED <<mem, disk, up, refused, active, writing, late>> /\ SameRest

\* quarantineSession: an operation fails, or a recovery finds no checkpoint.
Quarantine ==
    /\ Unlocked
    /\ \E t, u \in Clock :
         LET m == Quarantined(mem, u) IN
         Persist("quarantine", {m}, IF Ran THEN Terminalized(m, {}, t) ELSE m)
    /\ Leaves("none") /\ SameRest

\* setBootstrap, or resize.
Touch ==
    /\ Unlocked
    /\ \E u \in Clock : LET m == Touched(mem, u) IN Persist("touch", {}, m)
    /\ SameRuntime /\ SameRest

-----------------------------------------------------------------------------
(* Execs.                                                                  *)

\* submitExec.
Submit ==
    /\ Unlocked /\ Ran /\ mem.entry.status # "quarantined"
    /\ \E e \in Execs, t, u \in Clock :
         /\ mem.hist[e].status = "none"
         /\ \A d \in Execs : d < e => mem.hist[d].status # "none"
         /\ LET before == IF e = 1 THEN 0 ELSE mem.hist[e - 1].submitted
                m == Touched([mem EXCEPT !.hist[e] = [NoRecord EXCEPT
                                 !.status = "queued", !.submitted = Later(t, before)]], u) IN
            Persist("submit", {}, m)
    /\ SameRuntime /\ SameRest

NextQueued(e) ==
    /\ Cardinality({d \in Execs : mem.hist[d].started # 0}) < MaxStarts
    /\ live = "up" /\ active = None /\ mem.hist[e].status = "queued"
    /\ \A d \in Execs : d < e => mem.hist[d].status # "queued"

\* performExec's change of the record and its session.
Started(m, e, t, u) ==
    Touched([Status(m, "live_busy") EXCEPT
               !.hist[e].status = "running",
               !.hist[e].started = Later(t, m.hist[e].submitted)], u)

Start ==
    /\ Open
    /\ \E e \in Execs, t, u \in Clock :
         /\ NextQueued(e) /\ active' = e
         /\ LET m == Started(mem, e, t, u) IN Persist("start", {}, m)
    /\ writing' \in BOOLEAN
    /\ UNCHANGED <<live, late>> /\ SameRest

Submitted ==
    /\ writing /\ writing' = FALSE
    /\ UNCHANGED <<mem, disk, up, refused, live, active, late>> /\ SameRest

\* failExecStartup, of the exec e of m: its submission could not be prepared, or written.
FailStartup(m, e) ==
    \E t, u, v \in Clock :
      LET failed == Touched(Failed(m, e, t, v), EndOf(m.hist[e], m.msgs[e], t))
          said == Quarantined(failed, u) IN
      Persist("startup", {failed, said}, Terminalized(said, {}, t))

StartFails ==
    /\ Open
    /\ \/ \E e \in Execs, t, u \in Clock :
            NextQueued(e) /\ FailStartup(Started(mem, e, t, u), e)
       \/ live = "up" /\ writing /\ FailStartup(mem, active)
    /\ Idle("none") /\ SameRest

\* The loop of an exec that was stopped fails in its turn, with the record it began
\* with, which shares its messages with the one in the history.
LateFails ==
    /\ Serving
    /\ \E e \in late, t, u, v \in Clock :
         LET old == [mem.hist[e] EXCEPT !.status = "running", !.finished = 0]
             end == EndOf(old, mem.msgs[e], t)
             failed == Touched([mem EXCEPT
                 !.msgs[e] = Said(Finished(old, "error", end), @, v)], end)
             said == Quarantined(failed, u) IN
         /\ Persist("late", {failed, said}, IF Ran THEN Terminalized(said, {}, t) ELSE said)
         /\ late' = (late \ {e}) \cup {d \in Execs : d = active /\ writing}
    /\ live' = (IF Ran THEN "none" ELSE live) /\ active' = None /\ writing' = FALSE
    /\ spoiled' = TRUE
    /\ UNCHANGED <<durable, store, gone, harms>>

Says ==
    /\ Open /\ active # None
    /\ Len(mem.msgs[active]) < MaxMessages
    /\ \E v \in Clock : mem' = Failing(mem, active, v)
    /\ UNCHANGED <<disk, up, refused>> /\ SameRuntime /\ SameRest

\* endExec and finalizeInterruptedExec: interrupted, in error with the checkpoint
\* preserved, or with none to commit.
End ==
    /\ Open /\ active # None
    /\ \E end \in Ends, t, u \in Clock :
         /\ durable => end # "ok"
         /\ LET ended == Touched(EndedAs(mem, active, end, t),
                                EndOf(mem.hist[active], mem.msgs[active], t))
                m == Touched(Status(ended, "live_idle"), u) IN
            Persist("end", IF end = "interrupted" THEN {ended} ELSE {}, m)
    /\ Idle(live) /\ SameRest

\* endExec, with a checkpoint: afterCheckpointCommitted persists it, and endExec again.
EndCommits ==
    /\ Open /\ active # None /\ durable /\ store.reads
    /\ \E end \in {"ok", "error"}, t, c \in Clock :
         LET at == Later(c, store.at)
             ended == EndedAs(mem, active, end, t)
             committed == Touched([ended EXCEPT !.entry.rev = TRUE, !.entry.ckAt = at], at)
             m == Touched(Status(committed, "live_idle"),
                          EndOf(mem.hist[active], mem.msgs[active], t)) IN
         /\ Persist("commit", {committed}, m)
         /\ store' = [store EXCEPT !.at = at]
    /\ Idle(live) /\ UNCHANGED <<durable, gone, spoiled, harms>>

\* With none of those it must have, or one that cannot be written: the session is
\* quarantined, the exec in error whatever the runtime said, and its runtime stopped.
EndFails ==
    /\ Open /\ active # None /\ durable
    /\ \E end \in {"ok", "error"}, t, u, v \in Clock :
         LET told == Quarantined(EndedAs(mem, active, end, t), u)
             failed == Touched(Failing([told EXCEPT !.hist[active].status = "error"], active, v),
                               EndOf(mem.hist[active], mem.msgs[active], t)) IN
         Persist("end fails", {told, failed}, Terminalized(failed, {}, t))
    /\ Idle("none") /\ SameRest

-----------------------------------------------------------------------------
(* The runtime's end, and the session's.                                   *)

\* Its active exec, if any, in error for `why`.
ActiveFailed(t, v) == IF active = None THEN mem ELSE Failed(mem, active, t, v)

\* onRuntimeExit: containRuntimeFailure.
Contain ==
    /\ Open /\ live = "up"
    /\ \E t, u, v \in Clock :
         LET m == Quarantined(Terminalized(ActiveFailed(t, v), {}, t), u) IN
         Persist("contain", {}, m)
    /\ Idle("none") /\ SameRest

\* comeBackFromMemoryKill; the recycle is a turn of its own.
MemoryKill ==
    /\ Open /\ live = "up"
    /\ \E t, u, v \in Clock :
         LET m == Touched(Status(ActiveFailed(t, v), "recovering"), u) IN
         Persist("memory kill", {}, m)
    /\ Idle("killed") /\ SameRest

\* close, an eviction or a collection: stopRuntime, and once the host has ended
\* finalizeSessionRemoval.
CloseStarts ==
    /\ Unlocked /\ Ran
    /\ \E t \in Clock :
         LET m == Terminalized(mem, {}, t) IN Persist("stop", {}, m)
    /\ Leaves("closing") /\ SameRest

\* The tombstone of a quarantined session has a reason still.
CloseEnds ==
    /\ Serving /\ live \in {"none", "closing"}
    /\ \E u \in Clock :
         LET m == Touched(Status(mem, "closed"), u) IN
         /\ Written(IF mem.entry.reason THEN "tombstone" ELSE "close", {m})
         /\ \/ OnDisk(m) /\ UNCHANGED gone
            \/ Removed /\ UNCHANGED up
    /\ Leaves("none")
    /\ UNCHANGED <<durable, store, spoiled, harms>>

\* performShutdown: a process snapshot of a runtime that is idle, or stopRuntime.
Suspended(m) ==
    IF m.entry.status = "quarantined" THEN m
    ELSE IF ~Compatible /\ ~m.entry.snap
    THEN [m EXCEPT !.entry.status = "quarantined", !.entry.reason = TRUE]
    ELSE [m EXCEPT !.entry.status = "suspended", !.entry.reason = FALSE]

Shutdown ==
    /\ Serving /\ live \in {"none", "up", "killed"}
    /\ up' = FALSE /\ Leaves("none") /\ UNCHANGED <<durable, store, spoiled, harms>>
    /\ IF ~durable THEN Removed /\ UNCHANGED refused
       ELSE IF ~Ran THEN mem' = Forgotten /\ UNCHANGED <<disk, gone, refused>>
       ELSE /\ UNCHANGED gone /\ mem' = Forgotten
            /\ \E t, u \in Clock, dumped \in BOOLEAN :
                 LET stopped == IF dumped THEN [mem EXCEPT !.entry.snap = TRUE]
                                ELSE Terminalized(mem, {}, t)
                     m == Touched(Suspended(stopped), u) IN
                 /\ dumped => /\ mem.entry.status = "live_idle"
                              /\ \A e \in Execs : mem.hist[e].status \notin Pending
                 /\ Written("shutdown", {m} \cup (IF dumped THEN {} ELSE {stopped}))
                 /\ disk' = IF ~Taken(Stamped(m)) THEN disk
                            ELSE [listed |-> TRUE, entry |-> Stamped(m).entry,
                                  hist |-> m.hist, msgs |-> m.msgs]

Crash ==
    /\ up /\ up' = FALSE /\ mem' = Forgotten /\ Leaves("none")
    /\ UNCHANGED <<disk, refused>> /\ SameRest

-----------------------------------------------------------------------------
(* loadCatalog: the next server's start.                                   *)

\* normalizeCatalogEntry, and the quarantine of a checkpoint that cannot be read.
Normalized(e) ==
    IF ~store.reads /\ ~e.snap
    THEN [e EXCEPT !.rev = FALSE, !.ckAt = 0, !.status = "quarantined", !.reason = TRUE]
    ELSE LET at == IF store.reads THEN store.at ELSE 0
             a == [e EXCEPT !.rev = at # 0, !.ckAt = at, !.updated = Later(@, at)] IN
         IF e.status = "quarantined" THEN [a EXCEPT !.snap = FALSE]
         ELSE IF ~e.snap /\ at = 0 /\ e.rev
         THEN [a EXCEPT !.status = "quarantined", !.reason = TRUE]
         ELSE [a EXCEPT !.status = "suspended", !.reason = FALSE]

\* A process snapshot that cannot be restored here is left out.
Load ==
    /\ ~up /\ ~gone /\ up' = TRUE
    /\ spoiled' = FALSE /\ late' = {} /\ live' = "none" /\ active' = None /\ writing' = FALSE
    /\ UNCHANGED <<durable, store, harms>>
    /\ IF ~disk.listed \/ ~durable \/ disk.entry.status = "closed"
       THEN Removed /\ UNCHANGED refused
       ELSE /\ UNCHANGED gone
            /\ \E t \in Clock, restorable \in BOOLEAN :
                 LET found == [disk.entry EXCEPT !.snap = @ /\ restorable]
                     m == Reconciled([entry |-> Normalized(found), hist |-> disk.hist,
                                      msgs |-> disk.msgs], {}, t) IN
                 /\ Written("load", {m}) /\ mem' = Stamped(m)
                 /\ disk' = [listed |-> TRUE, entry |-> mem'.entry, hist |-> m.hist,
                             msgs |-> m.msgs]

\* The checkpoint's files are lost, or come to read no more, from outside.
Harm ==
    /\ harms < MaxHarms /\ harms' = harms + 1 /\ durable
    /\ store' \in {[at |-> 0, reads |-> TRUE], [store EXCEPT !.reads = FALSE]}
    /\ UNCHANGED <<mem, disk, up, refused, durable, gone, spoiled>> /\ SameRuntime

Next ==
    \/ Recover \/ Back \/ BackFails \/ CreateFails \/ Recycle \/ Reset \/ Quarantine
    \/ Touch \/ Submit \/ Start \/ Submitted \/ StartFails \/ LateFails \/ Says
    \/ End \/ EndCommits \/ EndFails \/ Contain \/ MemoryKill
    \/ CloseStarts \/ CloseEnds \/ Shutdown \/ Crash \/ Load \/ Harm

Spec == Init /\ [][Next]_vars

-----------------------------------------------------------------------------
(* Properties.                                                             *)

\* However the clock is set between any two turns, and whatever ends an exec, the
\* schemas take what the session manager writes, and what a start writes of what it read
\* (catalog-store.ts:91, exec-history-store.ts:85): only the tombstone of a quarantined
\* session is refused, and the failure of a write that outlived its exec.
StoresTakeAll == refused \subseteq {"tombstone", "late"}

\* A client reads an exec's messages from the number after the last it has, until a
\* reading says the exec is done (exec-snapshot.ts:273-336): it misses none and is told
\* nothing that is taken back, as an exec's messages are only added to, and once it
\* ended neither they nor how it ended ever change, whatever goes wrong after.  The
\* failure of a write that outlived its exec is the exception.
EndedIsFinal ==
    [][up /\ up' /\ ~gone' /\ ~spoiled' =>
         \A e \in Execs :
            /\ IsPrefix(mem.msgs[e], mem'.msgs[e])
            /\ mem.hist[e].status \in Ends =>
                 mem'.hist[e] = mem.hist[e] /\ mem'.msgs[e] = mem.msgs[e]]_vars

=============================================================================
