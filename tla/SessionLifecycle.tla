--------------------------- MODULE SessionLifecycle ---------------------------
(***************************************************************************)
(* One session of the session manager (session/session-manager.ts): its    *)
(* lock, its queue of execs and the loops that drain it, its runtime being *)
(* started, recycled, interrupted, killed and stopped, its quarantine and  *)
(* its removal, and what of it is on the disk for the next server.         *)
(*                                                                         *)
(* JavaScript runs one turn at a time: a turn is a step here, from one     *)
(* await to the next, with every change the functions called in it make.   *)
(* What an awaited promise resumes runs before the next outside event      *)
(* (Settled).  The operations of the session's lock (withSessionMutation)  *)
(* run one after the other in the order they came; the drain loops, the    *)
(* runtime's exit and the terminations behind a quarantine hold no lock.   *)
(***************************************************************************)
EXTENDS Naturals, Sequences, FiniteSets, Functions

CONSTANTS
    Asks,        \* the operations clients ask for
    LineDelays,  \* whether a transport's write takes its time (lineSubmitDelayMs)
    Budgeted,    \* the runtime has a memory budget
    MaxExecs,    \* bound: execs submitted
    MaxRuntimes, \* bound: runtimes started
    MaxAsks,     \* bound: operations asked for
    Troubles,    \* what may go wrong: "exit", a runtime that exits of itself; "fault", a
                 \* write to the state directory that fails; "restart"
    MaxTroubles, \* bound: how often something does, together
    MaxSaves     \* bound: saves of the server

ASSUME LifecycleAssumption ==
    /\ Asks \subseteq {"submit", "reset", "interrupt", "close"}
    /\ LineDelays \subseteq BOOLEAN /\ Budgeted \in BOOLEAN
    /\ MaxExecs \in Nat \ {0} /\ MaxRuntimes \in Nat \ {0} /\ MaxAsks \in Nat
    /\ Troubles \subseteq {"exit", "fault", "restart"} /\ MaxTroubles \in Nat /\ MaxSaves \in Nat

Execs == 1..MaxExecs
Runtimes == 1..MaxRuntimes
None == 0
Boot == MaxExecs + 1    \* the bootstrap's exec, internal to a recycle

VARIABLES
    session,   \* the session's entry, and its live runtime's
    listed,    \* the manager's sessions hold it
    durable,   \* its durability is checkpointed
    boots,     \* it has bootstrap code
    delayed,   \* its transport's write takes its time
    disk,      \* its catalog entry and its history
    op,        \* the operation that holds its lock
    tail,      \* those that wait for it, in order
    loops,     \* the drain loops under way
    ending,    \* runtimes a quarantine without the lock terminates
    dead,      \* runtimes whose process is gone
    runtimes,  \* runtimes started
    saved,     \* the server is saved
    up,        \* the server runs
    told,      \* history: the end each exec was first told to have
    toldAnew,  \* history: an exec was told another end than before
    closed,    \* history: the session was told closed
    astray,    \* history: "early", an exec ran on a runtime still being launched; "late", one
               \* was failed whose record was no longer its session's; "revived", a recycle
               \* brought back a session quarantined meanwhile
    faults,    \* turns whose writes failed
    spent      \* what of the other bounds is used up

vars == <<session, listed, durable, boots, delayed, disk, op, tail, loops, ending, dead,
          runtimes, saved, up, told, toldAnew, closed, astray, faults, spent>>

Statuses == {"recovering", "live_idle", "live_busy", "suspended", "quarantined", "closed"}
Ends == {"ok", "error", "interrupted"}
Pending == {"queued", "running"}
Histories == [Execs -> {"none"} \cup Pending \cup Ends]
Kinds == {"submit", "reset", "interrupt", "close", "memory", "budget"}
Places == {"stopping", "starting", "prompting", "clearing", "booting", "failing",
           "quarantining", "interrupting", "closing", "waiting"}
\* `ended`: the launch ended a runtime.
NoOp == [kind |-> "none", at |-> "none", run |-> None, exec |-> None,
         kept |-> <<>>, failed |-> FALSE, ended |-> FALSE]

\* The session's entry, the operation that has its lock, those that wait for it, and
\* the drain loops.
Entries ==
    [status : Statuses, hist : Histories, detached : SUBSET Execs,
     runtime : {None} \cup Runtimes, queue : Seq(Execs), active : 0..Boot,
     interrupted : BOOLEAN, endHeld : BOOLEAN, killed : BOOLEAN,
     subscribed : BOOLEAN, resolved : SUBSET (1..Boot), bootOk : BOOLEAN]
Holders ==
    [kind : Kinds, at : Places, run : {None} \cup Runtimes,
     exec : {None} \cup Execs, kept : Seq(Execs), failed : BOOLEAN, ended : BOOLEAN]
Waiters == [kind : Kinds, run : {None} \cup Runtimes]
LoopRecords ==
    [at : {"top", "saved", "write", "done"}, exec : {None} \cup Execs, run : {None} \cup Runtimes]

TypeOK ==
    /\ session \in Entries
    /\ listed \in BOOLEAN /\ durable \in BOOLEAN /\ boots \in BOOLEAN
    /\ delayed \in LineDelays
    /\ disk \in [catalog : {"none"} \cup Statuses, hist : Histories]
    /\ op \in {NoOp} \cup Holders
    /\ tail \in Seq(Waiters)
    /\ loops \subseteq LoopRecords
    /\ ending \subseteq Runtimes /\ dead \subseteq Runtimes
    /\ runtimes \in 0..MaxRuntimes
    /\ saved \in BOOLEAN /\ up \in BOOLEAN
    /\ told \in [Execs -> {"none"} \cup Ends] /\ toldAnew \in BOOLEAN /\ closed \in BOOLEAN
    /\ astray \subseteq {"early", "late", "revived"}
    /\ faults \in 0..MaxTroubles
    /\ spent \in [asks : 0..MaxAsks, exits : 0..MaxTroubles,
                  saves : 0..MaxSaves, restarts : 0..MaxTroubles]

NoExecs == [e \in Execs |-> "none"]
Fresh(status, runtime) ==
    [status |-> status, hist |-> NoExecs, detached |-> {}, runtime |-> runtime,
     queue |-> <<>>, active |-> None, interrupted |-> FALSE, endHeld |-> FALSE,
     killed |-> FALSE, subscribed |-> (runtime # None), resolved |-> {},
     bootOk |-> FALSE]

\* A session just created, or one of a server before, suspended.
Init ==
    /\ \/ session = Fresh("live_idle", 1) /\ durable \in BOOLEAN /\ runtimes = 1
       \/ session = Fresh("suspended", None) /\ durable = TRUE /\ runtimes = 0
    /\ boots \in {b \in BOOLEAN : b => durable} /\ delayed \in LineDelays
    /\ disk = [catalog |-> session.status, hist |-> NoExecs]
    /\ listed = TRUE /\ op = NoOp /\ tail = <<>> /\ loops = {}
    /\ ending = {} /\ dead = {} /\ saved = FALSE /\ up = TRUE
    /\ told = NoExecs /\ toldAnew = FALSE /\ closed = FALSE
    /\ astray = {} /\ faults = 0 /\ spent = [asks |-> 0, exits |-> 0, saves |-> 0, restarts |-> 0]

-----------------------------------------------------------------------------
(* What a turn does to the session's entry, before it is persisted.        *)

\* terminalizeRuntimeExecs: each pending exec ends interrupted, but those queued
\* that are kept, which leave the queue.  The history's record of the one that
\* ran is a new one: the loop that runs it holds the old (detached).
Terminalized(s, kept) ==
    IF s.runtime = None THEN s
    ELSE [s EXCEPT
            !.hist = [e \in Execs |-> IF @[e] \in Pending /\ e \notin kept
                                      THEN "interrupted" ELSE @[e]],
            !.detached = @ \cup {e \in Execs : s.hist[e] = "running"},
            !.queue = <<>>, !.active = None, !.endHeld = FALSE,
            !.interrupted = FALSE, !.resolved = @ \cup ({s.active} \ {None})]

\* stopRuntime, to its await of the runtime's termination.
Stopping(s, kept) == [Terminalized(s, kept) EXCEPT !.subscribed = FALSE]

\* The active exec ends as `end`.
Finished(s, end) ==
    [s EXCEPT !.hist = IF s.active \in Execs THEN [@ EXCEPT ![s.active] = end] ELSE @,
              !.active = None, !.endHeld = FALSE, !.interrupted = FALSE,
              !.resolved = @ \cup ({s.active} \ {None})]

\* quarantineSession and containRuntimeFailure, to the termination.
Quarantined(s) == [Stopping(s, {}) EXCEPT !.status = "quarantined"]

\* reconcileOrphanedExecs, of what a launch that failed kept.
Orphaned(s, kept) ==
    IF kept = <<>> THEN s
    ELSE [s EXCEPT !.hist = [e \in Execs |-> IF @[e] \in Pending THEN "interrupted" ELSE @[e]],
                   !.queue = <<>>]

\* The runtime `run` has ended: it is the session's no more, nor what it held.
Ended(s, run) ==
    IF s.runtime # run THEN s
    ELSE [s EXCEPT !.runtime = None, !.subscribed = FALSE, !.killed = FALSE,
                   !.queue = <<>>, !.active = None, !.endHeld = FALSE]

-----------------------------------------------------------------------------
(* What reaches the disk, and the clients.                                 *)

Faults == {"none", "generation", "catalog"}

\* One more thing may go wrong.
Trouble(kind) ==
    /\ kind \in Troubles
    /\ faults + spent.exits + spent.restarts < MaxTroubles

\* persist, in a turn with no fault, or in one whose state generation does not
\* move, or whose catalog write fails once its history is written.
Persist(s, fault) ==
    /\ fault = "none" \/ Trouble("fault")
    /\ disk' = CASE fault = "none" -> [catalog |-> s.status, hist |-> s.hist]
                 [] fault = "generation" -> disk
                 [] fault = "catalog" -> [disk EXCEPT !.hist = s.hist]
    /\ faults' = IF fault = "none" THEN faults ELSE faults + 1

\* TellEnd, whether the generation moved or not (mutant).
TellAnyhow(e, end, fault) ==
    IF e \in Execs
    THEN /\ told' = [told EXCEPT ![e] = IF @ = "none" THEN end ELSE @]
         /\ toldAnew' = (toldAnew \/ told[e] \notin {"none", end})
    ELSE UNCHANGED <<told, toldAnew>>

\* exec/finished, told of `e` unless the generation did not move.
TellEnd(e, end, fault) ==
    IF e \in Execs /\ fault # "generation"
    THEN /\ told' = [told EXCEPT ![e] = IF @ = "none" THEN end ELSE @]
         /\ toldAnew' = (toldAnew \/ told[e] \notin {"none", end})
    ELSE UNCHANGED <<told, toldAnew>>

TellNothing == UNCHANGED <<told, toldAnew>>

Top == [at |-> "top", exec |-> None, run |-> None]

\* drainExecQueue, as it is called: a loop, where there is what to run.
Drained(s) == IF s.runtime # None /\ s.active = None /\ s.queue # <<>> THEN {Top} ELSE {}

\* What an await resumes runs before any outside event does.
Settled ==
    /\ up
    /\ \A l \in loops : \/ l.at = "saved" /\ saved
                        \/ l.at = "write" /\ delayed
                        \/ l.at = "done" /\ l.exec \notin session.resolved
    /\ ~(session.endHeld /\ ~saved)
    /\ ~(op = NoOp /\ tail # <<>>)
    /\ ~(op.at = "waiting" /\ ~saved)
    /\ ~(op.at = "booting" /\ Boot \in session.resolved)

-----------------------------------------------------------------------------
(* The session's lock, and what its operations share.                      *)

entryVars == <<listed, durable, boots, delayed, closed>>
hostVars == <<ending, dead, runtimes>>
serverVars == <<saved, up>>

At(kind, at, run) == [NoOp EXCEPT !.kind = kind, !.at = at, !.run = run]

\* quarantineSession, by the lock's holder.
Quarantine(kind, s, fault) ==
    /\ session' = Quarantined(s)
    /\ Persist(session', fault)
    /\ op' = IF s.runtime = None THEN NoOp ELSE At(kind, "quarantining", s.runtime)
    /\ TellNothing /\ UNCHANGED loops

\* launchRuntime of a recycle: what is queued is kept, and the runtime stopped.
\* A generation that does not move fails it before.
Recycle(kind, s, fault) ==
    \/ /\ fault = "generation"
       /\ Quarantine(kind, s, fault)
    \/ /\ s.runtime # None
       /\ session' = Stopping(s, Range(s.queue))
       /\ Persist(session', fault)
       /\ op' = [At(kind, "stopping", s.runtime) EXCEPT
                    !.kept = s.queue, !.failed = (fault # "none")]
       /\ TellNothing /\ UNCHANGED loops
    \/ /\ s.runtime = None /\ fault = "none"
       /\ session' = s /\ op' = At(kind, "starting", None)
       /\ TellNothing /\ UNCHANGED <<disk, faults, spent, loops>>

\* allocateExecId.
NextExec(s) == Cardinality({e \in Execs : s.hist[e] # "none"}) + 1

\* Queued, before those that wait (mutant).
QueuedFirst(s, e) == [s EXCEPT !.hist[e] = "queued", !.queue = <<e>> \o @]

\* The submission's record, on the history and on the runtime's queue.
Queued(s, e) == [s EXCEPT !.hist[e] = "queued", !.queue = Append(@, e)]

\* submitExec, once the session has its runtime.
Submit(s, fault) ==
    LET s1 == Queued(s, NextExec(s))
    IN  IF fault # "none" THEN Quarantine("submit", s1, fault)
        ELSE /\ session' = s1 /\ Persist(s1, fault) /\ op' = NoOp
             /\ loops' = loops \cup Drained(s1)
             /\ TellNothing

\* A recycle, or a recovery, that brought its runtime up.  (The turn's first
\* write that fails is what fails it: a submission's follows.)
Back(kind, s, fault) ==
    LET s1 == [s EXCEPT !.status = "live_idle"]
    IN  IF kind = "submit" THEN Submit(s1, fault)
        ELSE IF fault # "none" THEN Quarantine(kind, s1, fault)
        ELSE /\ session' = s1 /\ Persist(s1, fault) /\ op' = NoOp
             /\ loops' = loops \cup Drained(s1)
             /\ TellNothing

\* withSessionMutation, of an operation a client asks for.  A saved server holds
\* its requests, and submissions and resets wait for the admission lock.
Ask(kind) ==
    /\ Settled /\ listed /\ ~saved /\ kind \in Asks /\ spent.asks < MaxAsks
    /\ kind \in {"submit", "reset"} =>
         ({op.kind} \cup {tail[i].kind : i \in DOMAIN tail}) \cap {"submit", "reset"} = {}
    /\ kind = "submit" => \E e \in Execs : session.hist[e] = "none"
    /\ tail' = Append(tail, [kind |-> kind, run |-> None])
    /\ spent' = [spent EXCEPT !.asks = @ + 1]
    /\ UNCHANGED <<session, entryVars, astray, disk, faults, op, loops, hostVars, serverVars, told, toldAnew>>

\* The next operation has the lock: one of a session that is gone, or closed
\* but for a close, does nothing.
Acquire(kind) ==
    /\ up /\ op = NoOp /\ tail # <<>> /\ Head(tail).kind = kind
    /\ tail' = Tail(tail)
    /\ UNCHANGED <<durable, boots, delayed, astray, hostVars, serverVars, spent>>

Refused(kind) ==
    /\ Acquire(kind)
    /\ ~listed \/ (session.status = "closed" /\ kind # "close")
    /\ UNCHANGED <<session, listed, closed, disk, faults, op, loops, told, toldAnew>>

Granted(kind) == Acquire(kind) /\ listed /\ (session.status = "closed" => kind = "close")

SameEntry == UNCHANGED <<listed, closed>>
Released == UNCHANGED <<session, disk, faults, op, loops, told, toldAnew>>

\* submitExec: ensureRuntime and recoverRuntime first, where none is live.
BeginSubmit ==
    /\ Granted("submit") /\ SameEntry
    /\ \E fault \in Faults :
         \/ session.status = "quarantined" /\ fault = "none" /\ Released
         \/ /\ session.status # "quarantined" /\ session.runtime # None
            /\ Submit(session, fault)
         \/ /\ session.status # "quarantined" /\ session.runtime = None
            /\ ~durable /\ fault = "none" /\ Released
         \/ /\ session.status # "quarantined" /\ session.runtime = None /\ durable
            /\ LET s1 == [session EXCEPT !.status = "recovering"]
               IN  IF fault # "none" THEN Quarantine("submit", s1, fault)
                   ELSE /\ session' = s1 /\ Persist(s1, fault)
                        /\ op' = At("submit", "starting", None)
                        /\ TellNothing /\ UNCHANGED loops

\* resetToCheckpoint.
BeginReset ==
    /\ Granted("reset") /\ SameEntry
    /\ IF durable THEN \E fault \in Faults : Recycle("reset", session, fault) ELSE Released

\* interrupt, to its await of the transport's.
BeginInterrupt ==
    /\ Granted("interrupt") /\ SameEntry
    /\ IF session.runtime = None \/ session.active = None THEN Released
       ELSE /\ session' = [session EXCEPT !.interrupted = TRUE]
            /\ op' = [At("interrupt", "interrupting", session.runtime) EXCEPT
                        !.exec = session.active]
            /\ UNCHANGED <<disk, faults, loops, told, toldAnew>>

\* Remove, told though the session's files could not be removed (mutant).
RemoveAnyhow(s, fault) ==
    /\ session' = [s EXCEPT !.status = "closed"]
    /\ Persist(session', fault)
    /\ listed' = FALSE /\ closed' = TRUE /\ op' = NoOp
    /\ TellNothing /\ UNCHANGED loops

\* close: the session, its runtime gone, is removed, its catalog entry first.  Where it
\* cannot be, the entry says closed, but a quarantined one, whose reason the schema
\* takes in no closed entry.
Remove(s, fault) ==
    LET s1 == [s EXCEPT !.status = "closed"]
        buried == IF "quarantined" \in {s.status, disk.catalog} THEN disk.catalog ELSE "closed"
    IN  /\ session' = s1
        /\ fault = "none" \/ Trouble("fault")
        /\ disk' = CASE fault = "none" -> [catalog |-> "none", hist |-> NoExecs]
                     [] fault = "generation" -> disk
                     [] fault = "catalog" -> [catalog |-> buried, hist |-> s1.hist]
        /\ faults' = IF fault = "none" THEN faults ELSE faults + 1
        /\ listed' = (fault # "none")
        /\ closed' = (closed \/ fault = "none")
        /\ op' = NoOp
        /\ TellNothing /\ UNCHANGED loops

BeginClose ==
    /\ Granted("close")
    /\ \E fault \in Faults :
         IF session.runtime = None THEN Remove(session, fault)
         ELSE /\ session' = Stopping(session, {})
              /\ Persist(session', fault)
              /\ op' = [At("close", "closing", session.runtime) EXCEPT !.failed = (fault # "none")]
              /\ SameEntry /\ TellNothing /\ UNCHANGED loops

\* keepWithinMemoryBudget, the host past its budget: the loop that asked goes on
\* unless the runtime is recycled.
BeginBudget ==
    /\ Granted("budget") /\ SameEntry
    /\ IF session.runtime # Head(tail).run \/ session.active # None \/ saved
       THEN /\ loops' = loops \cup {Top}
            /\ UNCHANGED <<session, disk, faults, op, told, toldAnew>>
       ELSE \E fault \in Faults : Recycle("budget", session, fault)

\* comeBackFromMemoryKill's recycle, which waits out a save.
BeginMemory ==
    /\ Granted("memory") /\ SameEntry
    /\ IF session.runtime # Head(tail).run THEN Released
       ELSE IF saved
       THEN /\ op' = At("memory", "waiting", session.runtime)
            /\ UNCHANGED <<session, disk, faults, loops, told, toldAnew>>
       ELSE \E fault \in Faults : Recycle("memory", session, fault)

GoesAstray(how, does) == astray' = IF does THEN astray \cup {how} ELSE astray

\* The rest of a turn of the lock's holder, which waited at `at`.
GoesOn(at) ==
    /\ up /\ op.at = at
    /\ UNCHANGED <<durable, boots, delayed, tail, serverVars, spent>>
Resumes(at) == GoesOn(at) /\ UNCHANGED astray

MemoryWaited ==
    /\ Resumes("waiting") /\ ~saved
    /\ \E fault \in Faults : Recycle("memory", session, fault)
    /\ SameEntry /\ UNCHANGED hostVars

-----------------------------------------------------------------------------
(* Launching a runtime.                                                    *)

\* stopRuntime's end in a launch.  One whose persist failed fails the launch.
Stopped ==
    /\ Resumes("stopping") /\ Settled /\ op.run \in dead
    /\ LET s == Ended(session, op.run)
       IN  IF op.failed THEN \E fault \in Faults : Quarantine(op.kind, s, fault)
           ELSE /\ session' = s
                /\ op' = [op EXCEPT !.at = "starting", !.run = None, !.ended = TRUE]
                /\ UNCHANGED <<disk, faults, loops, told, toldAnew>>
    /\ SameEntry /\ UNCHANGED hostVars

\* startSession: the runtime is the session's before its initial prompt.
Started ==
    /\ Resumes("starting") /\ Settled /\ runtimes < MaxRuntimes
    /\ runtimes' = runtimes + 1
    /\ session' = [session EXCEPT !.runtime = runtimes', !.queue = op.kept,
                                  !.active = None, !.killed = FALSE]
    /\ op' = [op EXCEPT !.at = "prompting", !.run = runtimes']
    /\ SameEntry /\ UNCHANGED <<disk, faults, ending, dead, loops, told, toldAnew>>

StartFails ==
    /\ Resumes("starting") /\ Settled
    /\ \E fault \in Faults : Quarantine(op.kind, Orphaned(session, op.kept), fault)
    /\ SameEntry /\ UNCHANGED hostVars

\* The launched runtime is up: hydrateFromCheckpoint runs the bootstrap, which fails
\* at once where there is no runtime, and on one that ended.
Hydrate(kind, s, fault) ==
    IF durable /\ boots
    THEN LET s1 == [s EXCEPT !.status = "live_busy", !.active = Boot,
                             !.interrupted = FALSE, !.endHeld = FALSE,
                             !.resolved = IF s.runtime \in dead THEN @ \cup {Boot} ELSE @ \ {Boot},
                             !.bootOk = FALSE]
         IN  IF s.runtime = None THEN Quarantine(kind, s, fault)
             ELSE IF fault # "none" THEN Quarantine(kind, s1, fault)
             ELSE /\ session' = s1 /\ Persist(s1, fault)
                  /\ op' = [op EXCEPT !.at = "booting"]
                  /\ TellNothing /\ UNCHANGED loops
    ELSE Back(kind, s, fault)

\* Prompted, whatever became of the session meanwhile (mutant).
PromptedAnyhow ==
    /\ Resumes("prompting") /\ Settled /\ op.run \notin dead
    /\ \E fault \in Faults : Hydrate(op.kind, [session EXCEPT !.subscribed = TRUE], fault)
    /\ SameEntry /\ UNCHANGED hostVars

\* The launched runtime prompts, and is subscribed to, still the session's.
Launched ==
    /\ Resumes("prompting") /\ Settled
    /\ session.runtime = op.run /\ session.status # "quarantined" /\ op.run \notin dead
    /\ SameEntry /\ UNCHANGED hostVars

Subscribed == [session EXCEPT !.subscribed = TRUE]

Prompted == Launched /\ \E fault \in Faults : Hydrate(op.kind, Subscribed, fault)

\* A recycle removes the files the host it ended left, where it left any, and
\* awaits that first.
Clears ==
    /\ Launched /\ op.ended /\ op.kind # "submit"
    /\ session' = Subscribed /\ op' = [op EXCEPT !.at = "clearing"]
    /\ UNCHANGED <<disk, faults, loops, told, toldAnew>>

\* It goes on whatever became of the session meanwhile: one quarantined is back,
\* but where a bootstrap finds no runtime.
Cleared ==
    /\ GoesOn("clearing") /\ Settled
    /\ \E fault \in Faults : Hydrate(op.kind, session, fault)
    /\ GoesAstray("revived", session.status = "quarantined" /\ session'.status # "quarantined")
    /\ SameEntry /\ UNCHANGED hostVars

\* waitForInitialPrompt or subscribe fails, or the session lost the runtime: it
\* is terminated, and what was kept for it ends with it.
PromptFails ==
    /\ Resumes("prompting") /\ Settled
    /\ session' = [session EXCEPT !.subscribed = FALSE]
    /\ op' = [op EXCEPT !.at = "failing"]
    /\ SameEntry /\ UNCHANGED <<disk, faults, hostVars, loops, told, toldAnew>>

\* LaunchFailed, its termination not awaited (mutant).
LaunchFailedAtOnce ==
    /\ Resumes("failing") /\ Settled
    /\ \E fault \in Faults :
         Quarantine(op.kind, Orphaned(Ended(session, op.run), op.kept), fault)
    /\ SameEntry /\ UNCHANGED hostVars

\* The termination of a launch that failed returns.
LaunchFailed ==
    /\ Resumes("failing") /\ Settled /\ op.run \in dead
    /\ \E fault \in Faults :
         Quarantine(op.kind, Orphaned(Ended(session, op.run), op.kept), fault)
    /\ SameEntry /\ UNCHANGED hostVars

\* The bootstrap's exec ended, or ended with its runtime.
Booted ==
    /\ Resumes("booting") /\ Boot \in session.resolved
    /\ \E fault \in Faults :
         IF session.bootOk THEN Back(op.kind, session, fault)
         ELSE Quarantine(op.kind, session, fault)
    /\ SameEntry /\ UNCHANGED hostVars

-----------------------------------------------------------------------------
(* The other operations' ends.                                             *)

\* interrupt, once the transport has: the exec may have ended meanwhile, and the
\* runtime be another.
InterruptEnds(mode) ==
    /\ Resumes("interrupting") /\ Settled
    /\ mode = "soft" => op.run \notin dead
    /\ LET same == session.runtime = op.run
           s1 == Finished(session, "interrupted")
           s2 == [s1 EXCEPT !.status = "live_idle"]
       IN  \E fault \in Faults :
             \/ ~same /\ Quarantine("interrupt", session, fault)
             \/ /\ same /\ session.active # op.exec /\ fault = "none"
                /\ op' = NoOp
                /\ UNCHANGED <<session, disk, faults, loops, told, toldAnew>>
             \/ /\ same /\ session.active = op.exec /\ fault # "none"
                /\ Quarantine("interrupt", s1, fault)
             \/ /\ same /\ session.active = op.exec /\ fault = "none" /\ mode = "soft"
                /\ session' = s2 /\ Persist(s2, fault) /\ op' = NoOp
                /\ TellEnd(op.exec, "interrupted", fault) /\ UNCHANGED loops
             \/ /\ same /\ session.active = op.exec /\ fault = "none" /\ mode = "recycle"
                /\ session' = Stopping(s1, Range(s1.queue))
                /\ Persist(session', fault)
                /\ op' = [At("interrupt", "stopping", op.run) EXCEPT !.kept = s1.queue]
                /\ TellEnd(op.exec, "interrupted", fault) /\ UNCHANGED loops
    /\ SameEntry /\ UNCHANGED hostVars

\* quarantineSession's end.
QuarantineEnds ==
    /\ Resumes("quarantining") /\ Settled /\ op.run \in dead
    /\ session' = Ended(session, op.run) /\ op' = NoOp
    /\ SameEntry /\ UNCHANGED <<disk, faults, hostVars, loops, told, toldAnew>>

\* close's end, unless its stop could not be persisted.
Closes ==
    /\ Resumes("closing") /\ Settled /\ op.run \in dead
    /\ LET s == Ended(session, op.run)
       IN  IF op.failed \/ s.runtime # None
           THEN /\ session' = s /\ op' = NoOp
                /\ SameEntry /\ UNCHANGED <<disk, faults, loops, told, toldAnew>>
           ELSE \E fault \in Faults : Remove(s, fault)
    /\ UNCHANGED hostVars

-----------------------------------------------------------------------------
(* Outside the lock: the drain loops, and what the runtimes do.            *)

Unlocked == UNCHANGED <<entryVars, op, serverVars, dead, runtimes, spent>>

\* failExecStartup: the record the loop holds ends in error, and the session's
\* runtime, whichever it is now, with it.  A record that ended is left alone.
FailStartup(e, s, fault) ==
    IF e \in s.detached \/ s.hist[e] \in Pending
    THEN LET s1 == IF s.active = e THEN Finished(s, "error")
                   ELSE IF e \in s.detached THEN s ELSE [s EXCEPT !.hist[e] = "error"]
         IN  /\ session' = Quarantined([s1 EXCEPT !.detached = @ \ {e}])
             /\ Persist(session', fault)
             /\ TellEnd(e, "error", fault)
             /\ ending' = ending \cup ({s.runtime} \ {None})
    ELSE /\ session' = s /\ fault = "none"
         /\ TellNothing /\ UNCHANGED <<disk, faults, spent, ending>>

\* drainExecQueue's loop has an exec to run.
HasNext(s) == s.runtime # None /\ s.active = None /\ ~s.killed /\ s.queue # <<>>

\* drainExecQueue's loop ends where nothing is to run, and waits out a save.
LoopEnds(l) ==
    /\ up /\ l.at = "top" /\ ~HasNext(session)
    /\ loops' = loops \ {l}
    /\ Unlocked /\ UNCHANGED <<session, astray, disk, faults, tail, ending, told, toldAnew>>

LoopWaits(l) ==
    /\ up /\ l.at = "top" /\ saved /\ HasNext(session)
    /\ loops' = (loops \ {l}) \cup {[l EXCEPT !.at = "saved"]}
    /\ Unlocked /\ UNCHANGED <<session, astray, disk, faults, tail, ending, told, toldAnew>>

\* LoopRunsOn, which leaves the queue to nobody (mutant).
LoopReturns(l) ==
    /\ up /\ l.at = "saved" /\ ~saved
    /\ loops' = loops \ {l}
    /\ Unlocked /\ UNCHANGED <<session, astray, disk, faults, tail, ending, told, toldAnew>>

LoopRunsOn(l) ==
    /\ up /\ l.at = "saved" /\ ~saved
    /\ loops' = (loops \ {l}) \cup {Top}
    /\ Unlocked /\ UNCHANGED <<session, astray, disk, faults, tail, ending, told, toldAnew>>

\* performExec, to its await of the transport's write.
Perform(l) ==
    /\ up /\ l.at = "top" /\ ~saved /\ HasNext(session)
    /\ LET e == Head(session.queue)
           s1 == [session EXCEPT !.queue = Tail(@), !.status = "live_busy", !.active = e,
                                 !.hist[e] = "running", !.interrupted = FALSE, !.endHeld = FALSE]
       IN  \E fault \in Faults :
             IF fault = "none"
             THEN /\ session' = s1 /\ Persist(s1, fault)
                  /\ loops' = (loops \ {l}) \cup
                              {[at |-> "write", exec |-> e, run |-> s1.runtime]}
                  /\ TellNothing /\ UNCHANGED ending
             ELSE loops' = loops \ {l} /\ FailStartup(e, s1, fault)
    /\ GoesAstray("early", op.at \in {"prompting", "clearing", "failing"})
    /\ Unlocked /\ UNCHANGED tail

\* The transport's write resolves, or rejects as its runtime has ended.
WriteEnds(l) ==
    /\ up /\ l.at = "write" /\ (delayed => Settled)
    /\ \/ /\ l.run \notin dead
          /\ loops' = (loops \ {l}) \cup {[l EXCEPT !.at = "done"]}
          /\ UNCHANGED <<session, astray, disk, faults, ending, told, toldAnew>>
       \/ /\ l.run \in dead
          /\ loops' = loops \ {l}
          /\ \E fault \in Faults : FailStartup(l.exec, session, fault)
          /\ GoesAstray("late", l.exec \in session.detached)
    /\ Unlocked /\ UNCHANGED tail

\* The loop's exec ended: where its host grew past the budget, the loop waits for
\* the lock to recycle it.
LoopGoesOn(l) ==
    /\ up /\ l.at = "done" /\ l.exec \in session.resolved
    /\ \/ loops' = (loops \ {l}) \cup {Top} /\ UNCHANGED tail
       \/ /\ Budgeted /\ ~session.killed /\ listed
          /\ session.runtime # None /\ session.active = None
          /\ session.status # "quarantined"
          /\ tail' = Append(tail, [kind |-> "budget", run |-> session.runtime])
          /\ loops' = loops \ {l}
    /\ Unlocked /\ UNCHANGED <<session, astray, disk, faults, ending, told, toldAnew>>

\* endExec.  One whose end cannot be persisted is contained; of a durable
\* session, one with no valid checkpoint outcome quarantines it.
EndExec(end, settles, fault) ==
    LET e == session.active
        as == CASE fault # "none" -> "error"
                [] fault = "none" /\ session.interrupted -> "interrupted"
                [] OTHER -> IF settles THEN end ELSE "error"
        s1 == [Finished(session, as) EXCEPT
                 !.bootOk = (e = Boot /\ as = "ok"),
                 !.status = IF @ = "quarantined" THEN @ ELSE "live_idle"]
    IN  /\ settles \/ (durable /\ e \in Execs /\ ~session.interrupted)
        /\ IF settles /\ fault = "none" /\ s1.status # "quarantined"
           THEN session' = s1 /\ UNCHANGED ending
           ELSE /\ session' = Quarantined(s1)
                /\ ending' = ending \cup {session.runtime}
        /\ Persist(session', fault)
        /\ TellEnd(e, as, fault)

\* processBrokerChunk: the active exec's runtime has ended it.  While the server
\* is saved its end is held.
ExecDone ==
    /\ Settled /\ session.active # None /\ ~session.endHeld
    /\ session.subscribed /\ session.runtime \notin dead
    /\ session.active = Boot \/ \E l \in loops : l.at = "done" /\ l.exec = session.active
    /\ IF saved
       THEN /\ session' = [session EXCEPT !.endHeld = TRUE]
            /\ UNCHANGED <<disk, faults, ending, told, toldAnew>>
       ELSE \E end \in {"ok", "error"}, settles \in BOOLEAN, fault \in Faults :
              EndExec(end, settles, fault)
    /\ Unlocked /\ UNCHANGED <<astray, loops, tail>>

\* The held end, as the server runs on, after the loops, which waited for that
\* before it.  What fails in it nobody catches, and the rejection ends the server.
HeldEnds ==
    /\ up /\ session.endHeld /\ ~saved
    /\ \A l \in loops : l.at \notin {"saved", "top"}
    /\ \/ /\ \E end \in {"ok", "error"}, settles \in BOOLEAN : EndExec(end, settles, "none")
          /\ UNCHANGED up
       \/ /\ \E fault \in Faults \ {"none"} :
               \E end \in {"ok", "error"} :
                 /\ session' = [Finished(session, end) EXCEPT !.resolved = session.resolved]
                 /\ Persist(session', fault)
          /\ up' = FALSE
          /\ TellNothing /\ UNCHANGED ending
    /\ UNCHANGED <<entryVars, astray, op, saved, dead, runtimes, loops, tail, spent>>

\* onRuntimeExit of the current runtime, contained: containRuntimeFailure.
Contained(r, fault) ==
    LET e == session.active
    IN  /\ session' = Quarantined(Finished(session, "error"))
        /\ Persist(session', fault)
        /\ ending' = ending \cup {r}
        /\ TellEnd(e, "error", fault) /\ UNCHANGED tail

\* Or killed for its memory: it comes back, once the lock is its.
MemoryKilled(r, fault) ==
    /\ session' = [Finished(session, "error") EXCEPT !.killed = TRUE, !.status = "recovering"]
    /\ Persist(session', fault)
    /\ tail' = Append(tail, [kind |-> "memory", run |-> r])
    /\ TellEnd(session.active, "error", fault) /\ UNCHANGED ending

\* A runtime's process ends: as it is terminated, or of itself.  Of one that ends
\* while the transport interrupts it the session is not told (notifyExit): what it
\* asked of the transport returns "recycle".
Terminating(r) ==
    r \in ending \/ (op.run = r /\ op.at \in {"stopping", "failing", "quarantining", "closing"})

Exit(r) ==
    /\ Settled /\ r \in 1..runtimes \ dead
    /\ dead' = dead \cup {r}
    /\ IF Terminating(r)
       THEN UNCHANGED <<session, disk, faults, tail, ending, told, toldAnew, spent>>
       ELSE /\ Trouble("exit")
            /\ spent' = [spent EXCEPT !.exits = @ + 1]
            /\ IF session.runtime = r /\ session.subscribed
                    /\ ~(op.at = "interrupting" /\ op.run = r)
               THEN \E fault \in Faults : Contained(r, fault) \/ MemoryKilled(r, fault)
               ELSE UNCHANGED <<session, disk, faults, tail, ending, told, toldAnew>>
    /\ UNCHANGED <<entryVars, astray, op, serverVars, runtimes, loops>>

\* A termination begun without the lock returns.
EndingEnds(r) ==
    /\ Settled /\ r \in ending \cap dead
    /\ ending' = ending \ {r}
    /\ session' = Ended(session, r)
    /\ UNCHANGED <<entryVars, astray, disk, op, tail, loops, dead, runtimes, serverVars,
                   told, toldAnew, faults, spent>>

-----------------------------------------------------------------------------
(* The server.                                                             *)

Save ==
    /\ Settled /\ ~saved /\ spent.saves < MaxSaves
    /\ saved' = TRUE /\ spent' = [spent EXCEPT !.saves = @ + 1]
    /\ UNCHANGED <<session, entryVars, astray, disk, op, tail, loops, hostVars, up,
                   told, toldAnew, faults>>

RunOn ==
    /\ Settled /\ saved /\ saved' = FALSE
    /\ UNCHANGED <<session, entryVars, astray, disk, op, tail, loops, hostVars, up,
                   told, toldAnew, faults, spent>>

\* The server dies, and another loads its catalog (loadCatalog): an ephemeral or
\* closed session is removed, execs left pending end interrupted.
Restart ==
    /\ Trouble("restart") /\ spent' = [spent EXCEPT !.restarts = @ + 1]
    /\ LET found == durable /\ disk.catalog \notin {"none", "closed"}
           status == IF disk.catalog = "quarantined" THEN "quarantined" ELSE "suspended"
           hist == [e \in Execs |-> IF disk.hist[e] \in Pending THEN "interrupted"
                                    ELSE disk.hist[e]]
       IN  /\ listed' = found
           /\ session' = [Fresh(status, None) EXCEPT !.hist = IF found THEN hist ELSE NoExecs]
           /\ disk' = IF found THEN [catalog |-> status, hist |-> hist]
                      ELSE [catalog |-> "none", hist |-> NoExecs]
    /\ op' = NoOp /\ tail' = <<>> /\ loops' = {}
    /\ ending' = {} /\ dead' = 1..runtimes /\ saved' = FALSE /\ up' = TRUE
    /\ UNCHANGED <<durable, boots, delayed, closed, astray, runtimes, told, toldAnew, faults>>

Operations ==
    \/ \E kind \in Kinds : Refused(kind)
    \/ BeginSubmit \/ BeginReset \/ BeginInterrupt \/ BeginClose
    \/ BeginBudget \/ BeginMemory \/ MemoryWaited
    \/ Stopped \/ Started \/ StartFails \/ Prompted \/ Clears \/ Cleared
    \/ LaunchFailed \/ Booted
    \/ (\E mode \in {"soft", "recycle"} : InterruptEnds(mode))
    \/ QuarantineEnds \/ Closes

Loops ==
    \E l \in loops : LoopEnds(l) \/ LoopWaits(l) \/ LoopRunsOn(l) \/ Perform(l)
                     \/ WriteEnds(l) \/ LoopGoesOn(l)

Hosts == ExecDone \/ HeldEnds \/ \E r \in Runtimes : EndingEnds(r)

Next ==
    \/ \E kind \in Asks : Ask(kind)
    \/ Operations \/ PromptFails \/ Loops \/ Hosts
    \/ \E r \in Runtimes : Exit(r)
    \/ Save \/ RunOn \/ Restart

\* The event loop runs what is ready; a runtime told to end does, one that runs an
\* exec ends it, and one launched prompts or fails to; a host lets a saved server
\* run on.
Fairness ==
    /\ WF_vars(Operations) /\ WF_vars(Loops) /\ WF_vars(ExecDone) /\ WF_vars(HeldEnds)
    /\ WF_vars(PromptFails) /\ WF_vars(RunOn)
    /\ \A r \in Runtimes : WF_vars(EndingEnds(r)) /\ WF_vars(Exit(r) /\ Terminating(r))

Spec == Init /\ [][Next]_vars /\ Fairness

-----------------------------------------------------------------------------
(* What they keep.                                                         *)

Running == {e \in Execs : session.hist[e] = "running"}

\* "The single-flight exec queue is FIFO": one exec is run at a time, the
\* runtime's active one, and none starts before one submitted before it has,
\* through the recycles that carry the queue from runtime to runtime.  A loop
\* that waited out a save may run one on a runtime a recycle is launching, which
\* then runs its bootstrap too.
SingleFlightFifo ==
    astray = {} =>
      /\ up => Running \subseteq {session.active}
      /\ \A d, e \in Execs :
             d < e /\ session.hist[e] = "running" => session.hist[d] # "queued"

\* A session told closed is not on the disk for another server to find, unless
\* a write that fails late ends an exec of it, which persists it again, or it was
\* brought back from quarantine on a runtime that is gone, whose writes fail.
ClosedStaysClosed ==
    closed /\ {"late", "revived"} \cap astray = {} => disk.catalog = "none"

\* An exec's end, once told, is on the disk, and the session's history says the
\* same of it: also to the next server, and no other end is ever told, unless a
\* write that fails late has one told that ended before, or the session was brought
\* back from quarantine.
ToldIsOnDisk ==
    {"late", "revived"} \cap astray = {} =>
      /\ ~toldAnew
      /\ \A e \in Execs : told[e] # "none" /\ disk.catalog # "none" =>
                            disk.hist[e] = told[e] /\ session.hist[e] = told[e]

\* A quarantined session has nothing pending once its operation is over, and
\* nothing in its server brings it back, unless a write that fails late quarantines
\* it in a recycle, whose queue the runtime launched is handed nevertheless, or the
\* runtime a recycle launched ends as the recycle removes what the one before left.
QuarantineIsFinal ==
    [][/\ session.status = "quarantined" /\ {"late", "revived"} \cap astray' = {}
       /\ up /\ up' /\ spent'.restarts = spent.restarts
       => session'.status \in {"quarantined", "closed"}]_vars

\* Every host that lives is one its session will stop: the runtime it runs, one
\* it launches or one being terminated.
HostsAreOwned ==
    \A r \in 1..runtimes \ dead : r \in {session.runtime, op.run} \cup ending

\* The session's runtime has ended, and neither it nor any operation was told.
Unheard ==
    /\ session.runtime \in dead /\ ~session.killed
    /\ ~Terminating(session.runtime)

\* Every operation lets go of the session's lock, the server being up, and every
\* exec ends, no write having failed, and its runtime not one that ended unheard,
\* which a client has to interrupt: what a recycle keeps is run by the next
\* runtime, and none waits for one that waits for it.  (One run early, on a runtime
\* that is then given its bootstrap to run, may end with the runtime only; and where a
\* session was brought back from quarantine, its bootstrap may wait for one that ends
\* unheard.)
ExecsEnd ==
    /\ op # NoOp ~> op = NoOp \/ ~up \/ "revived" \in astray
    /\ \A e \in Execs :
           session.hist[e] \in Pending ~> (session.hist[e] \notin Pending \/ Unheard \/ faults > 0 \/ astray # {})

=============================================================================
