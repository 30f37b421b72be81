--------------------------- MODULE SessionAdmission ---------------------------
(***************************************************************************)
(* The sessions of the session manager together                            *)
(* (session/session-manager.ts): calls queue for the admission lock and    *)
(* for each session's lock, make room by evicting an idle session, take    *)
(* and give up controller leases, and the server's shutdown waits for      *)
(* those admitted before it.                                               *)
(*                                                                         *)
(* A step is a turn of the event loop, from one await to the next.  What   *)
(* an awaited lock resumes runs before any event does: Progress and        *)
(* Outside ask that of events (Settled), which no event's action repeats.  *)
(* One session's execs, notices and persisting are SessionLifecycle's.     *)
(***************************************************************************)
EXTENDS Naturals, Sequences, FiniteSets, FiniteSetsExt, Functions

CONSTANTS
    Actors,       \* clients
    Flaky,        \* those that lose their connections, for a while or for good
    Nobody,       \* no client
    Asks,         \* the kinds of call clients make
    MaxSessions,  \* options.maxSessions: the most sessions with a runtime
    Old,          \* the most sessions there are at first
    LateKills,    \* the kernel kills hosts for memory during the shutdown too
    MaxIds,       \* bound: sessions, those there are at first included
    MaxAsks,      \* bound: calls clients make
    MaxRestarts,  \* bound: hosts started again of themselves
    MaxFaults     \* bound: starts and removals that fail, hosts that exit

Admitted == {"create", "submit", "recover", "reset"}
Held == {"attach", "detach", "release", "interrupt", "close"}
Restarts == {"memory", "budget"}

ASSUME AdmissionAssumption ==
    /\ Nobody \notin Actors /\ Flaky \subseteq Actors
    /\ Asks \subseteq Admitted \cup Held
    /\ MaxSessions \in Nat \ {0} /\ LateKills \in BOOLEAN
    /\ MaxIds \in Nat \ {0} /\ Old \in 1..MaxIds
    /\ MaxAsks \in Nat /\ MaxRestarts \in Nat /\ MaxFaults \in Nat

Ids == 1..MaxIds
Calls == 1..(MaxAsks + MaxRestarts)
None == 0

VARIABLES
    sessions,  \* each session's entry
    created,   \* sessions there have been
    calls,     \* the calls under way, and where each is
    asked,     \* calls clients have made
    restarts,  \* hosts started again, or to be
    line,      \* the admission lock: its holder, then those that wait for it
    tail,      \* each session's lock: the same
    actors,    \* whether each client is live, away or gone for good
    stop,      \* where the shutdown is
    saved,     \* the server is saved with its sandbox, or was and has yet to run on
    faults,    \* faults there have been
    opened     \* history: room was made while a restart had a session's host out

lockVars == <<line, tail>>
vars == <<sessions, created, calls, asked, restarts, lockVars, actors, stop, saved, faults, opened>>

Statuses == {"none", "recovering", "live_idle", "live_busy", "suspended",
             "quarantined", "closed"}
Places == {"line", "lock", "room", "evict", "ending", "window"} \cup
          {"saved", "stopping", "starting", "prompting"}

\* `waits`: a drain loop has found the server saved, with an exec to run.
Absent == [status |-> "none", durable |-> FALSE, runtime |-> FALSE, killed |-> FALSE,
           run |-> 0, queue |-> 0, waits |-> FALSE, controller |-> Nobody]
NoCall == [kind |-> "none", actor |-> Nobody, on |-> None, at |-> "none",
           victim |-> None, run |-> 0, rest |-> {}]

Entries ==
    [status : Statuses, durable : BOOLEAN, runtime : BOOLEAN, killed : BOOLEAN,
     run : Nat, queue : Nat, waits : BOOLEAN, controller : Actors \cup {Nobody}]
CallRecords ==
    {NoCall} \cup [kind : Admitted \cup Held \cup Restarts, actor : Actors \cup {Nobody},
                  on : {None} \cup Ids, at : Places, victim : {None} \cup Ids,
                  run : Nat, rest : SUBSET Ids]

TypeOK ==
    /\ sessions \in [Ids -> Entries] /\ calls \in [Calls -> CallRecords]
    /\ created \in 0..MaxIds /\ asked \in 0..MaxAsks /\ restarts \in 0..MaxRestarts
    /\ line \in Seq(Calls) /\ tail \in [Ids -> Seq(Calls)]
    /\ actors \in [Actors -> {"live", "away", "gone"}]
    /\ opened \in BOOLEAN /\ faults \in 0..MaxFaults
    /\ saved \in BOOLEAN
    /\ stop \in [at : {"no", "line", "locks", "loop", "hosts", "ended"},
                 awaits : SUBSET Calls, left : SUBSET Ids, now : {None} \cup Ids]

\* The first session has an exec running and one queued, or is suspended, as any
\* other there is: what comes of it has them idle, evicted, quarantined.
Suspended == [Absent EXCEPT !.status = "suspended", !.durable = TRUE]
Busy(a) ==
    [Suspended EXCEPT !.status = "live_busy", !.runtime = TRUE, !.queue = 1, !.controller = a]

Init ==
    /\ created \in 1..Old
    /\ \E first \in {Suspended} \cup {Busy(a) : a \in Actors} :
         sessions = [s \in Ids |-> IF s = 1 THEN first
                                   ELSE IF s =< created THEN Suspended ELSE Absent]
    /\ calls = [c \in Calls |-> NoCall] /\ asked = 0 /\ restarts = 0
    /\ line = <<>> /\ tail = [s \in Ids |-> <<>>]
    /\ actors = [a \in Actors |-> "live"]
    /\ stop = [at |-> "no", awaits |-> {}, left |-> {}, now |-> None]
    /\ faults = 0 /\ opened = FALSE /\ saved = FALSE

-----------------------------------------------------------------------------
(* What the turns are written with.                                        *)

Listed(s) == sessions[s].status # "none"
Live == {s \in Ids : sessions[s].runtime /\ sessions[s].status # "closed"}

\* liveController: the session's controller, unless its client is gone.
LiveController(s) ==
    IF sessions[s].controller # Nobody /\ actors[sessions[s].controller] = "live"
    THEN sessions[s].controller ELSE Nobody

\* pickEvictionCandidate takes the oldest of those that are idle and nobody's.
Evictable(s) == sessions[s].status = "live_idle" /\ LiveController(s) = Nobody

HasTurn(s, c) == tail[s] # <<>> /\ Head(tail[s]) = c
Off(queue, c) == IF queue # <<>> /\ Head(queue) = c THEN Tail(queue) ELSE queue

\* The call ends, or throws: the locks it holds go to those that wait.
Release(c) ==
    /\ calls' = [calls EXCEPT ![c] = NoCall]
    /\ line' = Off(line, c) /\ tail' = [s \in Ids |-> Off(tail[s], c)]

\* drainExecQueue, called where it may have something to run: none starts while the
\* server is saved, and the loop waits for it to run on.
HasNext(s) == s.runtime /\ ~s.killed /\ s.status = "live_idle" /\ s.queue > 0
RunsNext(s) == [s EXCEPT !.status = "live_busy", !.queue = @ - 1]
Drained(s) ==
    IF ~HasNext(s) THEN s
    ELSE IF saved THEN [s EXCEPT !.waits = TRUE] ELSE RunsNext(s)

\* The loop that waited for the server to run on.
Woken(s) ==
    LET over == [s EXCEPT !.waits = FALSE] IN IF s.waits /\ HasNext(s) THEN RunsNext(over) ELSE over

\* quarantineSession, and containRuntimeFailure, once the host has ended.
Quarantined(s) ==
    [s EXCEPT !.status = "quarantined", !.runtime = FALSE, !.killed = FALSE, !.queue = 0,
              !.waits = FALSE]

\* A call, or the shutdown, that has the session's host ended or started.
Working(s) ==
    \/ stop.now = s
    \/ \E c \in Calls : \/ /\ calls[c].on = s
                           /\ calls[c].at \in {"saved", "stopping", "starting", "prompting"}
                        \/ calls[c].victim = s /\ calls[c].at = "ending"

Stopping == stop.at # "no"

CanTurn(c) ==
    \/ calls[c].at = "line" /\ line # <<>> /\ Head(line) = c
    \/ calls[c].at = "lock" /\ HasTurn(calls[c].on, c)
    \/ calls[c].at = "room"
    \/ calls[c].at = "evict" /\ HasTurn(calls[c].victim, c)
    \/ calls[c].at = "saved" /\ ~saved

\* The calls that hold a session's lock, or wait for one.
InTails == UNION {Range(tail[s]) : s \in Ids}

ShutdownCanTurn ==
    \/ stop.at = "line" /\ line = <<>>
    \/ stop.at = "locks" /\ stop.awaits \cap InTails = {}
    \/ stop.at = "loop" /\ stop.now = None

Settled == ~ShutdownCanTurn /\ \A c \in Calls : ~CanTurn(c)

\* The call `c` begins, and stands at `at` for session `s`.
Begins(c, kind, a, s, at, rest) ==
    /\ calls' = [calls EXCEPT ![c] =
                   [NoCall EXCEPT !.kind = kind, !.actor = a, !.on = s, !.at = at,
                                  !.run = IF kind \in Restarts THEN sessions[s].run ELSE 0,
                                  !.rest = rest]]
    /\ line' = IF at = "line" THEN Append(line, c) ELSE line
    /\ tail' = IF at = "lock" THEN [tail EXCEPT ![s] = Append(@, c)] ELSE tail

Asked(kind, a, s, at, rest) ==
    /\ kind \in Asks /\ asked < MaxAsks /\ asked' = asked + 1
    /\ Begins(asked + 1, kind, a, s, at, rest)
    /\ UNCHANGED <<sessions, created, restarts, stop, saved, faults, opened>>

\* The session's host is to be started again, once its lock is had.
RestartAsked(kind, s) ==
    /\ restarts < MaxRestarts /\ restarts' = restarts + 1
    /\ Begins(MaxAsks + restarts + 1, kind, Nobody, s, "lock", {})

-----------------------------------------------------------------------------
(* Clients.                                                                *)

\* createWithPolicy, submitExec, recoverSession, resetToCheckpoint: refused by a
\* shutdown, they wait for the admission lock.
AskAdmitted(kind, a, s) ==
    /\ actors[a] = "live" /\ ~Stopping
    /\ IF kind = "create"
       THEN /\ s = None
            /\ created + Cardinality({c \in Calls : calls[c].kind = "create" /\ calls[c].on = None})
                  < MaxIds
       ELSE s # None /\ Listed(s)
    /\ Asked(kind, a, s, "line", {})
    /\ UNCHANGED actors

\* attach, detach, interrupt, close: they wait for the session's lock, an attach
\* first for the reconnect window of another holder.
AskHeld(kind, a, s) ==
    /\ actors[a] = "live" /\ Listed(s)
    /\ \/ ~Stopping /\ Asked(kind, a, s, "lock", {})
       \/ /\ kind = "attach" /\ sessions[s].controller \notin {Nobody, a}
          /\ Asked(kind, a, s, "window", {})
    /\ UNCHANGED actors

\* closeClientSession: the client is gone for good, and gives up its sessions.
AskRelease(a) ==
    /\ a \in Flaky /\ actors[a] # "gone" /\ ~Stopping
    /\ actors' = [actors EXCEPT ![a] = "gone"]
    /\ LET listed == {s \in Ids : Listed(s)} IN
         /\ listed # {}
         /\ Asked("release", a, Min(listed), "lock", listed \ {Min(listed)})

\* A client loses its connections, or comes back.
ActorMoves(a) ==
    /\ a \in Flaky /\ actors[a] # "gone"
    /\ actors' = [actors EXCEPT ![a] = IF @ = "live" THEN "away" ELSE "live"]
    /\ UNCHANGED <<sessions, created, calls, asked, restarts, lockVars, stop, saved, faults,
                   opened>>

\* The wait of attach for the reconnect window ends.
WindowEnds(c) ==
    /\ calls[c].at = "window"
    /\ IF Stopping \/ ~Listed(calls[c].on)
       THEN Release(c)
       ELSE /\ calls' = [calls EXCEPT ![c].at = "lock"]
            /\ tail' = [tail EXCEPT ![calls[c].on] = Append(@, c)]
            /\ UNCHANGED line
    /\ UNCHANGED <<sessions, created, asked, restarts, actors, stop, saved, faults, opened>>

-----------------------------------------------------------------------------
(* A call's turn, once it has its lock.                                    *)

NoOtherChange == UNCHANGED <<created, asked, restarts, actors, stop, saved>>

\* EndsCall, which throws with its locks held (mutant).
EndsCallHolding(c) ==
    /\ calls' = [calls EXCEPT ![c] = NoCall]
    /\ UNCHANGED <<lockVars, sessions, faults, opened>> /\ NoOtherChange

\* The call ends with no change to its session, done or refused.
EndsCall(c) == Release(c) /\ UNCHANGED <<sessions, faults, opened>> /\ NoOtherChange

\* The call goes on elsewhere, the locks as they are.
Goes(c, at) == calls' = [calls EXCEPT ![c].at = at] /\ UNCHANGED lockVars

\* The session becomes `entry`, and the call ends.
Sets(c, entry) ==
    /\ sessions' = [sessions EXCEPT ![calls[c].on] = entry]
    /\ Release(c) /\ UNCHANGED <<faults, opened>> /\ NoOtherChange

\* TakesAdmission, with no wait for those before (mutant).
TakesNoAdmission(c) ==
    /\ calls[c].at = "line"
    /\ IF calls[c].kind = "create" THEN Goes(c, "room")
       ELSE IF Listed(calls[c].on)
       THEN /\ calls' = [calls EXCEPT ![c].at = "lock"]
            /\ tail' = [tail EXCEPT ![calls[c].on] = Append(@, c)]
            /\ UNCHANGED line
       ELSE Release(c)
    /\ UNCHANGED <<sessions, faults, opened>> /\ NoOtherChange

\* withAdmissionMutation's turn, and withSessionMutation's call within it.
TakesAdmission(c) ==
    /\ calls[c].at = "line" /\ line # <<>> /\ Head(line) = c
    /\ IF calls[c].kind = "create" THEN Goes(c, "room")
       ELSE IF Listed(calls[c].on)
       THEN /\ calls' = [calls EXCEPT ![c].at = "lock"]
            /\ tail' = [tail EXCEPT ![calls[c].on] = Append(@, c)]
            /\ UNCHANGED line
       ELSE Release(c)
    /\ UNCHANGED <<sessions, faults, opened>> /\ NoOtherChange

TakesLock(c) == calls[c].at = "lock" /\ HasTurn(calls[c].on, c)
Entry(c) == sessions[calls[c].on]

\* withSessionMutation: the session is gone, or closed, as its turn comes; what
\* the call writes takes the controller's lease.
Refused(c) ==
    \/ ~Listed(calls[c].on)
    \/ Entry(c).status = "closed" /\ calls[c].kind # "close"
    \/ /\ calls[c].kind \in (Admitted \cup {"interrupt", "close"})
       /\ Entry(c).controller # calls[c].actor

IsRefused(c) ==
    /\ TakesLock(c) /\ Refused(c)
    /\ calls[c].kind = "release" => Entry(c).status = "closed"
    /\ EndsCall(c)

\* Attaches, whoever has become the controller meanwhile (mutant).
AttachesAnyhow(c) ==
    /\ TakesLock(c) /\ calls[c].kind = "attach" /\ ~Refused(c)
    /\ Sets(c, [Entry(c) EXCEPT !.controller = calls[c].actor])

\* attach as a controller.
Attaches(c) ==
    /\ TakesLock(c) /\ calls[c].kind = "attach" /\ ~Refused(c)
    /\ IF LiveController(calls[c].on) \in {Nobody, calls[c].actor}
       THEN Sets(c, [Entry(c) EXCEPT !.controller = calls[c].actor])
       ELSE EndsCall(c)

LeftBy(s, a) == [s EXCEPT !.controller = IF @ = a THEN Nobody ELSE @]

Detaches(c) ==
    /\ TakesLock(c) /\ calls[c].kind = "detach" /\ ~Refused(c)
    /\ Sets(c, LeftBy(Entry(c), calls[c].actor))

\* releaseActor, of one session, or of one that is gone; then the next of those there were.
Releases(c) ==
    /\ TakesLock(c) /\ calls[c].kind = "release" /\ Entry(c).status # "closed"
    /\ sessions' = [sessions EXCEPT ![calls[c].on] = LeftBy(@, calls[c].actor)]
    /\ LET rest == {s \in calls[c].rest : Listed(s)} IN
         IF rest = {} \/ Stopping THEN Release(c)
         ELSE /\ calls' = [calls EXCEPT ![c].on = Min(rest), ![c].rest = rest \ {Min(rest)}]
              /\ tail' = [tail EXCEPT ![calls[c].on] = Tail(@), ![Min(rest)] = Append(@, c)]
              /\ UNCHANGED line
    /\ UNCHANGED <<faults, opened>> /\ NoOtherChange

\* submitExec on a live session: the exec is queued, and run where it can be.
Submits(c) ==
    /\ TakesLock(c) /\ calls[c].kind = "submit" /\ ~Refused(c) /\ Entry(c).runtime
    /\ Sets(c, Drained([Entry(c) EXCEPT !.queue = @ + 1]))

\* recoverSession on a live session.
IsLive(c) ==
    /\ TakesLock(c) /\ calls[c].kind = "recover" /\ ~Refused(c) /\ Entry(c).runtime
    /\ EndsCall(c)

\* A session with no runtime takes room for one; one that is not checkpointed
\* has nothing to be reset to.
WantsRoom(c) ==
    /\ TakesLock(c) /\ calls[c].kind \in {"submit", "recover", "reset"}
    /\ ~Refused(c) /\ ~Entry(c).runtime
    /\ IF calls[c].kind = "reset" /\ ~Entry(c).durable THEN Release(c) ELSE Goes(c, "room")
    /\ UNCHANGED <<sessions, faults, opened>> /\ NoOtherChange

\* recycleRuntime, to the end of the runtime there is: the exec that runs ends,
\* those queued are kept.  Its status is as it was, but for a busy one's.  No host is
\* started again for its memory while the server is saved.
Recycles(c) ==
    /\ TakesLock(c) /\ ~Refused(c) /\ Entry(c).runtime
    /\ \/ calls[c].kind = "reset" /\ Entry(c).durable
       \/ calls[c].kind = "interrupt" /\ Entry(c).status = "live_busy"
       \/ calls[c].kind = "budget" /\ Entry(c).run = calls[c].run
             /\ Entry(c).status # "live_busy" /\ ~saved
       \/ calls[c].kind = "memory" /\ Entry(c).run = calls[c].run /\ ~saved
    /\ sessions' = [sessions EXCEPT ![calls[c].on].status =
                      IF calls[c].kind = "interrupt" THEN "live_idle" ELSE @]
    /\ Goes(c, "stopping")
    /\ UNCHANGED <<faults, opened>> /\ NoOtherChange

\* One the kernel killed is recycled once the server runs on, whatever came meanwhile.
WaitsOutSave(c) ==
    /\ TakesLock(c) /\ calls[c].kind = "memory" /\ ~Refused(c)
    /\ Entry(c).runtime /\ Entry(c).run = calls[c].run /\ saved
    /\ Goes(c, "saved") /\ UNCHANGED <<sessions, faults, opened>> /\ NoOtherChange

SaveIsOver(c) ==
    /\ calls[c].at = "saved" /\ ~saved
    /\ Goes(c, "stopping") /\ UNCHANGED <<sessions, faults, opened>> /\ NoOtherChange

\* interrupt, which the transport did softly; the next exec is run.
Interrupts(c) ==
    /\ TakesLock(c) /\ calls[c].kind = "interrupt" /\ ~Refused(c)
    /\ Entry(c).runtime /\ Entry(c).status = "live_busy"
    /\ Sets(c, Drained([Entry(c) EXCEPT !.status = "live_idle"]))

\* What there was to recycle, or to interrupt, is no more.
NothingToDo(c) ==
    /\ TakesLock(c) /\ ~Refused(c)
    /\ \/ calls[c].kind = "reset" /\ Entry(c).runtime /\ ~Entry(c).durable
       \/ calls[c].kind = "interrupt" /\ ~(Entry(c).runtime /\ Entry(c).status = "live_busy")
       \/ calls[c].kind = "memory" /\ ~(Entry(c).runtime /\ Entry(c).run = calls[c].run)
       \/ /\ calls[c].kind = "budget"
          /\ saved \/ ~(/\ Entry(c).runtime /\ Entry(c).run = calls[c].run
                       /\ Entry(c).status # "live_busy")
    /\ Sets(c, IF calls[c].kind = "budget" THEN Drained(Entry(c)) ELSE Entry(c))

\* close: the runtime there is ends first, and every exec with it.
Closes(c) ==
    /\ TakesLock(c) /\ calls[c].kind = "close" /\ ~Refused(c)
    /\ sessions' = [sessions EXCEPT ![calls[c].on].queue = 0, ![calls[c].on].waits = FALSE]
    /\ Goes(c, "stopping")
    /\ UNCHANGED <<faults, opened>> /\ NoOtherChange

-----------------------------------------------------------------------------
(* Making room.                                                            *)

Candidates == {s \in Live : Evictable(s)}
Room == Cardinality(Live) + 1 =< MaxSessions

\* A restart has a session's host out, and Live does not count it.
HostOut == \E c \in Calls : /\ calls[c].at = "starting"
                            /\ calls[c].kind \in (Restarts \cup {"interrupt"})

HasRoom(c) == calls[c].at = "room" /\ Room /\ opened' = (opened \/ HostOut)

\* There is room: the session is created, its lock held until its host is up.
Creates(c) ==
    /\ HasRoom(c) /\ calls[c].kind = "create"
    /\ created' = created + 1
    /\ \E durable \in BOOLEAN, a \in {calls[c].actor, Nobody} :
         sessions' = [sessions EXCEPT ![created + 1] =
            [Absent EXCEPT !.status = "recovering", !.durable = durable, !.controller = a]]
    /\ calls' = [calls EXCEPT ![c].on = created + 1, ![c].at = "starting"]
    /\ tail' = [tail EXCEPT ![created + 1] = <<c>>]
    /\ UNCHANGED <<line, asked, restarts, actors, stop, saved, faults>>

\* ensureRuntime and recycleRuntime: the session's host is started.
Starts(c) ==
    /\ HasRoom(c) /\ calls[c].kind # "create"
    /\ \/ calls[c].kind = "reset" /\ UNCHANGED sessions
       \/ /\ calls[c].kind # "reset" /\ Entry(c).durable /\ Entry(c).status # "quarantined"
          /\ sessions' = [sessions EXCEPT ![calls[c].on].status = "recovering"]
    /\ Goes(c, "starting") /\ UNCHANGED faults /\ NoOtherChange

\* ensureRuntime refuses a session that is quarantined, or not checkpointed, once
\* room is made.
HasNoRecovery(c) ==
    /\ HasRoom(c) /\ calls[c].kind \in {"submit", "recover"}
    /\ ~Entry(c).durable \/ Entry(c).status = "quarantined"
    /\ Release(c) /\ UNCHANGED <<sessions, faults>> /\ NoOtherChange

\* There is none: the oldest that can be is to be evicted, once its lock is had.
LacksRoom(c) ==
    /\ calls[c].at = "room" /\ ~Room
    /\ IF Candidates = {} THEN Release(c)
       ELSE /\ calls' = [calls EXCEPT ![c].at = "evict", ![c].victim = Min(Candidates)]
            /\ tail' = [tail EXCEPT ![Min(Candidates)] = Append(@, c)]
            /\ UNCHANGED line
    /\ UNCHANGED <<sessions, faults, opened>> /\ NoOtherChange

\* EvictsOrNot, of one chosen, whatever has come of it (mutant).
EvictsAnyhow(c) ==
    /\ calls[c].at = "evict" /\ HasTurn(calls[c].victim, c)
    /\ Goes(c, "ending")
    /\ UNCHANGED <<sessions, faults, opened>> /\ NoOtherChange

\* The victim's lock is had: it is evicted, unless that may no longer be; where it
\* is closed, its removal having failed, the call fails.
EvictsOrNot(c) ==
    /\ calls[c].at = "evict" /\ HasTurn(calls[c].victim, c)
    /\ IF sessions[calls[c].victim].status = "closed" THEN Release(c)
       ELSE IF sessions[calls[c].victim].runtime /\ Evictable(calls[c].victim)
       THEN Goes(c, "ending")
       ELSE /\ calls' = [calls EXCEPT ![c].at = "room", ![c].victim = None]
            /\ tail' = [tail EXCEPT ![calls[c].victim] = Tail(@)]
            /\ UNCHANGED line
    /\ UNCHANGED <<sessions, faults, opened>> /\ NoOtherChange

\* The victim's host has ended, and its session is removed; or its removal
\* fails, and the call with it.
Evicted(c) ==
    /\ calls[c].at = "ending"
    /\ \/ /\ sessions' = [sessions EXCEPT ![calls[c].victim] = Absent]
          /\ calls' = [calls EXCEPT ![c].at = "room", ![c].victim = None]
          /\ tail' = [tail EXCEPT ![calls[c].victim] = Tail(@)]
          /\ UNCHANGED <<line, faults>>
       \/ /\ faults < MaxFaults /\ faults' = faults + 1
          /\ sessions' = [sessions EXCEPT ![calls[c].victim].status = "closed",
                                          ![calls[c].victim].runtime = FALSE]
          /\ Release(c)
    /\ UNCHANGED opened /\ NoOtherChange

-----------------------------------------------------------------------------
(* Hosts that end and start.                                               *)

\* The host has ended: the recycle starts another, the close removes the session.
HostEnded(c) ==
    /\ calls[c].at = "stopping"
    /\ \/ /\ calls[c].kind # "close"
          /\ sessions' = [sessions EXCEPT ![calls[c].on].runtime = FALSE]
          /\ Goes(c, "starting") /\ UNCHANGED faults
       \/ /\ calls[c].kind = "close"
          /\ sessions' = [sessions EXCEPT ![calls[c].on] = Absent]
          /\ Release(c) /\ UNCHANGED faults
       \/ /\ calls[c].kind = "close" /\ faults < MaxFaults /\ faults' = faults + 1
          /\ sessions' = [sessions EXCEPT ![calls[c].on].status = "closed",
                                          ![calls[c].on].runtime = FALSE]
          /\ Release(c)
    /\ UNCHANGED opened /\ NoOtherChange

\* The host is there, and counts as live, but has yet to prompt.
HostSpawned(c) ==
    /\ calls[c].at = "starting"
    /\ sessions' = [sessions EXCEPT ![calls[c].on].runtime = TRUE,
                                    ![calls[c].on].killed = FALSE,
                                    ![calls[c].on].run = @ + 1]
    /\ Goes(c, "prompting") /\ UNCHANGED <<faults, opened>> /\ NoOtherChange

\* A loop that waited out a save meanwhile found no runtime, or none of its own, and ended.
Started(s, kind) ==
    Drained([s EXCEPT !.status = "live_idle", !.waits = FALSE,
                      !.queue = IF kind = "submit" THEN @ + 1 ELSE @])

\* It prompts: the session is live, and runs what is queued.  A reset does not bring
\* back one that is quarantined.
HostUp(c) ==
    /\ calls[c].at = "prompting" /\ Entry(c).status # "quarantined"
    /\ Sets(c, Started(Entry(c), calls[c].kind))

\* It does not start, or prompt: the session is quarantined, or never was.
StartFails(c) ==
    /\ calls[c].at \in {"starting", "prompting"}
    /\ \/ Entry(c).status = "quarantined" /\ UNCHANGED faults
       \/ faults < MaxFaults /\ faults' = faults + 1
    /\ sessions' = [sessions EXCEPT ![calls[c].on] =
                      IF calls[c].kind = "create" /\ ~@.durable THEN Absent ELSE Quarantined(@)]
    /\ Release(c) /\ UNCHANGED opened /\ NoOtherChange

\* Another exec is run as one ends, or the host has come to hold too much, and
\* is to be started again where the server does not stop.  None ends while the
\* server is saved.
ExecEnds(s) ==
    /\ sessions[s].status = "live_busy" /\ sessions[s].runtime /\ ~Working(s) /\ ~saved
    /\ \/ /\ sessions' = [sessions EXCEPT ![s] = Drained([@ EXCEPT !.status = "live_idle"])]
          /\ UNCHANGED <<calls, asked, restarts, lockVars>>
       \/ /\ sessions' = [sessions EXCEPT ![s].status = "live_idle"]
          /\ IF Stopping THEN UNCHANGED <<calls, asked, restarts, lockVars>>
             ELSE RestartAsked("budget", s) /\ UNCHANGED asked
    /\ UNCHANGED <<created, actors, stop, saved, faults, opened>>

\* The host of a live session exits of itself.
HostExits(s) ==
    /\ sessions[s].runtime /\ ~sessions[s].killed /\ ~Working(s)
    /\ faults < MaxFaults /\ faults' = faults + 1
    /\ sessions' = [sessions EXCEPT ![s] = Quarantined(@)]
    /\ UNCHANGED <<created, calls, asked, restarts, lockVars, actors, stop, saved, opened>>

\* The kernel kills it for its memory: it is to be started again, the server
\* stopping or not.
HostKilled(s) ==
    /\ sessions[s].runtime /\ ~sessions[s].killed /\ ~Working(s)
    /\ stop.at \in {"no", "line"} \cup (IF LateKills THEN {"locks", "loop", "hosts"} ELSE {})
    /\ sessions' = [sessions EXCEPT ![s].status = "recovering", ![s].killed = TRUE]
    /\ RestartAsked("memory", s) /\ UNCHANGED asked
    /\ UNCHANGED <<created, actors, stop, saved, faults, opened>>

-----------------------------------------------------------------------------
(* Saves.                                                                  *)

\* The host is about to save the sandbox.  What clients asked before that, and what
\* was under way, goes on.
Save ==
    /\ ~saved /\ saved' = TRUE
    /\ UNCHANGED <<sessions, created, calls, asked, restarts, lockVars, actors, stop, faults,
                   opened>>

\* It runs on, restored or not: the loops that wait look again.  One whose session has
\* its host ended or started finds none of its own; what it may do on one that is
\* being started is of SessionLifecycle.
RunsOn ==
    /\ saved /\ saved' = FALSE
    /\ sessions' = [s \in Ids |-> IF Working(s) THEN sessions[s] ELSE Woken(sessions[s])]
    /\ UNCHANGED <<created, calls, asked, restarts, lockVars, actors, stop, faults, opened>>

-----------------------------------------------------------------------------
(* The shutdown.                                                           *)

ShutsDown ==
    /\ ~Stopping
    /\ stop' = [stop EXCEPT !.at = "line"]
    /\ UNCHANGED <<sessions, created, calls, asked, restarts, lockVars, actors, saved, faults,
                   opened>>

UnchangedByShutdown ==
    UNCHANGED <<created, calls, asked, restarts, lockVars, actors, saved, faults, opened>>

\* performShutdown: those admitted are done, then those that have, or wait for, a
\* session's lock as it looks.
LineDrains ==
    /\ stop.at = "line" /\ line = <<>>
    /\ stop' = [stop EXCEPT !.at = "locks", !.awaits = InTails]
    /\ UNCHANGED sessions /\ UnchangedByShutdown

LocksDrain ==
    /\ stop.at = "locks" /\ stop.awaits \cap InTails = {}
    /\ stop' = [stop EXCEPT !.at = "loop", !.awaits = {}, !.left = {s \in Ids : Listed(s)}]
    /\ UNCHANGED sessions /\ UnchangedByShutdown

\* The next session: its host, where it has one, is dumped or ended, its execs
\* with it.  One with none stays as it is, or goes if it is not checkpointed.
StopsNext ==
    /\ stop.at = "loop" /\ stop.now = None /\ stop.left # {}
    /\ LET s == Min(stop.left)
           freed == [sessions[s] EXCEPT !.controller = Nobody, !.queue = 0, !.waits = FALSE]
       IN /\ stop' = [stop EXCEPT !.left = @ \ {s},
                                  !.now = IF freed.runtime THEN s ELSE None]
          /\ sessions' = [sessions EXCEPT ![s] =
                            IF freed.runtime \/ freed.durable THEN freed ELSE Absent]
    /\ UnchangedByShutdown

\* It has ended: the session is suspended, as one whose checkpoint can be read
\* is, or gone.
AfterStop(s) ==
    IF ~s.durable THEN Absent
    ELSE [s EXCEPT !.runtime = FALSE, !.killed = FALSE, !.waits = FALSE,
                   !.status = IF @ = "quarantined" THEN @ ELSE "suspended"]

NowStopped ==
    /\ stop.now # None
    /\ stop' = [stop EXCEPT !.now = None]
    /\ sessions' = [sessions EXCEPT ![stop.now] = AfterStop(@)]
    /\ UnchangedByShutdown

\* registry.shutdown, which ends what hosts the transports have.
LoopDone ==
    /\ stop.at = "loop" /\ stop.now = None /\ stop.left = {}
    /\ stop' = [stop EXCEPT !.at = "hosts"]
    /\ UNCHANGED sessions /\ UnchangedByShutdown

HostsStopped ==
    /\ stop.at = "hosts"
    /\ stop' = [stop EXCEPT !.at = "ended"]
    /\ sessions' = [s \in Ids |-> [sessions[s] EXCEPT !.runtime = FALSE]]
    /\ UnchangedByShutdown

-----------------------------------------------------------------------------
Turn(c) ==
    \/ TakesAdmission(c)
    \/ /\ CanTurn(c)
       /\ \/ IsRefused(c) \/ Attaches(c) \/ Detaches(c) \/ Releases(c)
          \/ Submits(c) \/ IsLive(c) \/ WantsRoom(c) \/ Recycles(c) \/ Interrupts(c)
          \/ WaitsOutSave(c) \/ SaveIsOver(c) \/ NothingToDo(c) \/ Closes(c)
          \/ Creates(c) \/ Starts(c) \/ HasNoRecovery(c) \/ LacksRoom(c) \/ EvictsOrNot(c)

\* What a call awaits outside the manager ends.
AwaitEnds(c) ==
    /\ calls[c].at # "none"
    /\ \/ WindowEnds(c) \/ Evicted(c)
       \/ HostEnded(c) \/ HostSpawned(c) \/ HostUp(c) \/ StartFails(c)

Ask ==
    \/ \E kind \in Admitted, a \in Actors, s \in Ids \cup {None} : AskAdmitted(kind, a, s)
    \/ \E kind \in Held \ {"release"}, a \in Actors, s \in Ids : AskHeld(kind, a, s)
    \/ \E a \in Actors : AskRelease(a)

\* What goes on by itself, and what it waits for once that is all done.
Progress ==
    \/ LineDrains \/ LocksDrain \/ StopsNext \/ LoopDone
    \/ \E c \in Calls : Turn(c)
    \/ Settled /\ (NowStopped \/ HostsStopped \/ \E c \in Calls : AwaitEnds(c))

\* What clients, hosts and the kernel do of themselves.
Outside ==
    /\ Settled
    /\ \/ Ask \/ ShutsDown \/ Save \/ RunsOn
       \/ \E a \in Actors : ActorMoves(a)
       \/ \E s \in Ids : ExecEnds(s) \/ HostExits(s) \/ HostKilled(s)

Next == Outside \/ Progress

\* The event loop takes the turns there are, the transport's waits end (it kills
\* what does not end, and times out what does not start), and so do an attach's; a
\* saved server runs on, as SandboxHook has it.
\* Nothing has an exec end, nor a client call.
Spec == Init /\ [][Next]_vars /\ WF_vars(Progress) /\ WF_vars(RunsOn)

-----------------------------------------------------------------------------
(* Properties.                                                             *)

\* makeRoomIfNeeded and the admission lock: the sessions that have a host, or are
\* having one started, are never more than maxSessions, however creations,
\* recoveries and evictions interleave.  A restart outside the admission lock
\* has its session's host out, so room made meanwhile may be taken twice: only
\* then may they be more.
HostsOrStarting ==
    {s \in Ids : sessions[s].runtime \/ \E c \in Calls : calls[c].on = s /\ calls[c].at = "starting"}
NeverOverbooked == ~opened => Cardinality(HostsOrStarting) =< MaxSessions

\* makeRoomIfNeeded, withSessionMutation, create's lock and the shutdown's waits:
\* nobody has a session's host ended or started while another does; nor does the
\* shutdown, unless the kernel may kill hosts as late as that.  A session chosen to
\* be evicted while it was idle may have been given work by the time its lock is
\* had: one whose host an eviction ends runs no exec, and has none queued but in two
\* cases, in which what is queued is lost.  A drain loop has waited out a save, in
\* which its session is idle all the same, as stillEvictable has it
\* (session-manager.ts:1728-1739, 2717-2720); or a server that stops has not started
\* the host again for the memory it holds.
Workers(s) ==
    {c \in Calls : \/ calls[c].on = s /\ calls[c].at \in {"stopping", "starting", "prompting"}
                   \/ calls[c].victim = s /\ calls[c].at = "ending"}
EvictionTakesNoExec ==
    /\ \A s \in Ids : Cardinality(Workers(s)) =< 1
    /\ ~LateKills /\ stop.now # None => Workers(stop.now) = {}
    /\ \A c \in Calls : calls[c].at = "ending" =>
           /\ sessions[calls[c].victim].status = "live_idle"
           /\ \/ sessions[calls[c].victim].queue = 0
              \/ sessions[calls[c].victim].waits \/ Stopping

\* attach: no call takes a live client's controller lease from it but its own
\* (it detaches, or its client is gone for good) and the end of its session or
\* of the server.
KeepsItsLease(s, a) ==
    sessions[s].controller = a /\ actors[a] = "live" /\ sessions'[s].controller # a
    => \/ ~(sessions'[s].status # "none")
       \/ Stopping
       \/ \E c \in Calls : calls[c].kind = "detach" /\ calls[c].actor = a /\ calls[c].on = s
                           /\ calls'[c] = NoCall
LeasesAreKept == [][\A s \in Ids, a \in Actors : KeepsItsLease(s, a)]_vars

\* As a shutdown is over no host is up or starting, no call goes on but an
\* attach's wait, and the sessions there are come back with the next server.
NothingLeft ==
    /\ HostsOrStarting = {}
    /\ \A c \in Calls : calls[c].at \in {"none", "window"}
    /\ \A s \in Ids : sessions[s].status # "live_busy"
    /\ \A s \in Ids : Listed(s) => sessions[s].durable

\* performShutdown ends, whatever it was asked among, and leaves nothing: no call
\* it waits for waits for a lock that waits for it, or ended with a lock held.  (It is
\* never taken back once it is asked for: there is none, or it comes to be over.)
ShutdownEnds == []<>(~Stopping \/ (stop.at = "ended" /\ NothingLeft))
=============================================================================
