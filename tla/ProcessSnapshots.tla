-------------------------- MODULE ProcessSnapshots --------------------------
(***************************************************************************)
(* Process snapshots (runtime/process-snapshots.ts, and the session        *)
(* manager's use of them): a server that stops dumps each idle session's   *)
(* process tree, and a later server restores it at the PIDs it had.        *)
(*                                                                         *)
(* PIDs come from a counter the whole PID namespace shares and that goes   *)
(* round.  A start moves it past the PIDs its snapshots need, runtimes     *)
(* start above a floor, and a restore that finds a PID taken falls back to *)
(* the session's checkpoint.  What survives a server is on disk: the       *)
(* catalog's entry, the dumped images, the scratch files the dumped        *)
(* processes map, and the checkpoint.                                      *)
(***************************************************************************)
EXTENDS Naturals, FiniteSets, FiniteSetsExt, TLC

CONSTANTS
    Sessions,            \* the checkpointed sessions
    PidMax,              \* pid_max: the namespace's PIDs end below it
    LOWEST_WRAPPED_PID,  \* where the counter goes on once it has gone round
    SESSION_PID_FLOOR,   \* what runtimes start above
    PID_ADVANCE_BUDGET,  \* how many PIDs a start moves the counter at most
    Own,                 \* how many PIDs a server's start takes before it can reserve any
    Jumps,               \* bound: how many PIDs other processes take at once
    TreeSize,            \* bound: the processes of a session's tree
    MaxServers, MaxMoves, MaxWork, MaxTroubles  \* bounds: starts, other processes, execs, failures

ASSUME PidAssumption ==
    /\ LOWEST_WRAPPED_PID \in 1..Own /\ Own < SESSION_PID_FLOOR /\ SESSION_PID_FLOOR + 1 < PidMax
    /\ {LOWEST_WRAPPED_PID, SESSION_PID_FLOOR, PID_ADVANCE_BUDGET, Own, PidMax} \subseteq Nat

ASSUME BoundAssumption == TreeSize \in Nat /\ MaxWork \in Nat

VARIABLES
    \* on disk
    entry,    \* the catalog's entry of each session: its status and its snapshot
    images,   \* what its snapshot directory holds: a snapshot, Partial or NoSnapshot
    scratch,  \* its scratch directory holds what its processes map
    checkpoint,  \* the work its checkpoint holds
    foreign,  \* the machine restarted, or bayma changed, since its snapshot was taken
    \* the PID namespace
    last,     \* the last PID its counter handed out
    others,   \* the PIDs of processes that are not bayma's
    ours,     \* the PIDs of the server's own threads
    \* the server
    phase, record, at, host, mem, advance,
    servers, moves, troubles,  \* history: what the bounds count
    told,     \* history: the work each session's execs told
    safe,     \* history: the sessions whose snapshot's PIDs this design promises to keep
    since,    \* history: how far the counter moved since the start read it
    resetOver \* history: sessions reset to their checkpoint with a snapshot unspent

diskVars == <<entry, images, scratch, checkpoint, foreign>>
pidVars == <<last, others, ours, since, safe>>
countVars == <<servers, moves, troubles>>
vars == <<diskVars, pidVars, phase, record, at, host, mem, advance, countVars, told, resetOver>>

Pids == 1..(PidMax - 1)
NoSnapshot == [root |-> 0, pids |-> {}, mem |-> 0]
Partial == [NoSnapshot EXCEPT !.mem = MaxWork + 1]
Snapshots ==
    {snap \in [root : Pids, pids : SUBSET Pids, mem : 0..MaxWork] : snap.root \in snap.pids}
Statuses == {"suspended", "recovering", "live_idle", "quarantined"}
NoAdvance == [past |-> 0, wrapping |-> FALSE, near |-> {}]
Unread == [status |-> "suspended", snap |-> NoSnapshot]
NoHost == [root |-> 0, pids |-> {}]
Places == {"away", "recovering", "restored", "failed", "spent", "hydrated", "live", "dumped"}

\* No more than values: a snapshot names a tree, and the memory it holds.
TypeOK ==
    /\ entry \in [Sessions -> [status : Statuses, snap : Snapshots \cup {NoSnapshot}]]
    /\ images \in [Sessions -> Snapshots \cup {NoSnapshot, Partial}]
    /\ scratch \in [Sessions -> BOOLEAN] /\ checkpoint \in [Sessions -> 0..MaxWork]
    /\ foreign \subseteq Sessions
    /\ last \in Pids /\ others \subseteq Pids /\ ours \subseteq Pids
    /\ phase \in {"down", "advancing", "up", "stopping"}
    /\ record \in [Sessions -> [status : Statuses, snap : Snapshots \cup {NoSnapshot}]]
    /\ at \in [Sessions -> Places]
    /\ host \in [Sessions -> [root : Pids \cup {0}, pids : SUBSET Pids]]
    /\ mem \in [Sessions -> 0..MaxWork] /\ told \in [Sessions -> 0..MaxWork]
    /\ advance \in [past : Pids \cup {0}, wrapping : BOOLEAN, near : SUBSET Sessions]
    /\ safe \subseteq Sessions /\ resetOver \subseteq Sessions
    /\ since \in 0..(2 * PidMax)

-----------------------------------------------------------------------------
(* The counter, and what a start does with it.                             *)

HighestOf(snap) == Max(snap.pids)
LowestOf(snap) == Min(snap.pids)
Used == others \cup ours \cup UNION {host[s].pids : s \in Sessions}

\* Never handed out again, as Infinity.
Never == 4 * PidMax + PID_ADVANCE_BUDGET

\* How many PIDs the counter hands out before pid.
pidsBefore(from, pid) ==
    CASE pid >= PidMax -> Never
      [] pid > from -> pid - from - 1
      [] pid =< from /\ pid < LOWEST_WRAPPED_PID -> Never
      [] OTHER -> PidMax - from - 1 + (pid - LOWEST_WRAPPED_PID)

Need(from, snap) == pidsBefore(from, HighestOf(snap)) + 1
Near(from, snaps) == {s \in DOMAIN snaps : Need(from, snaps[s]) =< PID_ADVANCE_BUDGET}

\* Mutant: the nearest of them.
ReservesNearest(from, snaps) ==
    IF Near(from, snaps) = {} THEN NoAdvance
    ELSE LET nearest == CHOOSE s \in Near(from, snaps) :
                 \A t \in Near(from, snaps) : Need(from, snaps[t]) >= Need(from, snaps[s])
             past == HighestOf(snaps[nearest])
         IN [past |-> past, wrapping |-> past =< from, near |-> Near(from, snaps)]

\* The furthest of the snapshots the counter is near, round its wrap where
\* that lies behind it.
pidReservation(from, snaps) ==
    IF Near(from, snaps) = {} THEN NoAdvance
    ELSE LET farthest == CHOOSE s \in Near(from, snaps) :
                 \A t \in Near(from, snaps) : Need(from, snaps[t]) =< Need(from, snaps[s])
             past == HighestOf(snaps[farthest])
         IN [past |-> past, wrapping |-> past =< from, near |-> Near(from, snaps)]

SnapshotsOf(records) ==
    [s \in {s \in Sessions : records[s].snap # NoSnapshot} |-> records[s].snap]
Stored == DOMAIN SnapshotsOf(record)

Free(p) == p \in Pids \ Used /\ pidsBefore(last, p) < Never

\* The next free PID, where one is left: the counter passes over those in use.
NextPids ==
    {p \in Pids : Free(p) /\ \A q \in Pids \ Used : pidsBefore(last, p) =< pidsBefore(last, q)}
Cycle == PidMax - LOWEST_WRAPPED_PID
Span(snap) == HighestOf(snap) - LowestOf(snap)

\* What a start moved the counter past lies ahead of it again once it has gone
\* a round, less the tree's span, from where the start read it.
OutOfReach(snap, moved) == moved + Span(snap) < Cycle

\* The counter hands out the PIDs up to p, of which those in kept stay in use.
\* From where a start read it, its promise is for what the counter moves; a
\* process that takes a snapshot's PID before, and keeps it, none can help.
MovesTo(p, kept) ==
    LET moved == since + pidsBefore(last, p) + 1
        taken == {s \in Sessions : (images[s].pids \cup entry[s].snap.pids) \cap kept # {}}
        reached == {s \in Stored : ~OutOfReach(record[s].snap, moved)}
    IN /\ last' = p
       /\ since' = IF phase \in {"advancing", "up"} /\ Stored # {} THEN Min({moved, 2 * PidMax}) ELSE 0
       /\ safe' = safe \ (IF phase = "up" THEN reached ELSE taken)

\* Other processes of the container come and go, the last of them to stay.
OthersMove ==
    /\ moves < MaxMoves /\ moves' = moves + 1
    /\ \E p \in Pids : Free(p) /\ pidsBefore(last, p) + 1 \in Jumps /\ MovesTo(p, {p}) /\ others' = others \cup {p}
    /\ UNCHANGED <<diskVars, phase, record, at, host, mem, ours, advance, servers, troubles, told, resetOver>>

-----------------------------------------------------------------------------
(* A server's start: it loads the catalog, reserves the PIDs its snapshots *)
(* need, and empties the scratch of the sessions that have none.           *)

Init ==
    /\ entry = [s \in Sessions |-> [status |-> "suspended", snap |-> NoSnapshot]]
    /\ images = [s \in Sessions |-> NoSnapshot]
    /\ scratch = [s \in Sessions |-> FALSE] /\ checkpoint = [s \in Sessions |-> 0]
    /\ foreign = {} /\ last = 1 /\ others = {} /\ ours = {} /\ since = 0 /\ safe = {}
    /\ phase = "down" /\ record = [s \in Sessions |-> Unread] /\ at = [s \in Sessions |-> "away"]
    /\ host = [s \in Sessions |-> NoHost] /\ mem = [s \in Sessions |-> 0]
    /\ advance = NoAdvance /\ servers = 0 /\ moves = 0 /\ troubles = 0
    /\ told = [s \in Sessions |-> 0] /\ resetOver = {}

Trouble == troubles < MaxTroubles /\ troubles' = troubles + 1

restorableSnapshot(s) == IF s \in foreign THEN NoSnapshot ELSE entry[s].snap

\* A quarantined session comes back from nothing.
Normalized(s) ==
    IF entry[s].status = "quarantined"
    THEN [status |-> "quarantined", snap |-> NoSnapshot]
    ELSE [status |-> "suspended", snap |-> restorableSnapshot(s)]

\* The snapshot directories of no stored snapshot go.
Swept(loaded) == [s \in Sessions |-> IF loaded[s].snap = NoSnapshot THEN NoSnapshot ELSE images[s]]

\* In a fresh container its threads have the lowest PIDs, as a tree some of
\* whose PIDs are of the counter's next round may; in the one before, the next.
TakesItsPids ==
    \/ /\ last' = Own /\ ours' = 1..Own /\ others' = {} /\ since' = 0
       /\ safe' = {s \in safe : LowestOf(entry[s].snap) = entry[s].snap.root}
    \/ \E p \in Pids :
           LET taken == {q \in Pids : Free(q) /\ pidsBefore(last, q) =< pidsBefore(last, p)} IN
           /\ Free(p) /\ Cardinality(taken) = Own
           /\ MovesTo(p, taken) /\ ours' = taken /\ UNCHANGED others

\* The helper is a process itself.  Where it may, it sets the counter just
\* below its target; elsewhere it climbs to the first PID it gets from there.
\* Where it is to see a wrap and all from the target to its own PID are in use,
\* that one lies a whole round ahead.
Helped(target, wrapping, to, round) ==
    \E own \in NextPids :
        IF ~wrapping /\ own >= target THEN to = own /\ round = 0
        ELSE \/ to = target - 1 /\ round = 0
             \/ /\ to \in Pids \ (Used \cup {own}) /\ to >= target
                /\ \A p \in target..(to - 1) : p \in Used \cup {own}
                /\ round = IF wrapping /\ target =< own /\ own < to THEN Cycle ELSE 0

Target(past) == IF past = PidMax - 1 THEN past ELSE past + 1
pidsPast(pid) == last >= pid /\ last < PidMax - 1

\* It loads the catalog and reads the counter; its helper then runs off the
\* event loop, as others move.
LoadsCatalog ==
    /\ phase = "down" /\ servers < MaxServers
    /\ servers' = servers + 1 /\ phase' = "advancing"
    /\ record' = [s \in Sessions |-> Normalized(s)]
    /\ entry' = record' /\ images' = Swept(record')
    /\ TakesItsPids /\ advance' = pidReservation(last', SnapshotsOf(record'))
    /\ UNCHANGED <<scratch, checkpoint, foreign, at, host, mem, moves, troubles, told, resetOver>>

\* What the hosts of the server before left goes, but for what a snapshot's
\* processes map.
Emptied == [s \in Sessions |-> scratch[s] /\ record[s].snap # NoSnapshot]

\* Of the snapshots stored, those the counter is past now.
UpWith(to, moved, past) ==
    /\ phase' = "up" /\ advance' = NoAdvance /\ scratch' = Emptied
    /\ last' = to /\ since' = Min({moved, 2 * PidMax})
    /\ safe' = (safe \ Stored) \cup {s \in safe \cap past : OutOfReach(record[s].snap, moved)}
    /\ UNCHANGED <<entry, images, checkpoint, foreign, others, ours, record, at, host, mem, servers, moves, told, resetOver>>

\* A counter set below the namespace's last PID has not handed it out.
HandedOut(to) == {s \in advance.near : HighestOf(record[s].snap) < PidMax - 1 \/ to # PidMax - 2}

Advances ==
    /\ phase = "advancing" /\ advance # NoAdvance /\ UNCHANGED troubles
    /\ \E to \in Pids, round \in {0, Cycle} :
           /\ Helped(Target(advance.past), advance.wrapping, to, round)
           /\ UpWith(to, since + pidsBefore(last, to) + 1 + round, HandedOut(to))

\* No snapshot the counter is near; or it cannot be read, or the helper fails.
ReservesNothing ==
    /\ phase = "advancing"
    /\ \/ advance = NoAdvance /\ UNCHANGED troubles
       \/ Trouble
    /\ UpWith(last, 0, {})

Start == LoadsCatalog \/ Advances \/ ReservesNothing

-----------------------------------------------------------------------------
(* A session comes back: whole from its snapshot, else from its checkpoint.*)

InMemory == <<foreign, phase, advance, ours, others, servers, moves>>
Away(s) == host' = [host EXCEPT ![s] = NoHost]
To(s, place) == at' = [at EXCEPT ![s] = place]
Marked(s, status) == record' = [record EXCEPT ![s].status = status]
StillPids == UNCHANGED <<last, since, safe>>

\* Recoveries and resets are admitted one at a time.
Admitted == phase = "up" /\ \A s \in Sessions : at[s] \in {"away", "live"}

\* persist failed: the session is quarantined, in memory and perhaps on disk,
\* and its runtime stopped.
Quarantined(s) ==
    /\ Trouble /\ Marked(s, "quarantined") /\ entry' \in {entry, [entry EXCEPT ![s] = record'[s]]}
    /\ To(s, "away") /\ Away(s)

recoverRuntime(s) ==
    /\ Admitted /\ at[s] = "away" /\ record[s].status # "quarantined"
    /\ \/ /\ Marked(s, "recovering") /\ entry' = [entry EXCEPT ![s] = record'[s]]
          /\ To(s, IF record[s].snap = NoSnapshot THEN "spent" ELSE "recovering")
          /\ UNCHANGED <<host, troubles>>
       \/ Quarantined(s)
    /\ StillPids
    /\ UNCHANGED <<InMemory, images, scratch, checkpoint, mem, told, resetOver>>

\* CRIU is a process of its own, and places the tree's where they were.
Restorable(s, criu) ==
    LET snap == record[s].snap IN
    /\ images[s] = snap /\ scratch[s]
    /\ snap.pids \cap (Used \cup {criu}) = {}

Restores(s) ==
    /\ phase = "up" /\ at[s] = "recovering"
    /\ \E criu \in NextPids :
          /\ MovesTo(criu, {})
          /\ \/ /\ Restorable(s, criu) /\ To(s, "restored")
                /\ host' = [host EXCEPT ![s] = [root |-> record[s].snap.root, pids |-> record[s].snap.pids]]
                /\ mem' = [mem EXCEPT ![s] = record[s].snap.mem]
                /\ UNCHANGED troubles
             \/ /\ To(s, "failed") /\ UNCHANGED <<host, mem>>
                /\ IF Restorable(s, criu) THEN Trouble ELSE UNCHANGED troubles
    /\ UNCHANGED <<diskVars, phase, advance, ours, others, record, servers, moves, told, resetOver>>

\* Mutant: a snapshot that restored is kept, to restore again.
SpendsLater(s) ==
    /\ phase = "up" /\ at[s] \in {"restored", "failed"}
    /\ To(s, IF at[s] = "restored" THEN "hydrated" ELSE "spent")
    /\ StillPids
    /\ UNCHANGED <<InMemory, record, images, entry, scratch, checkpoint, host, mem, troubles, told, resetOver>>

\* The restored runtime answers its probe, or is stopped; the snapshot is spent
\* either way, in memory and then on disk, before the catalog says so.
Spends(s) ==
    /\ phase = "up" /\ at[s] \in {"restored", "failed"}
    /\ \/ /\ at[s] = "restored" /\ To(s, "hydrated") /\ UNCHANGED <<host, troubles>>
       \/ /\ at[s] = "restored" /\ Trouble /\ To(s, "spent") /\ Away(s)
       \/ /\ at[s] = "failed" /\ To(s, "spent") /\ UNCHANGED <<host, troubles>>
    /\ record' = [record EXCEPT ![s].snap = NoSnapshot]
    /\ images' = [images EXCEPT ![s] = NoSnapshot]
    /\ StillPids
    /\ UNCHANGED <<InMemory, entry, scratch, checkpoint, mem, told, resetOver>>

\* For the runtimes about to start to lie above the floor.
advancePastFloor ==
    /\ phase = "up" /\ (\E s \in Sessions : at[s] = "spent") /\ ~pidsPast(SESSION_PID_FLOOR)
    /\ \E to \in Pids : Helped(SESSION_PID_FLOOR + 1, FALSE, to, 0) /\ MovesTo(to, {})
    /\ UNCHANGED <<diskVars, phase, advance, ours, others, record, at, host, mem, countVars, told, resetOver>>

\* Nothing comes between the check that the counter is past the floor and the
\* start; where the helper failed, it may start below.
startSession(s) ==
    /\ phase = "up" /\ at[s] = "spent"
    /\ \/ pidsPast(SESSION_PID_FLOOR) /\ UNCHANGED troubles
       \/ ~pidsPast(SESSION_PID_FLOOR) /\ Trouble
    /\ \E pid \in NextPids :
          /\ MovesTo(pid, {})
          /\ host' = [host EXCEPT ![s] = [root |-> pid, pids |-> {pid}]]
    /\ To(s, "hydrated") /\ mem' = [mem EXCEPT ![s] = checkpoint[s]]
    /\ scratch' = [scratch EXCEPT ![s] = TRUE]
    /\ UNCHANGED <<entry, images, checkpoint, foreign, phase, advance, ours, others, record, servers, moves, told, resetOver>>

ComesBack(s) ==
    /\ phase = "up" /\ at[s] = "hydrated"
    /\ \/ /\ Marked(s, "live_idle") /\ entry' = [entry EXCEPT ![s] = record'[s]]
          /\ To(s, "live") /\ UNCHANGED <<host, troubles>>
       \/ Quarantined(s)
    /\ StillPids
    /\ UNCHANGED <<InMemory, images, scratch, checkpoint, mem, told, resetOver>>

\* resetToCheckpoint of a session without a runtime: its runtime starts anew,
\* and a snapshot it has stays named.
resetToCheckpoint(s) ==
    /\ Admitted /\ at[s] = "away" /\ To(s, "spent")
    /\ moves < MaxMoves /\ moves' = moves + 1
    /\ resetOver' = IF record[s].snap = NoSnapshot THEN resetOver ELSE resetOver \cup {s}
    /\ StillPids
    /\ UNCHANGED <<foreign, phase, advance, ours, others, servers, entry, images, scratch, checkpoint, record, host, mem, troubles, told>>

\* A process of its tree starts another.
Forks(s) ==
    /\ moves < MaxMoves /\ moves' = moves + 1
    /\ phase \in {"up", "stopping"} /\ host[s] # NoHost /\ Cardinality(host[s].pids) < TreeSize
    /\ \E pid \in NextPids :
          MovesTo(pid, {pid}) /\ host' = [host EXCEPT ![s].pids = @ \cup {pid}]
    /\ UNCHANGED <<diskVars, phase, advance, ours, others, record, at, mem, servers, troubles, told, resetOver>>

\* An exec works in its memory; its checkpoint is committed before it is told.
Execs(s) ==
    /\ phase = "up" /\ at[s] = "live" /\ \A t \in Sessions : told[t] < MaxWork
    /\ mem' = [mem EXCEPT ![s] = @ + 1] /\ checkpoint' = [checkpoint EXCEPT ![s] = mem'[s]]
    /\ told' = [told EXCEPT ![s] = @ + 1]
    /\ StillPids
    /\ UNCHANGED <<InMemory, entry, images, scratch, record, at, host, troubles, resetOver>>

Session(s) ==
    \/ recoverRuntime(s) \/ Restores(s) \/ Spends(s) \/ startSession(s)
    \/ ComesBack(s) \/ resetToCheckpoint(s) \/ Forks(s) \/ Execs(s)

-----------------------------------------------------------------------------
(* The server stops, dumping what it can, or is killed.                    *)

\* No session's call is under way any more.
BeginsStop ==
    /\ Admitted /\ phase' = "stopping"
    /\ UNCHANGED <<diskVars, pidVars, record, at, host, mem, advance, countVars, told, resetOver>>

TreeOf(s) == [root |-> host[s].root, pids |-> host[s].pids, mem |-> mem[s]]

Turn(s) == phase = "stopping" /\ at[s] = "live" /\ \A t \in Sessions : at[t] # "dumped"

\* A tree that has PIDs of a snapshot the counter reached shares its fate, and
\* a runtime that started below the floor was reported.
Promised(s, moved) ==
    /\ host[s].root > SESSION_PID_FLOOR
    /\ \A t \in Sessions \ ({s} \cup moved) : images[t].pids \cap host[s].pids = {}

\* CRIU dumps the tree, which ends it, into its emptied directory.
Dumps(s) ==
    /\ Turn(s)
    /\ record' = [record EXCEPT ![s].snap = TreeOf(s)]
    /\ images' = [images EXCEPT ![s] = TreeOf(s)]
    /\ last' \in NextPids
    /\ safe' = IF Promised(s, safe) THEN safe \cup {s} ELSE safe \ {s}
    /\ foreign' = foreign \ {s}
    /\ resetOver' = IF mem[s] = told[s] THEN resetOver \ {s} ELSE resetOver
    /\ To(s, "dumped") /\ Away(s)
    /\ UNCHANGED <<entry, scratch, checkpoint, others, ours, since, phase, mem, advance, countVars, told>>

\* An exec is active or queued, or no snapshot can be taken here: the runtime
\* is stopped.  So is one whose dump fails, which leaves no images.
DumpsNot(s) ==
    /\ Turn(s) /\ To(s, "dumped") /\ Away(s)
    /\ Trouble /\ images' \in {images, [images EXCEPT ![s] = NoSnapshot]}
    /\ StillPids
    /\ UNCHANGED <<InMemory, entry, scratch, checkpoint, record, mem, told, resetOver>>

Suspends(s) ==
    /\ phase = "stopping" /\ at[s] = "dumped" /\ To(s, "away")
    /\ Marked(s, "suspended")
    /\ \/ entry' = [entry EXCEPT ![s] = record'[s]] /\ UNCHANGED troubles
       \/ Trouble /\ UNCHANGED entry
    /\ StillPids
    /\ UNCHANGED <<InMemory, images, scratch, checkpoint, host, mem, told, resetOver>>

\* Its hosts end as they read the end of their input.
Gone ==
    /\ phase' = "down" /\ advance' = NoAdvance /\ ours' = {}
    /\ at' = [s \in Sessions |-> "away"] /\ host' = [s \in Sessions |-> NoHost]
    /\ record' = [s \in Sessions |-> Unread] /\ mem' = [s \in Sessions |-> 0]
    /\ since' = 0
    /\ safe' = {s \in safe : entry[s].snap # NoSnapshot /\ entry[s].snap = images[s]}
    /\ UNCHANGED <<entry, scratch, checkpoint, foreign, last, others, servers, moves, told, resetOver>>

Stops ==
    /\ phase = "stopping" /\ \A s \in Sessions : at[s] = "away"
    /\ Gone /\ UNCHANGED <<images, troubles>>

\* A directory being dumped into or removed is left as it is.
Underway == {s \in Sessions : (phase = "stopping" /\ at[s] = "live") \/ at[s] \in {"restored", "failed"}}

Killed ==
    /\ phase # "down" /\ Trouble /\ Gone
    /\ images' \in {images} \cup {[images EXCEPT ![s] = Partial] : s \in Underway}

\* The machine restarts, or another bayma is the next to start.
Changes ==
    /\ phase = "down" /\ Trouble /\ foreign' = Sessions
    /\ UNCHANGED <<entry, images, scratch, checkpoint, pidVars, phase, record, at, host, mem, advance, servers, moves, told, resetOver>>

Stop == BeginsStop \/ (\E s \in Sessions : Dumps(s) \/ DumpsNot(s) \/ Suspends(s)) \/ Stops

Done == phase = "down" /\ servers = MaxServers /\ UNCHANGED vars

Next ==
    \/ Start \/ (\E s \in Sessions : Session(s)) \/ advancePastFloor
    \/ Stop \/ Killed \/ Changes \/ OthersMove \/ Done

Spec == Init /\ [][Next]_vars

-----------------------------------------------------------------------------
(* What must hold.                                                         *)

\* A snapshot's restore finds what it needs: until the counter has gone round,
\* no process that started since holds one of its PIDs, whichever sessions
\* started, restored or were dumped meanwhile and in how many servers; and what
\* its processes map is in the session's scratch directory as long as its
\* images are there.
RestoresFindTheirs ==
    phase = "up" => \A s \in Stored : at[s] \in {"away", "recovering"} =>
        /\ s \in safe => record[s].snap.pids \cap Used = {}
        /\ images[s] = record[s].snap => scratch[s]

\* A session that has come back has in its memory all the work its execs told,
\* through stops, kills between a restore and the catalog's next write, failed
\* dumps and restores: no snapshot older than its last exec is restored.
WorkComesBack ==
    \A s \in Sessions : at[s] = "live" /\ s \notin resetOver => mem[s] = told[s]
SessionSymmetry == Permutations(Sessions)
=============================================================================
