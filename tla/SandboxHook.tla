----------------------------- MODULE SandboxHook -----------------------------
(***************************************************************************)
(* The sandbox hook of a server (mcp/sandbox-hook.ts), what is saved and   *)
(* resumed (sandbox.ts), and the stop a SIGTERM begins, held for a save    *)
(* (mcp/held-stop.ts).                                                     *)
(*                                                                         *)
(* The host asks the hook to save, restore, resume or stop; the hook does  *)
(* one at a time, in the order they came.  A save's expiry, ten minutes of *)
(* running time later, is queued with them.  Work that holds files open    *)
(* (a toolbelt install) comes and goes beside it, SIGTERM comes at any     *)
(* time, and a copy of the sandbox may run on and move the state directory *)
(* on while this one is saved.                                             *)
(***************************************************************************)
EXTENDS Naturals, Sequences, FiniteSets

CONSTANTS
    Expiry,       \* ticks of running time after which a save is given up on
    MaxSaves,     \* bound: saves the host asks for
    MaxRequests,  \* bound: requests of any mode
    MaxSigterms,  \* bound: SIGTERMs
    MaxHolding    \* bound: pieces of work that hold files open at once

ASSUME BoundAssumption ==
    /\ Expiry \in Nat \ {0} /\ MaxSaves \in Nat /\ MaxRequests \in Nat
    /\ MaxSigterms \in Nat /\ MaxHolding \in Nat

VARIABLES
    saved,     \* sandbox.ts: the server is marked saved
    holding,   \* sandbox.ts: pieces of work that hold files open
    queue,     \* the hook's requests, and expiries, not yet handled
    phase,     \* how far the save at the queue's head is
    savedAt,   \* savedAtMs is defined
    saves,     \* saves made
    ages,      \* of each save with a running expiry: its ticks so far
    outlived,  \* the server was restored from a save the directory outlived
    stopAsked, \* `stop` was asked while the server was saved
    waits,     \* HeldStop.waitMs > 0
    held,      \* HeldStop.held
    timer,     \* HeldStop.timer is set
    armed,     \* armedUntil is set and not past
    refusing,  \* the sessions refuse what is new (holdStop, releaseStop)
    stopping,  \* the server's stop went on
    current,   \* the generation on the disk is still this server's
    asked,     \* history: requests so far
    sigterms,  \* history: SIGTERMs so far
    termed,    \* history: a SIGTERM came since the server was last restored
    age        \* history: running time since the last save was made

sandboxVars == <<saved, holding>>
hookVars == <<queue, phase, savedAt, saves, ages, outlived, stopAsked>>
stopVars == <<waits, held, timer, armed, refusing, stopping>>
historyVars == <<asked, sigterms, termed, age>>
vars == <<sandboxVars, hookVars, stopVars, current, historyVars>>

Modes == {"save", "restore", "resume", "stop"}
Request == [mode : Modes] \cup [mode : {"expire"}, save : Nat]
Phases == {"none", "closing", "saving"}

TypeOK ==
    /\ saved \in BOOLEAN /\ holding \in Nat
    /\ queue \in Seq(Request) /\ phase \in Phases
    /\ savedAt \in BOOLEAN /\ saves \in Nat
    /\ DOMAIN ages \subseteq Nat /\ \A n \in DOMAIN ages : ages[n] \in 0..Expiry
    /\ outlived \in BOOLEAN /\ stopAsked \in BOOLEAN
    /\ waits \in BOOLEAN /\ held \in BOOLEAN /\ timer \in BOOLEAN /\ armed \in BOOLEAN
    /\ refusing \in BOOLEAN /\ stopping \in BOOLEAN /\ current \in BOOLEAN
    /\ asked \in Nat /\ sigterms \in Nat /\ termed \in BOOLEAN /\ age \in 0..Expiry

NoAges == [n \in {} |-> 0]

Init ==
    /\ saved = FALSE /\ holding = 0
    /\ queue = <<>> /\ phase = "none" /\ savedAt = FALSE /\ saves = 0
    /\ ages = NoAges /\ outlived = FALSE /\ stopAsked = FALSE
    /\ waits \in BOOLEAN /\ held = FALSE /\ timer = FALSE /\ armed = FALSE
    /\ refusing = FALSE /\ stopping = FALSE
    /\ current = TRUE
    /\ asked = 0 /\ sigterms = 0 /\ termed = FALSE /\ age = 0

-----------------------------------------------------------------------------
(* Work that holds files open.                                             *)

\* Work that starts though the server is saved (mutant).
WorkStartsAnyhow ==
    /\ holding < MaxHolding
    /\ holding' = holding + 1
    /\ UNCHANGED <<saved, hookVars, stopVars, current, historyVars>>

\* holdingFiles: none starts while the server is saved.
WorkStarts ==
    /\ ~saved /\ holding < MaxHolding /\ ~stopping
    /\ holding' = holding + 1
    /\ UNCHANGED <<saved, hookVars, stopVars, current, historyVars>>

\* It ends, of itself or as the save stopped it.
WorkEnds ==
    /\ holding > 0
    /\ holding' = holding - 1
    /\ UNCHANGED <<saved, hookVars, stopVars, current, historyVars>>

-----------------------------------------------------------------------------
(* The held stop.                                                          *)

\* begin: SIGTERM is held where the server waits for a save, once; one that
\* `stop` asked for before, or that waits for none, goes on at once.
Sigterm ==
    /\ sigterms < MaxSigterms /\ ~stopping
    /\ sigterms' = sigterms + 1 /\ termed' = TRUE
    /\ \/ /\ held
          /\ UNCHANGED <<held, timer, armed, refusing, stopping>>
       \/ /\ ~held /\ (armed \/ ~waits)
          /\ armed' = FALSE /\ stopping' = TRUE
          /\ UNCHANGED <<held, timer, refusing>>
       \/ /\ ~held /\ ~armed /\ waits
          /\ held' = TRUE /\ refusing' = TRUE /\ timer' = TRUE
          /\ UNCHANGED <<armed, stopping>>
    /\ UNCHANGED <<waits, sandboxVars, hookVars, current, asked, age>>

\* waited, which leaves a stop held with no save under way (mutant).
WaitForgets ==
    /\ timer /\ timer' = FALSE
    /\ UNCHANGED <<waits, held, armed, refusing, stopping, sandboxVars, hookVars, current,
                   historyVars>>

\* waited: the wait's end goes on with the stop, unless a save is under way.
WaitEnds ==
    /\ timer /\ timer' = FALSE
    /\ held' = (held /\ saved)
    /\ stopping' = (stopping \/ (held /\ ~saved))
    /\ UNCHANGED <<waits, armed, refusing, sandboxVars, hookVars, current, historyVars>>

\* armedUntil passes.
ArmedLapses ==
    /\ armed /\ armed' = FALSE
    /\ UNCHANGED <<waits, held, timer, refusing, stopping, sandboxVars, hookVars,
                   current, historyVars>>

\* goOn, of the hook's stop.
GoOn ==
    IF held
    THEN /\ held' = FALSE /\ timer' = FALSE /\ stopping' = TRUE
         /\ UNCHANGED <<armed, refusing>>
    ELSE /\ armed' = waits
         /\ UNCHANGED <<held, timer, refusing, stopping>>

\* restored: the stop held was the old pod's.
StopRestored ==
    /\ armed' = FALSE /\ held' = FALSE
    /\ timer' = (timer /\ ~held)
    /\ refusing' = (refusing /\ ~held)
    /\ UNCHANGED stopping

\* resumed, then goOn for a stop asked meanwhile, which no stop is held for.
StopResumed ==
    /\ held' = FALSE
    /\ timer' = (timer /\ ~held)
    /\ stopping' = (stopping \/ held)
    /\ armed' = (stopAsked /\ waits)
    /\ UNCHANGED refusing

-----------------------------------------------------------------------------
(* The hook.                                                               *)

\* resume: no longer saved, and every expiry that waits for it is off.
Resumes == saved' = FALSE /\ savedAt' = FALSE /\ ages' = NoAges

RunOn == Resumes /\ StopResumed /\ stopAsked' = FALSE

\* A request reaches the hook's queue.
Ask(mode) ==
    /\ asked < MaxRequests /\ ~stopping
    /\ mode = "save" => saves + Cardinality({i \in DOMAIN queue : queue[i].mode = "save"})
                          < MaxSaves
    /\ asked' = asked + 1
    /\ queue' = Append(queue, [mode |-> mode])
    /\ UNCHANGED <<phase, savedAt, saves, ages, outlived, stopAsked, sandboxVars,
                   stopVars, current, sigterms, termed, age>>

Handles(mode) == queue # <<>> /\ Head(queue).mode = mode

\* save: the server is marked saved, and the work that holds files is stopped.
SaveBegins ==
    /\ Handles("save") /\ phase = "none"
    /\ phase' = "closing" /\ saved' = TRUE
    /\ UNCHANGED <<holding, queue, savedAt, saves, ages, outlived, stopAsked, stopVars,
                   current, historyVars>>

\* filesClosed.
FilesClosed ==
    /\ phase = "closing" /\ holding = 0
    /\ phase' = "saving"
    /\ UNCHANGED <<queue, savedAt, saves, ages, outlived, stopAsked, sandboxVars, stopVars,
                   current, historyVars>>

\* What it caught is said, and the save's expiry runs.
Saved ==
    /\ phase = "saving" /\ current
    /\ phase' = "none" /\ queue' = Tail(queue)
    /\ savedAt' = TRUE /\ saves' = saves + 1 /\ age' = 0
    /\ ages' = [n \in DOMAIN ages \cup {saves + 1} |-> IF n = saves + 1 THEN 0 ELSE ages[n]]
    /\ UNCHANGED <<outlived, stopAsked, sandboxVars, stopVars, current,
                   asked, sigterms, termed>>

\* The save fails: stale, or as the disk or the collection of garbage does.
SaveFailed ==
    /\ phase = "saving"
    /\ phase' = "none" /\ queue' = Tail(queue)
    /\ RunOn
    /\ UNCHANGED <<holding, saves, outlived, waits, current, historyVars>>

\* restore of a server that was not saved is refused.
RestoreRefused ==
    /\ Handles("restore") /\ ~savedAt
    /\ queue' = Tail(queue)
    /\ UNCHANGED <<phase, savedAt, saves, ages, outlived, stopAsked, sandboxVars,
                   stopVars, current, historyVars>>

\* The directory moved on since the save: the server stays saved.
RestoreOutlived ==
    /\ Handles("restore") /\ savedAt /\ ~current
    /\ queue' = Tail(queue) /\ outlived' = TRUE
    /\ UNCHANGED <<phase, savedAt, saves, ages, stopAsked, sandboxVars, stopVars, current,
                   historyVars>>

\* The server runs on as the restored one, whatever else of it fails.
Restored ==
    /\ Handles("restore") /\ savedAt /\ current
    /\ queue' = Tail(queue)
    /\ Resumes /\ StopRestored /\ stopAsked' = FALSE /\ termed' = FALSE
    /\ UNCHANGED <<phase, saves, outlived, holding, waits, current, asked, sigterms, age>>

Resumed ==
    /\ Handles("resume") /\ phase = "none"
    /\ queue' = Tail(queue)
    /\ RunOn
    /\ UNCHANGED <<phase, saves, outlived, holding, waits, current, historyVars>>

\* stop: saved, the server waits to run on.
Stop ==
    /\ Handles("stop")
    /\ queue' = Tail(queue)
    /\ IF savedAt
       THEN stopAsked' = TRUE /\ UNCHANGED <<held, timer, armed, refusing, stopping>>
       ELSE GoOn /\ UNCHANGED stopAsked
    /\ UNCHANGED <<phase, savedAt, saves, ages, outlived, waits, sandboxVars, current,
                   historyVars>>

\* An expiry that takes its save for the one before (mutant).
ExpiredOffByOne ==
    /\ Handles("expire")
    /\ queue' = Tail(queue)
    /\ IF savedAt /\ saves + 1 = Head(queue).save /\ ~outlived THEN RunOn
       ELSE UNCHANGED <<saved, savedAt, ages, stopAsked, held, timer, armed, refusing,
                        stopping>>
    /\ UNCHANGED <<phase, saves, outlived, holding, waits, current, historyVars>>

\* A save neither restored nor resumed is given up on, unless the server was
\* saved again since or stays saved.
Expired ==
    /\ Handles("expire")
    /\ queue' = Tail(queue)
    /\ IF savedAt /\ saves = Head(queue).save /\ ~outlived THEN RunOn
       ELSE UNCHANGED <<saved, savedAt, ages, stopAsked, held, timer, armed, refusing,
                        stopping>>
    /\ UNCHANGED <<phase, saves, outlived, holding, waits, current, historyVars>>

\* resumesWithin counts the time the server runs while it is saved.
Tick ==
    /\ DOMAIN ages # {} /\ \A n \in DOMAIN ages : ages[n] < Expiry
    /\ ages' = [n \in DOMAIN ages |-> ages[n] + 1]
    /\ age' = IF age < Expiry THEN age + 1 ELSE age
    /\ UNCHANGED <<queue, phase, savedAt, saves, outlived, stopAsked, sandboxVars, stopVars,
                   current, asked, sigterms, termed>>

ExpiryQueued(n) ==
    /\ n \in DOMAIN ages /\ ages[n] = Expiry
    /\ ages' = [m \in DOMAIN ages \ {n} |-> ages[m]]
    /\ queue' = Append(queue, [mode |-> "expire", save |-> n])
    /\ UNCHANGED <<phase, savedAt, saves, outlived, stopAsked, sandboxVars, stopVars,
                   current, historyVars>>

\* A copy of the sandbox, saved live, runs on and moves the directory on.
DirectoryMovesOn ==
    /\ savedAt /\ current
    /\ current' = FALSE
    /\ UNCHANGED <<sandboxVars, hookVars, stopVars, historyVars>>

-----------------------------------------------------------------------------
HookStep ==
    \/ SaveBegins \/ FilesClosed \/ Saved \/ SaveFailed
    \/ RestoreRefused \/ RestoreOutlived \/ Restored
    \/ Resumed \/ Stop \/ Expired
    \/ \E n \in 1..MaxSaves : ExpiryQueued(n)

Next ==
    \/ WorkStarts \/ WorkEnds
    \/ Sigterm \/ WaitEnds \/ ArmedLapses
    \/ \E mode \in Modes : Ask(mode)
    \/ HookStep \/ Tick
    \/ DirectoryMovesOn

\* The event loop takes what is queued and the timers that are due, time passes,
\* and work that holds files ends: the install ends, or a save kills it.  The
\* host and SIGTERM owe nothing.
Fairness == WF_vars(HookStep) /\ WF_vars(Tick) /\ WF_vars(WaitEnds) /\ WF_vars(WorkEnds)

Spec == Init /\ [][Next]_vars /\ Fairness

-----------------------------------------------------------------------------
(* Properties.                                                             *)

\* No file is held open by work that would move on with it while the server is
\* saved (sandbox.ts:46-52): from a save's answer until the server runs on.
NoFileOpenWhileSaved == savedAt => saved /\ holding = 0

\* A held stop is never forgotten: it has its wait's timer, or a save whose
\* outcome decides it (held-stop.ts:129).
HeldStopIsDecided == held => timer \/ saved

\* The sessions refuse what is new only while a stop is held or goes on.
RefusesForAStop == refusing => held \/ stopping

\* A stop goes on only for a SIGTERM this pod was sent: none held, asked or armed
\* in the pod the sandbox was saved in stops the one it was restored in.
StopIsThisPods == [][stopping' /\ ~stopping => termed']_vars

\* A save is given up on only once its own ten minutes of running time passed,
\* whatever expiries of earlier saves come in meanwhile.
EachSaveItsWholeWait ==
    [][(phase = "none" /\ Handles("expire") /\ queue' = Tail(queue) /\ savedAt /\ ~savedAt')
         => age = Expiry]_vars

\* A saved server runs on in the end, if only as its save expires, unless the
\* save it was restored from is outlived.
SavedRunsOn == saved ~> (~saved \/ outlived)

\* A held stop goes on, or is let go, unless the server stays saved.
HeldStopEnds == held ~> (~held \/ outlived)

-----------------------------------------------------------------------------
(* The inductive invariant, part by part.                                  *)

\* A save under way is at the queue's head, of a server marked saved.
SaveIsAtHead == phase # "none" => saved /\ queue # <<>> /\ Head(queue).mode = "save"

\* Past filesClosed nothing holds a file, as nothing starts that would.
FilesStayClosed == savedAt \/ phase = "saving" => saved /\ holding = 0

\* A stop that is held was asked of this pod, and is decided.
HeldIsThisPods == held => termed /\ (timer \/ saved)

\* The last save's age is counted until its expiry is queued, and the expiries
\* before it are of earlier saves.
ExpiriesAreTheirs ==
    /\ \A n \in DOMAIN ages : n <= saves
    /\ saves \in DOMAIN ages => ages[saves] = age
    /\ \A i \in 1..Len(queue) :
         queue[i].mode = "expire" =>
           /\ queue[i].save <= saves
           /\ queue[i].save = saves => age = Expiry

HookInv ==
    /\ TypeOK /\ SaveIsAtHead /\ FilesStayClosed /\ HeldIsThisPods /\ RefusesForAStop
    /\ ExpiriesAreTheirs
=============================================================================
