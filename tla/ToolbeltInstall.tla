--------------------------- MODULE ToolbeltInstall ---------------------------
(***************************************************************************)
(* The toolbelt's install (runtime/toolbelt.ts): one bayma at a time, under*)
(* a lock the operating system drops as its holder dies, copies the        *)
(* payload's toolbelt beside the toolbelt path and renames it into place.  *)
(*                                                                         *)
(* A server has a process of its own install it, and runs that again as it *)
(* is killed or as a save of the sandbox stops it; `bayma install-toolbelt`*)
(* and `bayma doctor`, perhaps of another version, install it too.  Any of *)
(* them is killed at any step, and a server's process outlives the server. *)
(***************************************************************************)
EXTENDS Naturals, FiniteSets

CONSTANTS
    Procs,        \* the processes that may install at once
    Versions,     \* the versions of bayma there are
    Current,      \* the server's
    None,         \* no process
    MaxCommands,  \* bound: installs other than the server's
    MaxTroubles,  \* bound: kills, failed file operations and removals, servers' deaths
    SaveBound     \* bound: saves of the sandbox

ASSUME InstallBounds ==
    /\ Current \in Versions /\ "none" \notin Versions /\ None \notin Procs
    /\ MaxCommands \in Nat /\ MaxTroubles \in Nat /\ SaveBound \in Nat

VARIABLES
    target,    \* what the toolbelt path holds
    staging,   \* of each name beside it, toolbelt.XXXXXX: what it holds
    replaced,  \* of each name: the toolbelt moved aside, toolbelt.XXXXXX.replaced
    lock,      \* the processes that hold the install lock
    procs,     \* of each process: what it installs and how far it is
    server,    \* the server's install: where its loop is, and its process
    stopped,   \* stop() was called
    marked,    \* sandbox.ts: the server is marked saved
    frozen,    \* the save has what it catches, no files being held open
    commands, troubles, saveCount, \* history: what the bounds count
    causes     \* history: what a server's install may have ended for

diskVars == <<target, staging, replaced>>
loopVars == <<server, stopped, marked, frozen>>
countVars == <<commands, troubles, saveCount>>
installVars == <<diskVars, lock, procs, loopVars, countVars, causes>>

Names == 1..(MaxCommands + MaxTroubles + SaveBound + 1)
Nothing == [version |-> "none", whole |-> FALSE]
Half(v) == [version |-> v, whole |-> FALSE]
Whole(v) == [version |-> v, whole |-> TRUE]
Contents == [version : Versions \cup {"none"}, whole : BOOLEAN]

Installed(v) == target.version = v

Idle == [at |-> "off", version |-> Current, name |-> 0, todo |-> {}, asked |-> FALSE, how |-> "ok"]
Places == {"off", "start", "lock", "clean", "copy", "aside", "in", "tidy"}
Entry == [at : Places, version : Versions, name : Names \cup {0}, todo : SUBSET Names,
          asked : BOOLEAN, how : {"ok", "failed", "term"}]

InstallTypeOK ==
    /\ target \in Contents
    /\ staging \in [Names -> Contents] /\ replaced \in [Names -> Contents]
    /\ lock \subseteq Procs
    /\ procs \in [Procs -> Entry]
    /\ server \in [at : {"wait", "run", "retry", "ended"}, proc : Procs \cup {None}, saved : BOOLEAN]
    /\ stopped \in BOOLEAN /\ marked \in BOOLEAN /\ frozen \in BOOLEAN
    /\ commands \in 0..MaxCommands /\ troubles \in 0..MaxTroubles /\ saveCount \in 0..SaveBound
    /\ causes \subseteq {"installed", "failed", "stopped"}

InstallInit ==
    /\ target \in {Nothing} \cup {Whole(v) : v \in Versions}
    /\ staging = [n \in Names |-> Nothing] /\ replaced = [n \in Names |-> Nothing]
    /\ lock = {} /\ procs = [p \in Procs |-> Idle]
    /\ server = [at |-> "wait", proc |-> None, saved |-> FALSE]
    /\ stopped = FALSE /\ marked = FALSE /\ frozen = FALSE
    /\ commands = 0 /\ troubles = 0 /\ saveCount = 0
    /\ causes = {c \in {"installed"} : Installed(Current)}

Leftovers == {n \in Names : staging[n] # Nothing \/ replaced[n] # Nothing}
Trouble == troubles < MaxTroubles /\ troubles' = troubles + 1
OnlyProcs == UNCHANGED <<loopVars, commands, saveCount>>

-----------------------------------------------------------------------------
(* How a process ends, and what the server makes of its own's end.         *)

\* The install's loop, as its process ends: it installed, or could not be started, and
\* it is over; a save stopped it, or it failed as one came, and it is run again; it
\* failed of itself, or of stop(), and it is over; anything else killed it, and it is
\* run again after a while.
EndsAs(how) ==
    CASE how \notin {"ok", "unstarted"} /\ server.saved -> "wait"
      [] how = "killed" /\ ~stopped             -> "retry"
      [] OTHER                                  -> "ended"

\* The lock outlives the process that died holding it (mutant).
OverHolding(p, how) ==
    /\ procs' = [procs EXCEPT ![p] = Idle]
    /\ lock' = IF how = "killed" THEN lock ELSE lock \ {p}
    /\ IF server.proc = p
       THEN LET ended == IF how = "term" THEN "killed" ELSE how
            IN  /\ server' = [at |-> EndsAs(ended), proc |-> None, saved |-> FALSE]
                /\ causes' = causes \cup {c \in {"failed"} : how \in {"failed", "unstarted"}}
       ELSE UNCHANGED <<server, causes>>
    /\ UNCHANGED <<stopped, marked, frozen, commands, saveCount>>

\* Process p is over: the operating system drops its lock.  One that ends of
\* SIGTERM, having tidied up, ends of a signal too.
Over(p, how) ==
    /\ procs' = [procs EXCEPT ![p] = Idle]
    /\ lock' = lock \ {p}
    /\ IF server.proc = p
       THEN LET ended == IF how = "term" THEN "killed" ELSE how
            IN  /\ server' = [at |-> EndsAs(ended), proc |-> None, saved |-> FALSE]
                /\ causes' = causes \cup {c \in {"failed"} : how \in {"failed", "unstarted"}}
       ELSE UNCHANGED <<server, causes>>
    /\ UNCHANGED <<stopped, marked, frozen, commands, saveCount>>

Sets(p, entry) == procs' = [procs EXCEPT ![p] = entry]

-----------------------------------------------------------------------------
(* installToolbelt, in a process.                                          *)

\* A current toolbelt with nothing beside it is only read; another is locked.
Looks(p) ==
    /\ procs[p].at = "start"
    /\ IF Installed(procs[p].version) /\ Leftovers = {}
       THEN Over(p, "ok")
       ELSE /\ Sets(p, [procs[p] EXCEPT !.at = "lock"])
            /\ UNCHANGED <<lock, causes>> /\ OnlyProcs
    /\ UNCHANGED <<diskVars, troubles>>

\* The lock is not waited for (mutant).
TakesLockAnyhow(p) ==
    /\ procs[p].at = "lock" /\ ~procs[p].asked
    /\ lock' = lock \cup {p}
    /\ Sets(p, [procs[p] EXCEPT !.at = "clean", !.todo = Leftovers])
    /\ UNCHANGED <<diskVars, troubles, causes>> /\ OnlyProcs

\* lockInstalls: once no other holds it.
TakesLock(p) ==
    /\ procs[p].at = "lock" /\ ~procs[p].asked /\ lock = {}
    /\ lock' = {p}
    /\ Sets(p, [procs[p] EXCEPT !.at = "clean", !.todo = Leftovers])
    /\ UNCHANGED <<diskVars, troubles, causes>> /\ OnlyProcs

\* What is left of a dead install is removed, which takes a while, or stays
\* where it cannot be.
Removes(p) ==
    /\ procs[p].at = "clean"
    /\ \E n \in procs[p].todo :
           \/ /\ staging[n].whole \/ replaced[n].whole
              /\ staging' = [staging EXCEPT ![n].whole = FALSE]
              /\ replaced' = [replaced EXCEPT ![n].whole = FALSE]
              /\ UNCHANGED <<procs, troubles>>
           \/ /\ staging' = [staging EXCEPT ![n] = Nothing]
              /\ replaced' = [replaced EXCEPT ![n] = Nothing]
              /\ Sets(p, [procs[p] EXCEPT !.todo = @ \ {n}])
              /\ UNCHANGED troubles
           \/ /\ Trouble
              /\ Sets(p, [procs[p] EXCEPT !.todo = @ \ {n}])
              /\ UNCHANGED <<staging, replaced>>
    /\ UNCHANGED <<target, lock, causes>> /\ OnlyProcs

\* Another installed this version meanwhile: there is nothing to do.
IsInstalled(p) ==
    /\ procs[p].at = "clean" /\ procs[p].todo = {} /\ Installed(procs[p].version)
    /\ Over(p, "ok")
    /\ UNCHANGED <<diskVars, troubles>>

\* stageToolbelt: a directory of a name of its own (mkdtemp), which the copy
\* fills.
Stages(p) ==
    /\ procs[p].at = "clean" /\ procs[p].todo = {} /\ ~Installed(procs[p].version)
    /\ \E n \in Names \ Leftovers :
           /\ \A m \in Names \ Leftovers : n =< m
           /\ Sets(p, [procs[p] EXCEPT !.at = "copy", !.name = n])
           /\ staging' = [staging EXCEPT ![n] = Half(procs[p].version)]
    /\ UNCHANGED <<target, replaced, lock, troubles, causes>> /\ OnlyProcs

\* copyTree done, relocateToolbelt, and the version's file, written last.
Copied(p) ==
    /\ procs[p].at = "copy"
    /\ staging' = [staging EXCEPT ![procs[p].name].whole = TRUE]
    /\ Sets(p, [procs[p] EXCEPT !.at = "aside"])
    /\ UNCHANGED <<target, replaced, lock, troubles, causes>> /\ OnlyProcs

\* SIGTERM aborts the wait for the lock and the copy, which starts no more;
\* an operation fails: what was assembled is removed.
GivesUp(p) ==
    /\ \/ procs[p].at = "copy" /\ procs[p].asked /\ UNCHANGED troubles
       \/ procs[p].at \in {"copy", "aside", "in"} /\ Trouble
    /\ Sets(p, [procs[p] EXCEPT !.at = "tidy", !.how = IF procs[p].asked THEN "term" ELSE "failed"])
    /\ UNCHANGED <<diskVars, lock, causes>> /\ OnlyProcs

\* What comes before fails: the payload's version is not read, the lock is not opened,
\* no directory is made to stage in; or the server cannot start the process at all.
FailsEarly(p) ==
    /\ Trouble
    /\ \/ procs[p].at \in {"start", "lock"} /\ Over(p, "failed")
       \/ procs[p].at = "clean" /\ procs[p].todo = {} /\ Over(p, "failed")
       \/ procs[p].at = "start" /\ server.proc = p /\ Over(p, "unstarted")
    /\ UNCHANGED diskVars

GivesUpWaiting(p) ==
    /\ procs[p].at \in {"start", "lock"} /\ procs[p].asked
    /\ Over(p, "term")
    /\ UNCHANGED <<diskVars, troubles>>

\* Whatever held the path moves aside,
MovesAside(p) ==
    /\ procs[p].at = "aside"
    /\ replaced' = [replaced EXCEPT ![procs[p].name] = target]
    /\ target' = Nothing
    /\ Sets(p, [procs[p] EXCEPT !.at = "in"])
    /\ UNCHANGED <<staging, lock, troubles, causes>> /\ OnlyProcs

\* and the copy is renamed into place.
MovesIn(p) ==
    /\ procs[p].at = "in"
    /\ target' = staging[procs[p].name]
    /\ staging' = [staging EXCEPT ![procs[p].name] = Nothing]
    /\ Sets(p, [procs[p] EXCEPT !.at = "tidy"])
    /\ causes' = causes \cup {c \in {"installed"} : procs[p].version = Current}
    /\ UNCHANGED <<replaced, lock, troubles>> /\ OnlyProcs

\* The `finally`: what is still beside the path is removed, or stays where it
\* cannot be, and the process ends.
Tidies(p) ==
    /\ procs[p].at = "tidy"
    /\ LET n == procs[p].name
       IN  \/ /\ staging' = [staging EXCEPT ![n] = Nothing]
              /\ replaced' = [replaced EXCEPT ![n] = Nothing]
              /\ UNCHANGED troubles
           \/ Trouble /\ UNCHANGED <<staging, replaced>>
    /\ Over(p, procs[p].how)
    /\ UNCHANGED target

\* SIGKILL, at any step: from the kernel, out of memory, or from anyone.
Killed(p) ==
    /\ procs[p].at # "off" /\ Trouble
    /\ Over(p, "killed")
    /\ UNCHANGED diskVars

Starts(p, v) ==
    /\ procs[p].at = "off"
    /\ Sets(p, [Idle EXCEPT !.at = "start", !.version = v])

\* `bayma install-toolbelt`, `bayma doctor`, or another server's install.
CommandStarts(p) ==
    /\ \E v \in Versions : Starts(p, v)
    /\ commands < MaxCommands /\ commands' = commands + 1
    /\ UNCHANGED <<diskVars, lock, loopVars, troubles, saveCount, causes>>

-----------------------------------------------------------------------------
(* startToolbeltInstall, in the server.                                    *)

\* run: once the server is not saved (holdingFiles).
Runs(p) ==
    /\ server.at = "wait" /\ ~marked /\ ~stopped
    /\ Starts(p, Current)
    /\ server' = [at |-> "run", proc |-> p, saved |-> FALSE]
    /\ UNCHANGED <<diskVars, lock, stopped, marked, frozen, countVars, causes>>

RunsNone ==
    /\ server.at = "wait" /\ ~marked /\ stopped
    /\ server' = [server EXCEPT !.at = "ended"]
    /\ UNCHANGED <<diskVars, lock, procs, stopped, marked, frozen, countVars, causes>>

\* It waited long enough, of the time the server runs.
Retries ==
    /\ server.at = "retry" /\ ~marked
    /\ server' = [server EXCEPT !.at = "wait"]
    /\ UNCHANGED <<diskVars, lock, procs, stopped, marked, frozen, countVars, causes>>

\* stop: the process is told to stop, and nothing is waited for any more.
StopsInstall ==
    /\ ~stopped /\ stopped' = TRUE
    /\ IF server.at = "run"
       THEN Sets(server.proc, [procs[server.proc] EXCEPT !.asked = TRUE])
       ELSE UNCHANGED procs
    /\ server' = [server EXCEPT !.at = IF @ = "retry" THEN "wait" ELSE @]
    /\ causes' = causes \cup {"stopped"}
    /\ UNCHANGED <<diskVars, lock, marked, frozen, countVars>>

\* A save kills it, saying so, and waits until it is gone,
Saves ==
    /\ ~marked /\ saveCount < SaveBound
    /\ marked' = TRUE /\ saveCount' = saveCount + 1
    /\ server' = [server EXCEPT !.saved = (server.at = "run")]
    /\ UNCHANGED <<diskVars, lock, procs, stopped, frozen, commands, troubles, causes>>

DiesOfSave ==
    /\ server.saved /\ server.proc # None
    /\ Over(server.proc, "killed")
    /\ UNCHANGED <<diskVars, troubles>>

\* filesClosed, then what the save catches,
Catches ==
    /\ marked /\ ~frozen /\ server.at # "run"
    /\ frozen' = TRUE
    /\ UNCHANGED <<diskVars, lock, procs, server, stopped, marked, countVars, causes>>

\* and the server runs on.
RunsOn ==
    /\ frozen /\ marked' = FALSE /\ frozen' = FALSE
    /\ UNCHANGED <<diskVars, lock, procs, server, stopped, countVars, causes>>

\* The server dies, and is started again; what installs for it goes on.
ServerDies ==
    /\ Trouble
    /\ server' = [at |-> "wait", proc |-> None, saved |-> FALSE]
    /\ stopped' = FALSE /\ marked' = FALSE /\ frozen' = FALSE
    /\ causes' = {c \in {"installed"} : Installed(Current)}
    /\ UNCHANGED <<diskVars, lock, procs, commands, saveCount>>

-----------------------------------------------------------------------------
Works(p) ==
    \/ Looks(p) \/ TakesLock(p) \/ Removes(p) \/ IsInstalled(p) \/ Stages(p) \/ Copied(p)
    \/ GivesUp(p) \/ GivesUpWaiting(p) \/ MovesAside(p) \/ MovesIn(p) \/ Tidies(p)

ServerWorks ==
    \/ \E p \in Procs : Runs(p)
    \/ RunsNone \/ Retries \/ DiesOfSave \/ Catches \/ RunsOn

InstallNext ==
    \/ \E p \in Procs : Works(p) \/ FailsEarly(p) \/ Killed(p) \/ CommandStarts(p)
    \/ ServerWorks \/ StopsInstall \/ Saves \/ ServerDies

InstallSpec ==
    /\ InstallInit /\ [][InstallNext]_installVars
    /\ \A p \in Procs : WF_installVars(Works(p))
    /\ WF_installVars(ServerWorks)

-----------------------------------------------------------------------------
\* Whoever reads the toolbelt path sees a whole toolbelt or none, whichever
\* installs run, die and are removed by others meanwhile.
TargetIsWhole == target = Nothing \/ target.whole

\* What the server's install caught in a save holds no file open: its process
\* is gone before, and none is started until the server runs on.
NoneIsCaught == frozen => server.proc = None

\* The server's install ends only as the toolbelt was installed, as it failed
\* of itself or as the server stopped it: a save or a kill begins it again.
EndsForCause == server.at = "ended" => causes # {}

\* The server's install ends, and stop() with it.
InstallEnds == []<>(server.at = "ended")

=============================================================================
