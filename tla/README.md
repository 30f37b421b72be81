# Bayma, specified

Bayma runs REPL sessions for clients of the Model Context Protocol: each
session is a host process of one language's runtime, its execs are queued and
run one at a time, its state outlives its runtime as a checkpoint or a process
snapshot, and the whole server may be saved with its sandbox and restored, more
than once, by the host it runs on. This directory holds TLA+ modules of the
parts whose correctness depends on what comes in what order, TLC runs of them,
and TLAPS proofs about them. `PROJECT.json` lists components, runs, the source
lines of each definition, the mutants each property is tried on, hazards and
theorems.

Paths below are relative to `src/packages/core/src` unless they begin with
`src/`; `SM` is `session/session-manager.ts`.

## The system

| component | source | state it keeps | operations | interacts with |
|---|---|---|---|---|
| Session manager, one session | SM | `SessionEntry`: record (status, checkpoint revision, runtime generation), history, live runtime (queue, active exec), `mutationTail` | submit, reset, interrupt, close, drain loop, launch, recycle, quarantine, containment, memory kill | transport (awaited calls, exit listener), stores (synchronous writes), actors (events) |
| Session manager, the sessions | SM, `session/retention-policy.ts` | map of sessions, admission tail, controllers and observers, refusing and stopping flags | create, make room, evict, claim, release, hold a stop, shut down | every session; the held stop |
| State generation | `session/state-generation.ts` | value, stale, and `generation.json`, `last-save.json` | openAfresh, open, assertCurrent, bump, sandbox save and restore | every persist and every event told; the sandbox hook |
| Sandbox hook | `mcp/sandbox-hook.ts`, `sandbox.ts` | request queue, savedAt, saves, outlived, expiry timers | save, restore, resume, stop | state generation, held stop, whatever holds files open |
| Held stop | `mcp/held-stop.ts` | held, timer, armed | begin, restored, resumed, goOn, waited | SIGTERM, the hook, the sessions |
| Checkpoint store | `session/checkpoint-store.ts` | per session: manifest, payload files, a legacy file | write, writeCommit, inspect, snapshot, remove | the manager's end of exec, recovery, load |
| Catalog and exec history stores | `session/catalog-store.ts`, `session/exec-history-store.ts` | one file per session each, held to a schema | write, read, remove | persist, load, removal |
| Process transport | `runtime/process-transport.ts` | per runtime: process, waiters, output buffer, exit state | start, write, wait for a prompt, probe, interrupt, terminate, snapshot, restore | the manager; the runtime's process |
| Exec protocol | `runtime/exec-markers.ts`, `runtime/adapter.ts`, `src/packages/runtime-*` | the line not ended, envelopes found; the host's checkpoint | spec, envelopes, prompt, interrupt | the transport's chunks, the exec's capture |
| Output capture, event log, exec snapshot | `session/exec-capture.ts`, `runtime/output-capture.ts`, `session/event-log.ts`, `mcp/exec-snapshot.ts`, `mcp/truncate.ts` | bounded records and logs | append, cut, read after a cursor | the exec's chunks, the tools that wait |
| Process snapshots | `runtime/process-snapshots.ts` | images on the disk, the namespace's PID counter | reserve, dump, restore, remove | start, recovery, shutdown |
| Toolbelt | `runtime/toolbelt.ts` | a directory of tools, a lock, an install under way | install, retry, stop | holding files (`sandbox.ts`), saves |
| HTTP server and MCP application | `mcp/http.ts`, `mcp/events.ts`, `mcp/application.ts`, `mcp/tools.ts`, `mcp/resources.ts` | client sessions, their responses and timers, pending updates | requests, pings, idle timeouts, publish, stop | the manager's events and leases, saves |
| State directory lease | `runtime/state-directory-lease.ts` | an SQLite lock | acquire, release | server start |
| CLI, telemetry, doctor, packaging | `cli.ts`, `src/packages/cli`, `telemetry/` | none that matters here | | |

### What is hard in it

* **Awaits.** JavaScript runs one turn at a time, so the races are between an
  `await` and its resumption. The operations of a session hold its lock; the
  drain loops, the runtime's exit, a memory kill's recovery and the terminations
  behind a quarantine do not. Each resumes with records another may have
  replaced.
* **Several files per change.** A persist moves the generation, writes the
  history and then the catalog; a commit writes a payload, a manifest, removes
  what is obsolete and only then persists. Any may fail, the server may die
  between any two, and clients were told of some of it.
* **Saves.** The host freezes the server between any two instructions, may let
  it run on, and may start the frozen copy later, when the state directory is
  further on; a copy that runs must write and tell nothing then.
* **Processes.** A runtime prints, exits, forks and is killed at any moment, its
  output comes in chunks cut anywhere, and a process it leaves behind may hold
  its stdio for good.
* **A PID namespace that goes round.** A snapshot is restored at the PIDs it was
  dumped with, in a later server, while other processes take PIDs too.
* **Timers beside requests.** A save's expiry, a held stop's wait, a ping's
  answer, an idle timeout and a prompt's deadline all race what they wait for.

### What makes each part correct

* one session: execs run one at a time and in order, every exec and every
  operation ends, what was told is on the disk, a closed session stays closed, a
  quarantined one quarantined, and no host is left unowned;
* the sessions: no more are live than allowed, an eviction takes only an idle
  one, a live client keeps its sessions, a stop waits for what was admitted
  before it and ends;
* state generation: a save that may be restored misses nothing persisted or
  told; a copy that was outlived overwrites nothing and tells nothing;
* hook and held stop: no file is held open in a save, each save waits its whole
  time, a stop belongs to the pod that was sent the SIGTERM, and both end;
* checkpoint store: what is found after a crash validates, is what the catalog
  names or newer, and holds all that was told; a lost or damaged checkpoint is
  never taken for none;
* records: the stores' schemas take what the manager writes, and what ended is
  never changed;
* transport: one runtime at a time, each end told once and after its output, and
  nobody left waiting;
* exec protocol: what a cell wrote is what its record holds, what it left is what
  is committed, and an exec ends at the prompt and only there;
* snapshots: a restore finds its PIDs and its files, and no session comes back
  from one that is older than what it told;
* toolbelt: the path shows a whole toolbelt or none, and an install ends;
* HTTP server: a client that answers is not closed, an idle one is idle, and the
  last change of a resource is told.

## The modules

Each module follows the code of one component: a variable per piece of state, an
action per turn of it. `PROJECT.json` has, for each definition, the lines it
stands for. The larger ones have their proofs in a module of their own
(`...Proofs`); those of StateGeneration, SandboxHook and ToolbeltInstall, which
meet in a save, share `SavesProofs`, which is why StateGeneration's and
ToolbeltInstall's definitions carry names of their own (`GenerationSpec`,
`InstallSpec`, ...).

### StateGeneration

The generation's file, the server (down, running, saved), the images the host
holds, and the changes of state each of them has. A change is a number; what
the server remembers, what is stored and what was told are sets of changes. A
turn of the event loop is `Change` (memory), `AssertCurrent`, `Write` (the file
is written in place, so a failure leaves the old count, the new one or an
unreadable file: `WriteFails`), `Persist`, `Tell`. `Freeze`, `Kill` and `Thaw`
are the host's and may come between any two. `Save` and `Restore` are
`sandboxSaving` and `assertSandboxRestorable` with `sandboxRestored`.
`Start` is `openAfresh` with the bump after it. A file that cannot be read is
written anew at a random number, so a generation is a `draw` and how far it was
counted on: draws are named by when they were drawn, as the later of two may be
the lower number, and generations are compared for equality alone, as the code
does. What is left out is that two draws of 2^47 lie as near as servers count.
`last` is the history of what was written last, and `\preceq`, which only the
invariant uses, says which of two was written first.

### SandboxHook

One action per mode of the hook and per outcome of it, a queue of requests and
expiries in the order they came, `sandbox.ts`'s marking and `holdingFiles`, and
HeldStop's five methods. `Tick` is running time, by which `resumesWithin`
counts. `DirectoryMovesOn` stands for a copy of the sandbox that ran on (what
StateGeneration models in full); a stale server's save fails for certain.

### SessionLifecycle

One session. A step is a turn: from one await to the next, with all the
synchronous calls made in it. `session` is the entry, `op` the operation that
holds the lock and the await it is at, `tail` those that wait, `loops` the drain
loops under way, each at its await, `ending` the terminations behind a
containment, `disk` the catalog entry and the history. `Settled` says that what
an awaited promise resumes runs before an outside event does. `Persist` has
three outcomes: all written, the generation did not move (nothing is told), or
the history written and the catalog not. `detached` names the execs whose record
the history replaced while a loop still holds the old one, which is what
`failExecStartup` meets. `Restart` is a crash and the catalog's load. A launch
looks at its session once more as it subscribes to its runtime (`Launched`); a
recycle may await the removal of the files the host before it left after that
(`Clears`, `Cleared`), while the runtime may exit and the loops go on.

### SessionAdmission

The sessions together. `sessions` is the manager's map, with of each entry what
the others can tell: its status, whether it has a runtime, how much is queued,
its controller. `line` is the admission lock and `tail` each session's: a queue
whose head holds it. `calls` are the calls under way, each at a place: waiting
for the admission lock (`line`), for its session's (`lock`), counting the live
sessions (`room`), waiting for a victim's lock (`evict`), or for a host to end
or start (`ending`, `stopping`, `starting`, `prompting`: from `starting` to
`prompting` a session that is started again has no runtime), or for a reconnect
window (`window`). A call's locks are freed by `Release` however it ends.
`Restarts` are the two calls nobody makes: a host over its memory budget, found
as an exec ends, and one the kernel killed. `actors` says which clients are
live, away or gone, and `stop` where `performShutdown` is. `saved` says that the
server is saved: no exec starts and no host is started again for its memory
meanwhile, a drain loop that finds it so waits (`waits` of its session), and so does
the recycle of a host the kernel killed (`saved` as a place); `RunsOn` wakes them,
in a session that is as they left it or not. Saves are as many as the host makes.
Init has a session a client runs an exec in, or one that is suspended: an exec that
runs for a controller that is gone comes in a step. Room is made before
`ensureRuntime` looks at the status, so a submission to a quarantined session may
evict another for nothing (`HasNoRecovery`); so the code has it.

### CheckpointStore

The session seen from its files: the manifest, the payload files, the legacy
file, the catalog entry and the history, each written by an action of its own,
so that the server may die, a write may fail or something outside may damage or
remove the checkpoint between any two. `step` is how far the server's turn is
and `then` what the persist under way is of. A revision is the number of the
exec that committed it. `Inspected` is `inspect`, `Compatible` is
`compatibleCheckpoint`, `LoadedStatus` is `normalizeCatalogEntry`. Every file is
replaced by a rename and read whole or not at all; temporary names are read by
nobody and are left out.

### SessionRecords

The fields of the session's record and of each exec's, as every turn that
persists leaves them (`mem`), and the two schemas, which hold each write to what
they demand: times in order, an end with its time, a reason where there is
quarantine, a revision with its time. The clock says any time at any reading
(`Clock`), as it may be set between any two; 0 is no time. Each operation of the
manager that changes a record is an action, `Written` is the persist, and
`refused` says which write a schema turned down. After a late failure
(`spoiled`) the server's history is refused for good, and the module follows it
no further.

### RuntimeSlot and ProcessTransport

`RuntimeSlot` is what a session relies on: its runtimes come one after another,
each is forgotten only once it ended, and is told of at most once.
`ProcessTransport` implements it under the names of its own variables (`entry`
as `current`; `SlotSpec` is a property of its run and a theorem).

`entry` is `sessions.get(sessionId)`, `broker` the `BrokerState` of each runtime
ever launched (terminations keep old ones alive beside a new one), `proc` and
`pipe` the external process and what it wrote that is not read. Each caller is
in one operation at one of its awaits (`call`): `Start`, `Launch`, `Prepared`,
`Advanced` (the PID floor, which starts share), `Subscribe`, the writes (`Sends`,
the delay between lines, the drain of a full pipe), `AwaitPrompt`, `Probe`,
`Interrupt` in its three strategies, `Terminate` with its grace and its force,
`Snapshot`, `Restore`, `CollectGarbage`. The server's events are `Read`, `Exit`,
`Close`, `Drain` (the intervals for which an exited runtime's stdio is still
read, as a process it left behind may hold it) and `Notify`. A process prints,
forks, reads, stops and dies as it likes. A run takes three kinds of runtime, for
the three strategies: bun (Ctrl-C, with a delay between lines and a probe),
python (a signal), go (no interrupt but starting again).

### ExecProtocol

One session's execs against one host of the four kinds of language whose hosts
differ in the protocol: python, bun, dotnet, cpp (go's, lean's and rust's speak as
one of these). `stdin` holds the spec, `pipe` what the host wrote, as atoms: a
piece of a cell's output, an envelope's prefix, its rest, the prompt. A chunk is
any front of the pipe, so that an envelope may be cut, and a line of which more
than `MaxTail` atoms came without an end is cut too. `lines` is the collector of
`exec-markers.ts`, `capture` and `record` what the session makes of it, `intr` an
interrupt under way, `store` the checkpoint committed last, `held` an exec's end
that a save of the server holds back. Histories `said`, `left` and `ended` are
what the host wrote, what the cell left as its checkpoint, and how its end came.
Its Init, Next and bounds have names of their own (`ProtocolInit`, `Cells`), so that
`CommitProofs` extends it and CheckpointStore at once.

### OutputText and ExecOutput

A text is its length and where its characters begin and end, which is all that
cutting looks at. `OutputText` has the cuts (`boundRuntimeText`, `truncate.ts`,
dotnet's `BoundText`). `ExecOutput` has the capture with its limits, notice and
images, the outcomes of checkpoints whose refusals pass all of them (`Outcome`), the session's log with its two bounds, the snapshot with its shares of a
budget (`allocateChannelBytes`), and a client that reads from a number on until a
snapshot says the exec is done.

### ProcessSnapshots

A PID namespace whose counter goes round at `PidMax`: `last`, `others` and `ours`
are the PIDs of it, and any process may take some (`Jumps`). On the disk are each
session's catalog entry, its images, its scratch files and its checkpoint;
`foreign` says the machine or bayma changed. A server starts (`record` is what it
read), moves the counter past what its snapshots need (`advance`), restores or
falls back, runs execs, dumps what idles as it stops, or is killed at any step.
`told` is the history of the work each session's execs told of, `safe` the
sessions whose PIDs the design promises to keep: not one whose tree straddles the
counter's turn, or is rooted at or below the floor, and not one when so much was
taken that the counter is beyond the budget.

### ToolbeltInstall

`target` is the toolbelt path, `staging` and `replaced` the names beside it, `lock`
a flock that dies with its holder. A process copies, moves the old toolbelt
aside, moves the new one in and tidies (`Works`); any file operation may fail,
those before the copy too (`FailsEarly`), and a process may be killed at any step.
The server's loop (`server`, `ServerWorks`)
starts a process, again when a save or a kill ended it, until it installed,
failed or was stopped.

### HttpClient

One client's session of the MCP server. `at` is, for each kind of request, how far
the one under way is: it came on a connection that is kept or is being dialled,
waits at the gate, is in its body, or is served. `open` are the responses that hold
the session. The idle, ping and answer timers are off, armed, due (lapsed, and
the poll after it to come), or wait for the server to run on. `owed` are the
requests that had come when a timer lapsed, which are read before its callback. A
ping goes out (`out`) and is answered, given up on or voided; the publisher takes
`listed` and `pending` and sends batches (`drain`). Sessions share only the map,
in which each has its own key, so one stands for any number.

## The runs

| run | module | bounds | shows |
|---|---|---|---|
| `generation` | StateGeneration | 2 changes, 2 fresh starts, 2 images, a file that may be damaged | what a save that may be restored holds; what an outlived one cannot tell |
| `hook` | SandboxHook | 3 saves, 4 requests, 2 SIGTERMs, 1 install, an expiry of 2 ticks | files are closed in a save; a saved server and a held stop end |
| `sessions` | SessionLifecycle | 2 execs, 2 runtimes, 3 operations of 4 kinds, a save, a memory budget, a write that takes its time, 1 of exit, failed write and crash | single flight, order, closing, what was told, hosts owned, quarantine, liveness |
| `admission` | SessionAdmission | 2 sessions, room for 1, 2 clients (1 loses its connections), 2 calls of 9 kinds, 1 restart, 1 fault, a shutdown, saves without a bound | capacity, eviction, leases, a whole shutdown that ends |
| `checkpoints` | CheckpointStore | 2 execs, 2 faults, 2 crashes, 2 harms | what is found after any of them |
| `records` | SessionRecords | 2 execs, 1 started, 1 message, 2 times, 1 harm | what the schemas take; what ended stays |
| `transport` | ProcessTransport | 2 callers, 3 kinds, 2 runtimes, 2 prompts, 1 cell, 3 operations, 2 drain intervals, a pipe of 1 line | ends told, in order; an interrupt's answer; the refinement; no wait left over |
| `exec` | ExecProtocol | 4 kinds, 2 execs, 1 print, 1 message kept, a tail of 2, 2 troubles | the record, the checkpoint, the prompt |
| `output` | ExecOutput | 4 texts, images or outcomes, texts of lengths 2 and 13, 3 messages of 10 bytes, 16 bytes, 2 images, a log of 3 events | bounds kept, but for refused outcomes, snapshots fit, a reader misses nothing |
| `snapshots` | ProcessSnapshots | 2 sessions, 3 servers, 12 PIDs, trees of 2, 1 exec, 1 other process, 1 trouble | restores find their PIDs, work comes back |
| `toolbelt` | ToolbeltInstall | 2 processes, 2 versions, 1 command, 2 troubles, 1 save | a whole toolbelt or none; the install ends |
| `clients` | HttpClient | 4 requests, 2 changes, 1 save | who is closed, what is told, the end |

Why the bounds are enough: the hazards are between two of a thing and seldom
more. Two images and two fresh starts let a save be older than another and than
a start; a third save lets an expiry of the first meet the third; two runtimes
let an old one's end meet a new one's start, and a third operation come between;
two crashes let the second come in the load after the first; two harms let a
damaged checkpoint be removed too; twelve PIDs let the counter go round between
a dump and its restore, and three servers let a snapshot be older than the last;
the drain of two intervals has a first one and a last. Each property has a mutant
in `PROJECT.json` (a dropped guard, a swapped order, a missing reset) which is
found within the bounds. Where a property is proved the bounds do not matter; of
those that are not, ExecProtocol's and HttpClient's were also simulated at larger
ones, with no violation.

What the bounds leave out by intent: in `admission` memory kills come until the
shutdown holds the locks it waits for (`LateKills`), since one after that starts a
host beside it; `NeverOverbooked` leaves out the histories in which room was made
while a restart had a host out (`opened`); both are below, with what else the code
does.

CHECK_DEADLOCK is off throughout: the bounds run out, the server stops, or the
session is gone for good. Where being stuck would be a fault there is a property:
the liveness ones, and `RestIsOver` of `transport`, by which no operation is left
waiting where the server and its processes can do no more.

### Fairness

* SandboxHook: the event loop handles what is queued and fires due timers, time
  passes, and work that holds files ends (an install ends, or a save kills it).
  The host, SIGTERM and the directory owe nothing.
* SessionLifecycle: operations, loops and held ends that are ready run; a runtime
  that was told to end does; one that runs an exec ends it; one that was launched
  prompts or fails to; the reads of `/proc` behind a removal end; a saved server is let run on in the end, which `hook`'s
  `SavedRunsOn` shows for a server that is not outlived. Clients owe nothing.
* SessionAdmission: the turns that are ready run, and the awaits on the transport
  and the reconnect window end (the transport kills what does not end and times
  out what does not start), and a saved server runs on in the end, as above. An exec
  need not end, nor a client call or come back.
* HttpClient: the server's turns run, a response that was begun ends, the publisher
  goes on, each timer lapses, and a saved server is resumed or restored. The client
  owes nothing: it may hold its connections and answer no ping.
* ToolbeltInstall: each process works on, and so does the server's loop; kills,
  saves and commands owe nothing, and are bounded.
* StateGeneration, CheckpointStore, SessionRecords, ProcessTransport, ExecProtocol,
  ExecOutput and ProcessSnapshots have none: their properties are of safety. At the
  size where its hazards show, the transport's liveness is out of TLC's reach.

## What is proved

TLAPS checks, for every value of the constants and from the named assumptions
alone (the bounds are numbers, the sentinels differ from what they stand beside,
the PIDs' constants are in order), the theorems listed in `PROJECT.json`. Each
proof has the same shape: an invariant of named conjuncts, one lemma per action
that it is kept, and the property from it. The invariants are needed because no
property is inductive by itself:

**StateGeneration** (`SavesProofs`, `FenceInv`). The file holds the
generation written last, or none that can be read; a server which passed
`assertCurrent` has that generation until its turn ends; whoever has it, server
or image, has every change persisted or told. That a new generation is no image's
takes an order, and it is that of writing: no server and no image has a
generation written later than the last. An image taken in
mid-turn counts like the server and is thawed into that turn: `SavesAreWhole`
carries what the server is about to persist, and `SavesCount` that such an image's
save, if it said one, is already passed. Beside the run's properties it gives
`FreshStartOutlivesSaves`, `NothingNewerOverwritten` and `LastSaveIsLatest`.

**SandboxHook** (`SavesProofs`, `HookInv`). `SaveIsAtHead` ties a save's phase to
the queue's head, `FilesStayClosed` carries `filesClosed` from the middle of one
save through a second one, and `ExpiriesAreTheirs` relates each expiry in the
queue to its save: either an earlier one, or the last one's age is up. Also
proved: `HeldStopIsDecided`, `RefusesForAStop`, `StopIsThisPods`,
`EachSaveItsWholeWait`.

**CheckpointStore** (`CommitProofs`, `StoreInv`). Revisions grow because execs are on the disk in
order before they run (`ExecsInOrder`, `TurnsExec`), so a manifest that is
replaced is replaced by a later one; a committed exec's manifest stays until it is
lost (`Lost`), and every revision that the record, the catalog or a client knows
is held by it (`RevisionsAreKnown`, `CheckpointIsKept`). `RecordedIsKnown` keeps a
session from coming back fresh: where the record has no revision and the catalog
once had, the session is quarantined and there is nothing a reset would take.
Also proved: `CrashReadsOne`, `CatalogIsBacked`.

**SessionLifecycle** (`LifeInv`). What the entry says of its host, history and
active exec (`EntryInv`, `HostInv`), which operation holds the lock and what it
found (`LockInv`, `AskInv`, `WaitInv`), what each loop holds (`LoopInv`), that
the queue is in the order of submission and behind the active exec (`FifoInv`),
what the disk lacks of the history and why nobody was told of it (`DiskInv`), and
what a launch under way may find (`BootInv`). The five safety properties of the
run follow. Three of the code's races break what they say (the loop that outlives
its runtime, the record that was replaced, and the recycle that brings back a
quarantined session, below): the history `astray` notes each as it happens
("early", "late", "revived"), and the properties are about the behaviours before
it. The invariant itself is kept through all three.

**SessionAdmission** (`AdmissionInv`). A call is in the lines its place has it in,
and first where it goes on (`InLines`, `Leads`, `Sensible`); what its holder found
of a session is so still (`Finds`, `EntryInv`); the sessions with a host or in
work are within the room counted, unless `opened` (`CountInv`); and what a
shutdown waits for (`StopInv`). `NeverOverbooked` is not inductive because a host
that is ended and started again is out of the count meanwhile: the invariant
counts those in work with those that have one.

**ProcessTransport** (`TransportInv`). What each operation holds of the runtime it
began on, what the broker knows of that and what was told, at every await.
It gives `NoSilentEnd`, `ToldAfterOutput`, that the one runtime that lives is the
one held, and the refinement: every step is a step of `RuntimeSlot` or leaves its
state alone (`SlotSpec`).

`SoftMeansOver` needs more (`SoftInv`, proved beside it): why must the prompt an
interrupt reads come after the cells it waits for? Of each runtime a function
counts the cells that run or lie in the first k lines of its inbox (`Ahead`), and
what an interrupt waits for is ahead of its probe wherever that is (`Behind`): to
be written yet, no more than the cells held; in the inbox, no more than the cells
before it; answered, none. A prompt's number is fresh (`Numbered`), so no other
answer is taken for it. Counting lines would ask for induction over the inbox:
here the function is carried along by each step, shifted as a line is taken and
extended as one is written (`SoftDone`, `SoftShift`, `SoftTyped`,
`SoftSubmitted`), and the invariant says only that there is one.

**ExecProtocol** (`CommitProofs`, `ProtocolInv`). Four of its five properties hold for
every number of execs, of messages and of troubles, and wherever a chunk ends.
`Turns` says whose turn it is (the host is at the exec that is active, and what is
in `stdin` is that too), `Tellings` that what is told is told of the active exec, that
it is done at the last, and then only the prompt is to come; `StartsAtThePrompt`
follows. `OutcomeInv` keeps an exec to one outcome, of what its cell left;
`IntrInv` says what an interrupt in flight is for; with these, `CommittedInv` and
`HoldsInv` say what the disk and the host hold, of which `CellSeesTheStore` is part.
For `StoreIsWhatWasLeft` an error must not be lost on its way: an envelope's prefix
lies right before the rest of it, in the pipe or between the collector's line and
the pipe (`Places`, `Before`), and an error that was written is captured or to be
read so (`ErrorInv`). For `NeverStranded` the exec's end must come: what was said to
be done is followed by the prompt's line and nothing else, in the pipe or the
collector (`Shown`, `DoneComes`, `EndsIn`).

A chunk is read by two folds, over its atoms (`AtomsConsumed`) and over the
envelopes they make (`AllConsumed`). A lemma of each gives the fold's run, its value
at every position and the step from one to the next (`CollectorRuns`); what holds at
the first and is kept by each step holds at the last, as there would else be a least
position where it fails (`UpTo`, from the well-founded order of the numbers). So no
induction over data is asked of the provers.

**HttpClient** (`ClientInv`). `ClosedInv` (nothing of a closed session is left to
lapse), `PingInv` (a ping is out as long as its answer is timed, and one answered
in time has its answer on the way before the timer's callback), `IdleInv` (an idle
timer that runs has nothing holding the session), `BegunInv`, and `UpdateInv`
(what is untold is pending, or in the batch to be sent).

**SessionRecords** (`RecordsInv`). The memory and the disk each hold an entry that
is fit to be written (`EntryOk`, `EntryFit`: a revision with its time, a reason
where there is quarantine) and a history that is whole (`Whole`: execs begun in
the order of their numbers, messages whose times never go back, each record as
its schema demands), and the status is as the runtime is (`RunOk`: with a runtime
up the entry is live, and its active exec runs). A record that meets its schema
does so whatever the clock says next, as every end, message and touch takes the
latest of what is there (`EndIs`, `SaidIs`, `StampedFine`): that is what
`StoresTakeAll` needs for any two readings of the clock. A turn's change is
followed by `Goes` (messages are only added to, and what ended stays), from which
`EndedIsFinal` comes of the same lemmas.

**ToolbeltInstall** (`SavesProofs`; `DiskInv`, `ServerInv`). The lock has one holder, who alone
works on the disk, and what it staged is whole from the copy's end; the server's
install has a process exactly while it runs, and what may end it is among its
causes. Also proved: `NoneIsCaught`, `EndsForCause`.

**ProcessSnapshots** (`SnapInv`, `PidInv`). `WorkOk` (nothing holds more work than was told,
what holds all of it is no less than the checkpoint does, and images that are named
have their scratch files), `KeptOk` (of a session not reset over its snapshot, the
checkpoint, what can be restored and the memory hold all its work, and no snapshot
is named once it is back) and `PhaseInv`. It gives `WorkComesBack`, and the files
that `RestoresFindTheirs` is about.

Its PIDs are `PidInv`. The trees that live are apart (`TreesApart`); the PIDs a
session was promised are apart from them, from all other processes and from every
other snapshot there are images of (`Apart`), wherever its snapshot is: in the
catalog, in a server's record, in the directory it was just dumped to (`Pinned`);
and the counter hands out none of them before it has gone a round less their span
(`Ahead`). The last rests on the counter's distances as arithmetic (`Nearer`,
`AddsUp`, `PastIsAhead`): short of a round they add up, and where a start's helper
leaves the counter is past all it reserved, by whichever way it got there
(`HelperPasses`).

Attempts at proofs changed the models where they were wrong: merged probes took a
count below zero in ProcessTransport; the helper of ProcessSnapshots that climbs to
a target behind the counter may go a whole round on, where all between is in use,
which the model counted as none; `resetOver` of ProcessSnapshots ended at any
dump, while only a dump that holds all the work ends it; and an eviction does take
an exec's host during a shutdown (below), which `EvictionTakesNoExec` leaves out, as
it does the session whose drain loop waits out a save.

### Only model-checked

* Liveness (`SavedRunsOn`, `HeldStopEnds`, `ExecsEnd`, `ShutdownEnds`,
  `InstallEnds`, `ClientsEnd`) and `RestIsOver`, which is about ENABLED: out of the
  prover's reach.
* ExecProtocol's `RecordIsWhole` and ExecOutput's three: they compare what a fold
  or a `SelectSeq` gives with another one of the same sequence, and so are by
  induction over data.

## What the modelling showed of the code

None of these breaks a sentence the code's documents state outright; a careful
reader of the code will want to know of them.

* **A runtime that died unheard.** An interrupt whose exec ends of itself may kill the
  then idle host (SM:1316, `runtime/process-transport.ts:582`), and its exit is
  answered to the interrupt, which no longer looks at it: the session stays
  `live_idle` on a host that is gone, and the next exec finds out.
* **A loop that outlives its runtime.** A drain loop that waited out a save wakes in
  a session a recycle is launching a runtime for, runs its exec on that, and the
  bootstrap then takes its place (SM:2717).
* **A record that was replaced.** `failExecStartup` ends the record its loop holds,
  though the history has another by then (SM:3540): `exec/finished` is told twice, a
  closed session is persisted again, the session is quarantined, or its history
  gets a message later than its end, which `ExecHistorySchema` refuses in every
  later write. In a recycle the queue that was kept is handed to the new runtime
  of a session that is quarantined.
* **Back from quarantine.** A recycle's launch looks at the status before its last
  await (SM:2135-2141): where the host it ended left files, as Go's does
  (`src/packages/runtime-go/src/transport.ts:25`), it then awaits their removal
  (SM:2179), and a runtime that exits meanwhile has its session quarantined, and told
  so, before the recycle sets `live_idle` (SM:2602-2615): on no runtime, or on the one
  that is being terminated, whose next write fails. Only a session with bootstrap code
  finds out, where its runtime is gone by then; where it is not yet, the bootstrap may
  wait for one that ends unheard, and hold the lock.
* **Eviction with an exec queued.** While the server is saved, a session whose next
  exec its drain loop keeps for later is `live_idle` (SM:2717-2720); where its
  controller is gone, or goes, another session's `makeRoomIfNeeded` may evict it, and
  the exec is lost with its queue: `stillEvictable` looks at the status and the
  controller only (SM:1728-1739). So may it while the server shuts down, after an
  exec that went over the memory budget ended (SM:1726-1745, 2735, 2866-2878).
  `EvictionTakesNoExec` says that there is no third way.
* **More hosts than allowed.** A host that is started again outside the admission
  lock has no runtime meanwhile and is not counted (SM:1696); one killed for its
  memory while the shutdown ends another is started again (SM:3099).
* **Execs left queued.** A recycle whose stop cannot be persisted drops the queue it
  kept (SM:2390): its execs stay queued in a quarantined session.
* **ok before it is kept.** The history says `ok` before the commit is checked
  (SM:3176, 3344); a crash before the catalog says so leaves an exec that ended ok
  and is in no checkpoint.
* **Quarantine.** Closing a quarantined session never writes its tombstone, which the
  schema refuses (`session/catalog-store.ts:114`); its reset to the checkpoint always
  fails (SM:2137).
* **A stale server that is alone.** A bump whose sync alone fails has written the file
  and leaves the value (`session/state-generation.ts:269`). And a server restored from
  an outlived save "stays saved, for good" (`mcp/sandbox-hook.ts:231`), but a `resume`
  lets it run on; the generation still refuses what it writes.
* **Capture.** With one or two bytes left below `maxExecBytes` later messages, errors
  too, are kept as empty texts with neither marker nor notice
  (`session/exec-capture.ts:280-300`); a channel just over its equal share of a
  snapshot's budget gets its proportional part only. The errors of a bad or further
  checkpoint outcome (`:191-224`) are appended uncounted, after the capture stopped
  too, and without an event, one for each that a runtime tells: they are not within
  the record's bounds, and `OutputIsBounded` counts them apart.
* **Snapshots.** A reset to the checkpoint of a suspended session leaves its unspent
  snapshot in the record, and a later server may restore that and lose the work since
  (`resetOver`). `pidReservation` near `pid_max` and `advancePidsPast` of
  `pid_max - 1`, trees that straddle the counter's turn, and trees rooted at or below
  the floor are not promised their PIDs. The snapshot's directory goes before the
  catalog's next persist.
* **Runtimes.** An interrupted bun cell's checkpoint in memory is committed with the
  next exec; a Ctrl-C within `lineSubmitDelay` drops the line
  (`runtime/process-transport.ts:829`); dotnet's `ExecuteSubmission` may run a cell
  twice (`src/packages/runtime-dotnet-script/src/transport.ts:767-790`).
* **HTTP.** What `mcp/http.ts:114-116` says of answers in time holds of a connection
  that is kept (`sandbox.ts:110-112`); the grace of `mcp/http.ts:553` starts again on a
  restore and not on a resume; a second GET that is turned away voids the ping on the
  first stream.
* **Toolbelt.** A second rename that fails after the first loses the old toolbelt; a
  `stop()` asked for while the server is saved settles once it runs on.

## What is not modelled, and why

* In SessionLifecycle: process snapshots (ProcessSnapshots has them), terminations
  that fail, history writes that fail, the removal of an ended host's files behind a
  quarantine (SM:2660, 3295, which have no runtime left to change), attach and detach, resize, setBootstrap, a
  checkpoint that cannot be read (CheckpointStore has it), other sessions. A
  checkpoint's outcome settles or does not. `session.notice` is only in memory.
* In SessionAdmission: observers, `holdStop` (SandboxHook has it), pressure
  warnings, resize, setBootstrap, terminations that fail, process snapshots, a
  checkpoint that cannot be read. An interrupt's await on the transport is one turn,
  and containment ends its host at once: both are SessionLifecycle's, as is what a
  drain loop that a save held may do to a host that is being started when it wakes.
  A save freezes nothing here: what was under way, and asked before, goes on.
* In CheckpointStore: execs that are queued count as not begun, process
  snapshots, an adapter that no longer takes a checkpoint (as one that is
  unreadable, but for its status), a history that cannot be read. A power loss
  that undoes a rename is not: the code syncs neither the stores' files nor their
  directories.
* In SessionRecords: writes that fail for another reason than their schema, and
  what a server does after a late failure.
* In ProcessTransport: resize, and backpressure by bytes of the output.
* In ExecProtocol: hosts that break the protocol on purpose; what a cell computes.
* In ToolbeltInstall: a payload that carries no toolbelt, of which an install ends at
  once with nothing done (`runtime/toolbelt.ts:212`).
* In HttpClient: a kept connection used again once the shutdown began, and bodies
  that never come; the tools' other answers and the resources' views; `stdio.ts`'s one
  client.
* In ProcessSnapshots: the probe of whether CRIU runs here, and what is in an image.
* Hashing, encodings and error texts, throughout.
* The state directory's lease, by which one server runs at a time, is assumed: it is
  an SQLite lock the operating system drops.
* The hook's client is one request on a socket; the CLI, the doctor and telemetry
  keep no state; what builds, provisions and installs bayma and its clients' skills
  runs once, from the top; the runtimes' languages are met through their hosts.

## Plan

What is left is what the provers do not reach: `RecordIsWhole` with the record as a set
of numbered positions rather than a `SelectSeq`, and the cut texts of ExecOutput as
sums carried along by each step. Then Go's, Lean's and Rust's hosts, where they
leave the protocol of the four.
