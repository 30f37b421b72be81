-------------------------- MODULE ProcessTransport --------------------------
(***************************************************************************)
(* The process transport (runtime/process-transport.ts), for one session:  *)
(* starting and restoring its runtimes, writing to them, waiting for their *)
(* prompts and for the answer to a probe, interrupting, terminating and    *)
(* snapshotting them, and telling the session that one ended.              *)
(*                                                                         *)
(* Callers run the transport's operations beside each other; the runtimes  *)
(* are processes of their own, which print, read, stop, fork and die as    *)
(* they like, the kernel killing some for their memory.  What they print   *)
(* waits in a pipe until the server reads it; the server sees an exit, a   *)
(* closed pipe and a timer's end each as an event of its own.              *)
(***************************************************************************)
EXTENDS Integers, Sequences, FiniteSets

CONSTANTS
    Callers,      \* those who call the transport, in any order
    Kinds,        \* the runtimes' configurations: a subset of RuntimeKinds
    Snapshots,    \* whether the environment has a snapshotter
    MaxLaunches,  \* bound: runtimes launched
    MaxPrompts,   \* bound: prompts a runtime prints
    MaxCells,     \* bound: cells written to a runtime
    MaxOps,       \* bound: operations begun
    MaxDrain,     \* intervals read for once a runtime exited (20 in the code)
    InboxCap      \* lines a pipe holds before a write has to wait

RuntimeKinds == {"bun", "python", "go"}

ASSUME TransportAssumption ==
    /\ Kinds \subseteq RuntimeKinds /\ Snapshots \in BOOLEAN
    /\ MaxLaunches \in Nat /\ MaxPrompts \in Nat /\ MaxCells \in Nat /\ MaxOps \in Nat
    /\ MaxDrain \in Nat \ {0} /\ InboxCap \in Nat \ {0}

VARIABLES
    kind,         \* the configuration (ProcessTransportConfig)
    entry,        \* sessions.get(sessionId): the runtime held, 0 for none
    launched,     \* runtimes launched
    life,         \* of each: unborn, live, or ended: `exit` seen, or never started
    terminal,     \* BrokerState.terminalError, and what it says
    told,         \* its exit listeners were called
    broker,       \* the rest of each BrokerState
    proc,         \* external: each process
    pipe,         \* external: what it printed that was not read
    call,         \* of each caller: the operation it is in
    past,         \* the PID counter was moved past SESSION_PID_FLOOR, and is still
    advancing,    \* floorAdvances holds an advance under way
    unhandled,    \* a promise was rejected that nobody was waiting on
    ops           \* history: operations begun

slotState == <<entry, life, told>>
floorVars == <<past, advancing>>
vars == <<kind, entry, launched, life, terminal, told, broker, proc, pipe, call,
          past, advancing, unhandled, ops>>

Runtimes == 1..MaxLaunches

-----------------------------------------------------------------------------
(* The runtimes' configurations.                                           *)

\* packages/runtime-bun: Ctrl-C written to it, lines submitted after a delay.
InterruptStrategy == [k \in RuntimeKinds |->
    CASE k = "bun" -> "write_ctrl_c" [] k = "python" -> "sigint" [] OTHER -> "recycle"]
LineDelay == kind = "bun"
CollectsGarbage == kind = "bun"

-----------------------------------------------------------------------------
(* State.                                                                  *)

NoProcess == [mode |-> "none", line |-> {}, inbox |-> <<>>, cells |-> 0,
              holder |-> "none"]
NoBroker == [prompts |-> 0, interrupting |-> FALSE, killed |-> FALSE, subscribed |-> FALSE,
             freeing |-> FALSE, restoring |-> FALSE, epipe |-> FALSE, heard |-> FALSE,
             fresh |-> FALSE, intervals |-> 0, drained |-> FALSE, closed |-> FALSE]
Quiet == [op |-> "none", pc |-> "idle", on |-> 0, seen |-> 0, stage |-> "none",
          nonce |-> 0, probe |-> "none", floored |-> FALSE, owe |-> 0,
          answer |-> "none"]

Modes == {"none", "criu", "start", "idle", "busy", "dead", "failed"}
Pcs == {"idle", "prepare", "advance", "advanced", "restoring", "delay", "drain", "prompt",
        "prompted", "answer", "go", "fail", "grace", "forced", "dumped"}
\* What is written to a runtime, each of an operation of its own, and what it prints:
\* a prompt, the answer to a probe, or what a process that holds its stdio wrote.  Of
\* lines that ran into one, how many were cells.
Item(what, nonce) == [what |-> what, nonce |-> nonce]
Items == [what : {"cell", "probe", "empty", "merged"}, nonce : Nat]
Prompt == Item("prompt", 0)
Tokens == [what : {"prompt", "ack", "other"}, nonce : Nat]

Processes == [mode : Modes, line : SUBSET Items, inbox : Seq(Items), cells : Int,
              holder : {"none", "group", "away"}]
Brokers == [prompts : Nat, interrupting : BOOLEAN, killed : BOOLEAN, subscribed : BOOLEAN,
            freeing : BOOLEAN, restoring : BOOLEAN, epipe : BOOLEAN, heard : BOOLEAN,
            fresh : BOOLEAN, intervals : Nat, drained : BOOLEAN, closed : BOOLEAN]
Calls == [op : {"none", "start", "restore", "terminate", "failing", "snapshot", "write",
                "collect", "interrupt"},
          pc : Pcs, on : 0..MaxLaunches, seen : Nat,
          stage : {"none", "prompt", "write", "ctrlC", "probe"}, nonce : Nat,
          probe : {"none", "sent", "answered", "failed"}, floored : BOOLEAN, owe : Int,
          answer : {"none", "soft"}]

TypeOK ==
    /\ kind \in Kinds /\ entry \in 0..MaxLaunches /\ launched \in 0..MaxLaunches
    /\ life \in [Runtimes -> {"unborn", "live", "ended"}]
    /\ terminal \in [Runtimes -> {"none", "exit", "memory", "stdin", "error"}]
    /\ told \in [Runtimes -> BOOLEAN]
    /\ broker \in [Runtimes -> Brokers]
    /\ proc \in [Runtimes -> Processes] /\ \A i \in Runtimes : IsFiniteSet(proc[i].line)
    /\ pipe \in [Runtimes -> Seq(Tokens)]
    /\ call \in [Callers -> Calls]
    /\ past \in BOOLEAN /\ advancing \in BOOLEAN /\ unhandled \in BOOLEAN /\ ops \in 0..MaxOps

Init ==
    /\ kind \in Kinds
    /\ entry = 0 /\ launched = 0
    /\ life = [i \in Runtimes |-> "unborn"]
    /\ terminal = [i \in Runtimes |-> "none"]
    /\ told = [i \in Runtimes |-> FALSE]
    /\ broker = [i \in Runtimes |-> NoBroker]
    /\ proc = [i \in Runtimes |-> NoProcess]
    /\ pipe = [i \in Runtimes |-> <<>>]
    /\ call = [c \in Callers |-> Quiet]
    /\ past = FALSE /\ advancing = FALSE /\ unhandled = FALSE /\ ops = 0

\* Promises the last event settled run on before the next event.
Settled == \A c \in Callers :
    /\ call[c].pc \notin {"go", "fail", "advanced"}
    /\ call[c].pc \in {"grace", "forced", "dumped"} => life[call[c].on] # "ended"

Up(i) == proc[i].mode \in {"criu", "start", "idle", "busy"}
Printed(i) == Cardinality({k \in DOMAIN pipe[i] : pipe[i][k] = Prompt})
Prints(i) == broker[i].prompts + Printed(i) < MaxPrompts

End(c, answer) == [Quiet EXCEPT !.answer = IF answer = "soft" THEN "soft" ELSE "none"]
\* Callers are alike: of those that have nothing to do, the first begins.
Begins(c) ==
    /\ call[c].pc = "idle" /\ \A d \in Callers : d < c => call[d].pc # "idle"
    /\ Settled /\ ops < MaxOps /\ ops' = ops + 1
\* requireState: the handle is the session's, and not a runtime's before it.
Held(i) == entry = i /\ i # 0 /\ \A c \in Callers : call[c].op = "restore" => call[c].on # i
\* The session subscribed to it, as it does before it uses a runtime.
Listening(i) == broker[i].subscribed

-----------------------------------------------------------------------------
(* The processes (external).                                               *)

\* A runtime starts up, and prompts; one CRIU restored is at its prompt.
Prompts(i) ==
    /\ proc[i].mode = "start" /\ Prints(i)
    /\ proc' = [proc EXCEPT ![i].mode = "idle"]
    /\ pipe' = [pipe EXCEPT ![i] = Append(@, Prompt)]
    /\ UNCHANGED <<kind, slotState, launched, terminal, broker, call, floorVars, unhandled, ops>>

Restored(i) ==
    /\ proc[i].mode = "criu"
    /\ proc' = [proc EXCEPT ![i].mode = "idle"]
    /\ UNCHANGED <<kind, slotState, launched, terminal, broker, pipe, call, floorVars, unhandled, ops>>

\* What a caller interrupting runtime i still has to see end, as n cells have.
CellsEnd(i, n) == [c \in Callers |->
    IF call[c].on = i THEN [call[c] EXCEPT !.owe = IF @ > n THEN @ - n ELSE 0] ELSE call[c]]
\* It reads a line at its prompt: runs a cell, answers a probe, or, where two
\* were written into one, only fails.
Reads(i) ==
    /\ proc[i].mode = "idle" /\ proc[i].inbox # <<>> /\ Prints(i)
    /\ LET item == Head(proc[i].inbox)
           rest == [proc[i] EXCEPT !.inbox = Tail(@)] IN
        \/ /\ item.what = "cell"
           /\ proc' = [proc EXCEPT ![i] = [rest EXCEPT !.mode = "busy"]]
           /\ UNCHANGED <<pipe, call>>
        \/ /\ item.what = "probe"
           /\ pipe' = [pipe EXCEPT ![i] = @ \o <<Item("ack", item.nonce), Prompt>>]
           /\ proc' = [proc EXCEPT ![i] = rest]
           /\ UNCHANGED call
        \/ /\ item.what \in {"empty", "merged"}
           /\ pipe' = [pipe EXCEPT ![i] = Append(@, Prompt)]
           /\ proc' = [proc EXCEPT ![i] =
                [rest EXCEPT !.cells = IF item.what = "merged" THEN @ - item.nonce ELSE @]]
           /\ call' = IF item.what = "merged" THEN CellsEnd(i, item.nonce) ELSE call
    /\ UNCHANGED <<kind, slotState, launched, terminal, broker, floorVars, unhandled, ops>>

\* A cell ends, which prompts; it may print what looks like a prompt; and it
\* may start a process that holds the runtime's stdio, in its group or not.
CellDone(i) ==
    /\ proc[i].mode = "busy" /\ Prints(i)
    /\ proc' = [proc EXCEPT ![i].mode = "idle", ![i].cells = @ - 1]
    /\ pipe' = [pipe EXCEPT ![i] = Append(@, Prompt)]
    /\ call' = CellsEnd(i, 1)
    /\ UNCHANGED <<kind, slotState, launched, terminal, broker, floorVars, unhandled, ops>>

CellPrints(i) ==
    /\ proc[i].mode = "busy" /\ Prints(i) /\ pipe[i] = <<>>
    /\ pipe' = [pipe EXCEPT ![i] = <<Prompt>>]
    /\ UNCHANGED <<kind, slotState, launched, terminal, broker, proc, call, floorVars, unhandled, ops>>

Forks(i) ==
    /\ proc[i].mode = "busy" /\ proc[i].holder = "none"
    /\ \E h \in {"group", "away"} : proc' = [proc EXCEPT ![i].holder = h]
    /\ UNCHANGED <<kind, slotState, launched, terminal, broker, pipe, call, floorVars, unhandled, ops>>

\* What it started writes on, or ends, once it is gone and before that is
\* told: nobody listens later.
HolderWrites(i) ==
    /\ proc[i].mode = "dead" /\ proc[i].holder # "none" /\ pipe[i] = <<>> /\ terminal[i] = "none"
    /\ pipe' = [pipe EXCEPT ![i] = <<Item("other", 0)>>]
    /\ UNCHANGED <<kind, slotState, launched, terminal, broker, proc, call, floorVars, unhandled, ops>>

HolderEnds(i) ==
    /\ proc[i].mode = "dead" /\ proc[i].holder # "none" /\ terminal[i] = "none"
    /\ proc' = [proc EXCEPT ![i].holder = "none"]
    /\ UNCHANGED <<kind, slotState, launched, terminal, broker, pipe, call, floorVars, unhandled, ops>>

\* It dies, by itself or killed by another, as the kernel for its memory.
Dying(p) == [p EXCEPT !.mode = "dead", !.inbox = <<>>, !.line = {}, !.cells = 0]
OverFor(i) == [c \in Callers |-> IF call[c].on = i THEN [call[c] EXCEPT !.owe = 0] ELSE call[c]]

Dies(i) ==
    /\ Up(i)
    /\ proc' = [proc EXCEPT ![i] = Dying(@)]
    /\ call' = OverFor(i)
    /\ UNCHANGED <<kind, slotState, launched, terminal, broker, pipe, floorVars, unhandled, ops>>

\* Processes outside the server wrap the PID counter, so many times.
Wraps ==
    /\ past /\ past' = FALSE /\ \E c \in Callers : call[c].pc \in {"prepare", "advance", "advanced"}
    /\ ops < MaxOps /\ ops' = ops + 1
    /\ UNCHANGED <<kind, slotState, launched, terminal, broker, proc, pipe, call, advancing, unhandled>>

-----------------------------------------------------------------------------
(* Starting.                                                               *)

\* A session starts a runtime, waits for its first prompt and subscribes to it
\* (session-manager.ts, launchRuntime).  startSession: a session of that id
\* must be new, now and after every wait.
Start(c) ==
    /\ Begins(c) /\ entry = 0 /\ launched < MaxLaunches
    /\ call' = [call EXCEPT ![c] = [Quiet EXCEPT !.op = "start", !.pc = "prepare"]]
    /\ UNCHANGED <<kind, slotState, launched, terminal, broker, proc, pipe, floorVars, unhandled>>

\* launch: the child is spawned, or its spawn fails, which an event says.
Launch(c, restoring, then) ==
    LET i == launched + 1 IN
    /\ launched < MaxLaunches
    /\ launched' = i /\ entry' = i
    /\ broker' = [broker EXCEPT ![i].restoring = restoring]
    /\ \/ /\ proc' = [proc EXCEPT ![i].mode = IF restoring THEN "criu" ELSE "start"]
          /\ life' = [life EXCEPT ![i] = "live"]
       \/ /\ proc' = [proc EXCEPT ![i].mode = "failed"]
          /\ life' = [life EXCEPT ![i] = "ended"]
    /\ call' = [call EXCEPT ![c] = [then EXCEPT !.on = i, !.floored = FALSE]]
    /\ past' = FALSE

\* Where no snapshot can be taken, a runtime may start anywhere; elsewhere the
\* PID counter is first moved past the floor, by the one advance under way.
Prepared(c) ==
    /\ call[c].pc = "prepare" /\ Settled
    /\ \/ /\ Snapshots /\ advancing' = TRUE
          /\ call' = [call EXCEPT ![c].pc = "advance"]
          /\ UNCHANGED <<entry, life, launched, broker, proc, past>>
       \/ /\ entry = 0 /\ Launch(c, FALSE, [call[c] EXCEPT !.pc = "prompt", !.stage = "prompt"])
          /\ UNCHANGED advancing
       \/ /\ entry # 0 \/ launched = MaxLaunches
          /\ call' = [call EXCEPT ![c] = End(c, "failed")]
          /\ UNCHANGED <<advancing, entry, life, launched, broker, proc, past>>
    /\ UNCHANGED <<kind, told, terminal, pipe, unhandled, ops>>

\* advancePastFloor: every start waiting on the advance learns how it ended.
AdvanceEnds ==
    /\ advancing /\ Settled
    /\ \E ok \in BOOLEAN :
        /\ past' = (past \/ ok)
        /\ call' = [c \in Callers |-> IF call[c].pc = "advance"
                                      THEN [call[c] EXCEPT !.pc = "advanced", !.floored = ok]
                                      ELSE call[c]]
    /\ advancing' = FALSE
    /\ UNCHANGED <<kind, slotState, launched, terminal, broker, proc, pipe, unhandled, ops>>

\* The rest of startSession: the counter, wrapped meanwhile, is moved again,
\* and nothing is awaited between finding it past and the launch.
Advanced(c) ==
    /\ call[c].pc = "advanced"
    /\ \/ /\ entry = 0 /\ call[c].floored /\ ~past
          /\ advancing' = TRUE
          /\ call' = [call EXCEPT ![c].pc = "advance"]
          /\ UNCHANGED <<entry, life, launched, broker, proc, past>>
       \/ /\ entry = 0 /\ (call[c].floored => past)
          /\ Launch(c, FALSE, [call[c] EXCEPT !.pc = "prompt", !.stage = "prompt"])
          /\ UNCHANGED advancing
       \/ /\ entry # 0 \/ launched = MaxLaunches
          /\ call' = [call EXCEPT ![c] = End(c, "failed")]
          /\ UNCHANGED <<advancing, entry, life, launched, broker, proc, past>>
    /\ UNCHANGED <<kind, told, terminal, pipe, unhandled, ops>>

-----------------------------------------------------------------------------
(* How a runtime is ended.                                                 *)

\* The runtime is forgotten, whether it ended or not (mutant).
ForgetAnyhow(c, i) ==
    /\ entry' = IF entry = i THEN 0 ELSE entry
    /\ call' = [call EXCEPT ![c] = End(c, "done")]

\* terminate's end: one that has not exited is kept, and said not to have.
Forget(c, i) ==
    IF life[i] = "live"
    THEN /\ call' = [call EXCEPT ![c] = End(c, "failed")]
         /\ UNCHANGED entry
    ELSE /\ entry' = IF entry = i THEN 0 ELSE entry
         /\ call' = [call EXCEPT ![c] = End(c, "done")]

\* terminate, its session unsubscribed first: SIGTERM reaches the group, which
\* the runtime may heed; of one that exited, what holds its stdio is killed.
Terminates(c, i, op) ==
    IF life[i] = "live"
    THEN /\ \/ UNCHANGED proc
            \/ Up(i) /\ proc' = [proc EXCEPT ![i] = Dying(@)]
         /\ call' = [OverFor(i) EXCEPT ![c] = [Quiet EXCEPT !.op = op, !.on = i, !.pc = "grace"]]
         /\ broker' = [broker EXCEPT ![i].subscribed = FALSE]
         /\ UNCHANGED entry
    ELSE /\ LET kills == proc[i].mode # "failed" /\ ~broker[i].closed IN
            /\ proc' = [proc EXCEPT ![i].holder = IF kills /\ @ = "group" THEN "none" ELSE @]
            /\ broker' = [broker EXCEPT ![i].killed = @ \/ kills, ![i].subscribed = FALSE]
         /\ Forget(c, i)

-----------------------------------------------------------------------------
(* Listening and writing.                                                  *)

\* subscribe without asking whether the runtime ended (mutant).
SubscribeAnyhow(c) ==
    LET i == call[c].on IN
    /\ call[c].pc = "prompted" /\ Settled
    /\ call' = [call EXCEPT ![c] = IF entry = i THEN End(c, "done") ELSE [@ EXCEPT !.pc = "fail"]]
    /\ broker' = [broker EXCEPT ![i].subscribed = (entry = i)]
    /\ UNCHANGED <<kind, slotState, launched, terminal, proc, pipe, floorVars, unhandled, ops>>

\* subscribe, a moment after the first prompt, or as a restore ends: refused
\* where the runtime ended, or was terminated, meanwhile.
Subscribe(c) ==
    LET i == call[c].on
        live == entry = i /\ terminal[i] = "none" IN
    /\ call[c].pc = "prompted" /\ Settled
    /\ call' = [call EXCEPT ![c] = IF live THEN End(c, "done") ELSE [@ EXCEPT !.pc = "fail"]]
    /\ broker' = [broker EXCEPT ![i].subscribed = live]
    /\ UNCHANGED <<kind, slotState, launched, terminal, proc, pipe, floorVars, unhandled, ops>>

\* What the line a newline ends is: a cell, a probe, or neither.
Submitted(p) ==
    LET line == p.line IN
    [p EXCEPT !.line = {},
              !.inbox = Append(@, IF Cardinality(line) = 1 THEN CHOOSE item \in line : TRUE
                                  ELSE IF line = {} THEN Item("empty", 0)
                                  ELSE Item("merged", Cardinality({item \in line : item.what = "cell"})))]

\* write: the chunk goes to the child's stdin, which fails later where the
\* child is gone; where the pipe is full the write waits for it to drain.
\* With a line delay its newline follows after it.
Sends(c, i, item, stage) ==
    LET typed == [proc[i] EXCEPT !.line = @ \cup {item},
                                 !.cells = IF item.what = "cell" THEN @ + 1 ELSE @]
        sent == IF LineDelay THEN typed ELSE Submitted(typed)
        gone == ~Up(i)
    IN  /\ proc' = [proc EXCEPT ![i] = IF gone THEN @ ELSE sent]
        /\ call' = [call EXCEPT ![c] = [stage EXCEPT
             !.pc = IF LineDelay THEN "delay"
                    ELSE IF ~gone /\ Len(proc[i].inbox) >= InboxCap THEN "drain" ELSE "go"]]
        /\ broker' = [broker EXCEPT ![i].epipe = @ \/ gone]

\* The session's exec is written to it.
WriteCell(c, i) ==
    /\ Begins(c) /\ Held(i) /\ Listening(i) /\ terminal[i] = "none" /\ proc[i].cells < MaxCells
    /\ Sends(c, i, Item("cell", ops'), [Quiet EXCEPT !.op = "write", !.on = i, !.stage = "write"])
    /\ UNCHANGED <<kind, slotState, launched, terminal, pipe, floorVars, unhandled>>

\* The line's newline, after the delay.
Submit(c) ==
    LET i == call[c].on
        gone == ~Up(i)
        full == ~gone /\ Len(proc[i].inbox) >= InboxCap IN
    /\ call[c].pc = "delay" /\ Settled
    /\ IF terminal[i] # "none"
       THEN /\ call' = [call EXCEPT ![c].pc = "fail"]
            /\ UNCHANGED <<proc, broker>>
       ELSE /\ proc' = [proc EXCEPT ![i] = IF gone THEN @ ELSE Submitted(@)]
            /\ call' = [call EXCEPT ![c].pc = IF full THEN "drain" ELSE "go"]
            /\ broker' = [broker EXCEPT ![i].epipe = @ \/ gone]
    /\ UNCHANGED <<kind, slotState, launched, terminal, pipe, floorVars, unhandled, ops>>

\* The child's stdin drained: the write it held goes on.
Drains(c) ==
    LET i == call[c].on IN
    /\ call[c].pc = "drain" /\ Settled /\ Up(i) /\ Len(proc[i].inbox) < InboxCap
    /\ call' = [call EXCEPT ![c].pc = "go"]
    /\ UNCHANGED <<kind, slotState, launched, terminal, broker, proc, pipe, floorVars, unhandled, ops>>

-----------------------------------------------------------------------------
(* Waiting for a prompt, and probing.                                      *)

\* waitForPrompt, of a caller that saw `seen` prompts.
AwaitPrompt(state) ==
    LET i == state.on IN
    [state EXCEPT !.stage = "prompt",
                  !.pc = IF terminal[i] # "none" THEN "fail"
                         ELSE IF broker[i].prompts > state.seen THEN "go" ELSE "prompt"]

\* probe: its waiter is registered, then its line is written.
Probe(c, state) ==
    LET i == state.on
        waiting == [state EXCEPT !.probe = "sent", !.stage = "probe"]
    IN  IF Held(i) /\ terminal[i] = "none"
        THEN Sends(c, i, Item("probe", state.nonce), waiting)
        ELSE /\ call' = [call EXCEPT ![c] = [state EXCEPT !.pc = "fail", !.probe = "none"]]
             /\ UNCHANGED <<proc, broker>>

\* collectGarbage: a probe whose timeout is the clock's own.
CollectGarbage(c, i) ==
    /\ CollectsGarbage /\ Begins(c) /\ Held(i) /\ Listening(i)
    /\ Probe(c, [Quiet EXCEPT !.op = "collect", !.on = i, !.nonce = ops'])
    /\ UNCHANGED <<kind, slotState, launched, terminal, pipe, floorVars, unhandled>>

\* interrupt answers; the runtime's next end is its session's to hear again.
Answer(c, answer) ==
    LET i == call[c].on IN
    /\ call' = [call EXCEPT ![c] = [End(c, answer) EXCEPT !.owe = call[c].owe]]
    /\ broker' = [broker EXCEPT ![i].interrupting = FALSE,
                                ![i].heard = @ \/ (answer = "recycle")]

\* A wait that ended well: what the operation does next.
GoesOn(c) ==
    LET i == call[c].on IN
    /\ call[c].pc = "go"
    /\ \/ /\ call[c].stage = "write"
          /\ call' = [call EXCEPT ![c] = End(c, "done")]
          /\ UNCHANGED <<proc, broker>>
       \/ /\ call[c].stage = "prompt" /\ call[c].op = "start"
          /\ call' = [call EXCEPT ![c].pc = "prompted"]
          /\ UNCHANGED <<proc, broker>>
       \/ /\ call[c].stage = "ctrlC"
          /\ call' = [call EXCEPT ![c] = AwaitPrompt(call[c])]
          /\ UNCHANGED <<proc, broker>>
       \/ /\ call[c].stage = "prompt" /\ call[c].op = "interrupt"
          /\ Probe(c, call[c])
       \/ /\ call[c].stage = "probe" /\ call[c].probe = "sent"
          /\ call' = [call EXCEPT ![c].pc = "answer"]
          /\ UNCHANGED <<proc, broker>>
       \/ /\ call[c].stage = "probe" /\ call[c].probe = "failed"
          /\ call' = [call EXCEPT ![c].pc = "fail"]
          /\ UNCHANGED <<proc, broker>>
       \/ /\ call[c].stage = "probe" /\ call[c].probe = "answered"
          /\ IF call[c].op = "interrupt"
             THEN Answer(c, IF terminal[i] # "none" THEN "recycle" ELSE "soft")
             ELSE call' = [call EXCEPT ![c] = End(c, "done")] /\ UNCHANGED broker
          /\ UNCHANGED proc
    /\ UNCHANGED <<kind, slotState, launched, terminal, pipe, floorVars, unhandled, ops>>

\* One that failed: an interrupt answers that its runtime is to be recycled,
\* a start terminates the runtime it launched.
Fails(c) ==
    LET i == call[c].on
        launches == call[c].op \in {"start", "restore"} /\ entry = i IN
    /\ call[c].pc = "fail"
    /\ IF launches THEN Terminates(c, i, "failing")
       ELSE /\ IF call[c].op = "interrupt" THEN Answer(c, "recycle")
               ELSE call' = [call EXCEPT ![c] = End(c, "failed")] /\ UNCHANGED broker
            /\ UNCHANGED <<entry, proc>>
    /\ UNCHANGED <<kind, life, told, launched, terminal, pipe, floorVars, unhandled, ops>>

Waits(c) == call[c].pc \in {"prompt", "answer"}
               \/ (call[c].pc \in {"delay", "drain"} /\ call[c].probe = "sent")

\* A wait's promise is rejected, to no one where its caller still writes.
Rejected(state) ==
    IF state.pc \in {"prompt", "answer"} THEN [state EXCEPT !.pc = "fail"]
    ELSE [state EXCEPT !.probe = "failed"]

\* runningTimeout: a timer that came due is told of once the server has read
\* what came by then, unless that settled the wait; a collection's is the
\* clock's own.
TimesOut(c) ==
    /\ Settled /\ Waits(c)
    /\ pipe[call[c].on] = <<>> \/ call[c].op = "collect"
    /\ call' = [call EXCEPT ![c] = Rejected(@)]
    /\ unhandled' = (unhandled \/ call[c].pc \in {"delay", "drain"})
    /\ UNCHANGED <<kind, slotState, launched, terminal, broker, proc, pipe, floorVars, ops>>

-----------------------------------------------------------------------------
(* Interrupting.                                                           *)

\* What an interrupt does to a runtime (external): it stops its cell and
\* prompts, prompts anew at its prompt, dies, or takes no notice.
Reacts(i) ==
    \/ UNCHANGED <<proc, pipe>>
    \/ /\ proc[i].mode \in {"idle", "busy"} /\ Prints(i)
       /\ proc' = [proc EXCEPT ![i].mode = "idle",
                               ![i].cells = IF proc[i].mode = "busy" THEN @ - 1 ELSE @]
       /\ pipe' = [pipe EXCEPT ![i] = Append(@, Prompt)]
    \/ /\ Up(i)
       /\ proc' = [proc EXCEPT ![i] = Dying(@)]
       /\ UNCHANGED pipe

\* interrupt, of a runtime that is not the session's, or that is only ever
\* recycled.
InterruptsNone(c, i) ==
    /\ Begins(c) /\ i # 0 /\ (~Held(i) \/ InterruptStrategy[kind] = "recycle")
    /\ call' = [call EXCEPT ![c] = End(c, "recycle")]
    /\ UNCHANGED <<kind, slotState, launched, terminal, broker, proc, pipe, floorVars, unhandled>>

\* interrupt: SIGINT, or Ctrl-C written to it, then its prompt is waited for.
Interrupt(c, i) ==
    /\ Begins(c) /\ Held(i) /\ Listening(i) /\ InterruptStrategy[kind] # "recycle"
    /\ LET refused == InterruptStrategy[kind] = "write_ctrl_c" /\ terminal[i] # "none" IN
        /\ IF refused THEN UNCHANGED <<proc, pipe>> ELSE Reacts(i)
        /\ call' = [(IF proc'[i].cells < proc[i].cells THEN CellsEnd(i, 1) ELSE call) EXCEPT
             ![c] = [Quiet EXCEPT !.op = "interrupt", !.on = i, !.seen = broker[i].prompts,
                                  !.nonce = ops', !.owe = proc'[i].cells, !.stage = "ctrlC",
                                  !.pc = IF refused THEN "fail" ELSE "go"]]
    /\ broker' = [broker EXCEPT ![i].interrupting = TRUE,
                                ![i].epipe = @ \/ (InterruptStrategy[kind] = "write_ctrl_c" /\ ~Up(i))]
    /\ UNCHANGED <<kind, slotState, launched, terminal, floorVars, unhandled>>

-----------------------------------------------------------------------------
(* What the server reads and sees.                                         *)

\* Where a probe's answer ends in what was read, 0 where it is not there.
AckAt(i, nonce) ==
    LET acks == {k \in DOMAIN pipe[i] : pipe[i][k] = Item("ack", nonce)}
    IN  IF acks = {} THEN 0 ELSE CHOOSE k \in acks : TRUE

\* A probe answered by a prompt before its own answer (mutant).
AnsweredByPrompt(i, state) == \E k \in DOMAIN pipe[i] : pipe[i][k] = Prompt

\* readinessWaiters: a prompt follows the probe's answer.
Answered(i, state) ==
    /\ AckAt(i, state.nonce) # 0
    /\ \E k \in DOMAIN pipe[i] : k > AckAt(i, state.nonce) /\ pipe[i][k] = Prompt

\* What a chunk read from runtime i does for a caller.
ReadFor(i, state, prompts) ==
    IF state.on # i THEN state
    ELSE IF state.pc = "prompt" /\ prompts > state.seen THEN [state EXCEPT !.pc = "go"]
    ELSE IF state.probe = "sent" /\ Answered(i, state)
         THEN [state EXCEPT !.probe = "answered", !.pc = IF @ = "answer" THEN "go" ELSE @]
    ELSE state

\* onData: what runtime i printed is read, all there is.
Read(i) ==
    LET prompts == broker[i].prompts + Printed(i) IN
    /\ Settled /\ pipe[i] # <<>>
    /\ pipe' = [pipe EXCEPT ![i] = <<>>]
    /\ broker' = [broker EXCEPT ![i].prompts = prompts, ![i].fresh = TRUE]
    /\ call' = [c \in Callers |-> ReadFor(i, call[c], prompts)]
    /\ UNCHANGED <<kind, slotState, launched, terminal, proc, floorVars, unhandled, ops>>

\* notifyExit's waiters: those of a prompt, a probe's answer or a pipe. One
\* that is still writing its probe is left with a promise none waits on.
NotifyWaiters(i, why, state) ==
    IF state.on # i THEN state
    ELSE IF state.pc \in {"prompt", "answer", "drain"}
         THEN [state EXCEPT !.pc = "fail", !.probe = IF @ = "sent" THEN "failed" ELSE @]
    ELSE IF state.probe = "sent" THEN [state EXCEPT !.probe = "failed"]
    ELSE state

\* notifyExit: once, every wait is failed and the session told, unless it is
\* being interrupted, whose answer says it.
Notify(i, why) ==
    IF terminal[i] # "none" THEN UNCHANGED <<terminal, told, call, unhandled>>
    ELSE /\ terminal' = [terminal EXCEPT ![i] = why]
         /\ told' = [told EXCEPT ![i] = broker[i].subscribed /\ ~broker[i].interrupting]
         /\ unhandled' = (unhandled \/ \E c \in Callers :
              /\ call[c].on = i /\ call[c].probe = "sent"
              /\ call[c].pc \in {"delay", "drain"})
         /\ call' = [c \in Callers |-> NotifyWaiters(i, why, call[c])]

\* ended: of a runtime the server did not kill, the kernel's count may say it
\* was killed for its memory; it is told of once that is freed.
Ended(i, state) ==
    \/ /\ ~state.killed
       /\ broker' = [broker EXCEPT ![i] = [state EXCEPT !.freeing = TRUE]]
       /\ UNCHANGED <<terminal, told, call, unhandled>>
    \/ /\ broker' = [broker EXCEPT ![i] = state]
       /\ Notify(i, "exit")

\* `exit`: the runtime is gone, and what it wrote is read on.
Exit(i) ==
    /\ Settled /\ proc[i].mode = "dead" /\ life[i] = "live"
    /\ life' = [life EXCEPT ![i] = "ended"]
    /\ broker' = [broker EXCEPT ![i].fresh = FALSE]
    /\ UNCHANGED <<kind, entry, told, launched, terminal, proc, pipe, call, floorVars, unhandled, ops>>

\* `close`: its stdio closed too, which a process it started may hold.
Close(i) ==
    /\ Settled /\ life[i] = "ended" /\ proc[i].mode = "dead" /\ ~broker[i].closed
    /\ proc[i].holder = "none" /\ pipe[i] = <<>>
    /\ Ended(i, [broker[i] EXCEPT !.closed = TRUE])
    /\ UNCHANGED <<kind, entry, life, launched, proc, pipe, floorVars, ops>>

\* The runtime's end is told as it exits (mutant).
DrainsAtOnce(i) ==
    /\ Settled /\ life[i] = "ended" /\ proc[i].mode = "dead"
    /\ ~broker[i].closed /\ ~broker[i].drained
    /\ Ended(i, [broker[i] EXCEPT !.drained = TRUE])
    /\ UNCHANGED <<kind, entry, life, launched, proc, pipe, floorVars, ops>>

\* An interval after the exit, in which the event loop read what there was:
\* while more came it reads on, for so many intervals.
Drain(i) ==
    /\ Settled /\ life[i] = "ended" /\ proc[i].mode = "dead"
    /\ ~broker[i].closed /\ ~broker[i].drained
    /\ pipe[i] = <<>> \/ broker[i].fresh
    /\ \/ /\ broker[i].fresh /\ broker[i].intervals + 1 < MaxDrain
          /\ broker' = [broker EXCEPT ![i].fresh = FALSE, ![i].intervals = @ + 1]
          /\ UNCHANGED <<terminal, told, call, unhandled>>
       \/ /\ ~broker[i].fresh \/ broker[i].intervals + 1 >= MaxDrain
          /\ Ended(i, [broker[i] EXCEPT !.drained = TRUE])
    /\ UNCHANGED <<kind, entry, life, launched, proc, pipe, floorVars, ops>>

\* memoryFreed.
Freed(i) ==
    /\ Settled /\ broker[i].freeing
    /\ broker' = [broker EXCEPT ![i].freeing = FALSE]
    /\ Notify(i, "memory")
    /\ UNCHANGED <<kind, entry, life, launched, proc, pipe, floorVars, ops>>

\* A write to a runtime that is gone fails; so does the spawn of one.
StdinFails(i) ==
    /\ Settled /\ broker[i].epipe
    /\ broker' = [broker EXCEPT ![i].epipe = FALSE]
    /\ Notify(i, "stdin")
    /\ UNCHANGED <<kind, entry, life, launched, proc, pipe, floorVars, ops>>

SpawnFails(i) ==
    /\ Settled /\ proc[i].mode = "failed" /\ terminal[i] = "none"
    /\ Notify(i, "error")
    /\ UNCHANGED <<kind, entry, life, launched, broker, proc, pipe, floorVars, ops>>

-----------------------------------------------------------------------------
(* Ending.                                                                 *)

\* terminate, of the runtime held; shutdown terminates every one.
Terminate(c, i) ==
    /\ Begins(c) /\ entry = i /\ i # 0
    /\ Terminates(c, i, "terminate")
    /\ UNCHANGED <<kind, life, told, launched, terminal, pipe, floorVars, unhandled>>

\* What is left once its grace is over is left be (mutant).
GraceAwaitsExit(c) ==
    LET i == call[c].on IN
    /\ call[c].pc = "grace" /\ life[i] = "ended"
    /\ broker' = [broker EXCEPT ![i].killed = TRUE]
    /\ Forget(c, i)
    /\ UNCHANGED <<kind, life, told, launched, terminal, proc, pipe, floorVars, unhandled, ops>>

\* What SIGKILL leaves of a runtime's group.
GroupKilled(i) ==
    LET left == IF Up(i) THEN Dying(proc[i]) ELSE proc[i]
    IN  [left EXCEPT !.holder = IF left.holder = "group" THEN "none" ELSE left.holder]

\* Its grace over, or its exit seen, whatever is left of the group is killed.
GraceEnds(c) ==
    LET i == call[c].on IN
    /\ call[c].pc = "grace" /\ (Settled \/ life[i] = "ended")
    /\ proc' = [proc EXCEPT ![i] = GroupKilled(i)]
    /\ broker' = [broker EXCEPT ![i].killed = TRUE]
    /\ IF life[i] = "live"
       THEN call' = [OverFor(i) EXCEPT ![c].pc = "forced"] /\ UNCHANGED entry
       ELSE Forget(c, i)
    /\ UNCHANGED <<kind, life, told, launched, terminal, pipe, floorVars, unhandled, ops>>

\* The exit of one killed is waited for, for so long.
ForcedEnds(c) ==
    LET i == call[c].on IN
    /\ call[c].pc = "forced" /\ (Settled \/ life[i] = "ended")
    /\ Forget(c, i)
    /\ UNCHANGED <<kind, life, told, launched, terminal, broker, proc, pipe, floorVars, unhandled, ops>>

\* snapshot: CRIU dumps the tree, which ends it, or fails and leaves it be.
\* Its listeners are gone first.
Snapshot(c, i) ==
    /\ Snapshots /\ Begins(c) /\ Held(i) /\ terminal[i] = "none" /\ Listening(i)
    /\ broker' = [broker EXCEPT ![i].subscribed = FALSE]
    /\ \/ /\ Up(i)
          /\ proc' = [proc EXCEPT ![i] = [Dying(@) EXCEPT !.holder = "none"]]
          /\ call' = [OverFor(i) EXCEPT ![c] = [Quiet EXCEPT !.op = "snapshot", !.on = i, !.pc = "dumped"]]
       \/ /\ call' = [call EXCEPT ![c] = End(c, "failed")]
          /\ UNCHANGED proc
    /\ UNCHANGED <<kind, slotState, launched, terminal, pipe, floorVars, unhandled>>

DumpEnds(c) ==
    LET i == call[c].on IN
    /\ call[c].pc = "dumped" /\ (Settled \/ life[i] = "ended")
    /\ IF life[i] = "live"
       THEN call' = [call EXCEPT ![c] = End(c, "failed")] /\ UNCHANGED entry
       ELSE /\ entry' = 0
            /\ call' = [call EXCEPT ![c] = End(c, "done")]
    /\ UNCHANGED <<kind, life, told, launched, terminal, broker, proc, pipe, floorVars, unhandled, ops>>

\* restore: CRIU restores the tree; one that fails or takes too long goes.
Restore(c) ==
    /\ Snapshots /\ Begins(c) /\ entry = 0
    /\ Launch(c, TRUE, [Quiet EXCEPT !.op = "restore", !.pc = "restoring"])
    /\ UNCHANGED <<kind, told, terminal, pipe, advancing, unhandled>>

RestorePolls(c) ==
    LET i == call[c].on IN
    /\ call[c].pc = "restoring" /\ Settled
    /\ \/ /\ proc[i].mode \in {"idle", "busy", "dead"}
          /\ call' = [call EXCEPT ![c].pc = "prompted"]
          /\ UNCHANGED <<entry, proc, broker>>
       \/ /\ proc[i].mode \notin {"idle", "busy"}
          /\ IF entry = i THEN Terminates(c, i, "failing")
             ELSE /\ call' = [call EXCEPT ![c] = End(c, "failed")]
                  /\ UNCHANGED <<entry, proc, broker>>
    /\ UNCHANGED <<kind, life, told, launched, terminal, pipe, floorVars, unhandled, ops>>

-----------------------------------------------------------------------------
(* The specification.                                                      *)

ProcessRuns(i) ==
    \/ Prompts(i) \/ Restored(i) \/ Reads(i) \/ CellDone(i) \/ CellPrints(i) \/ Forks(i)
    \/ HolderWrites(i) \/ HolderEnds(i) \/ Dies(i)

Events(i) == Read(i) \/ Exit(i) \/ Close(i) \/ Drain(i) \/ Freed(i) \/ StdinFails(i) \/ SpawnFails(i)

Operations(c, i) ==
    \/ WriteCell(c, i) \/ CollectGarbage(c, i)
    \/ InterruptsNone(c, i) \/ Interrupt(c, i) \/ Terminate(c, i) \/ Snapshot(c, i)

Continues(c) ==
    \/ Prepared(c) \/ Advanced(c) \/ Subscribe(c) \/ Submit(c) \/ Drains(c) \/ GoesOn(c) \/ Fails(c)
    \/ TimesOut(c) \/ GraceEnds(c) \/ ForcedEnds(c) \/ DumpEnds(c) \/ RestorePolls(c)

Next ==
    \/ \E i \in 1..launched : ProcessRuns(i) \/ Events(i)
    \/ \E c \in Callers :
        \/ Start(c) \/ Restore(c) \/ Continues(c)
        \/ \E i \in 1..launched : Operations(c, i)
    \/ AdvanceEnds \/ Wraps

Spec == Init /\ [][Next]_vars

-----------------------------------------------------------------------------
(* Properties.                                                             *)

\* The session's runtimes come one after the other, each forgotten only once
\* it ended and told of at most once, however many callers start, restore,
\* terminate and snapshot at once: what the transport promises (RuntimeSlot).
Slot == INSTANCE RuntimeSlot WITH current <- entry
SlotSpec == Slot!SlotSpec

\* A runtime that ended with its session listening is never passed over in
\* silence: the session was told, or an interrupt of it answers, or answered,
\* that it is to be recycled.
NoSilentEnd == \A i \in Runtimes :
    terminal[i] # "none" /\ broker[i].subscribed /\ ~told[i] =>
        broker[i].heard \/ \E c \in Callers : call[c].op = "interrupt" /\ call[c].on = i

\* An interrupt that answers `soft` has its runtime back at its prompt: every
\* cell it held as it was interrupted is over, whatever it printed that looks
\* like a prompt, and whichever prompts were still to be read.
SoftMeansOver == \A c \in Callers : call[c].answer = "soft" => call[c].owe = 0

\* An exit is told once all that the runtime itself wrote was read.
ToldAfterOutput == \A i \in Runtimes :
    terminal[i] \in {"exit", "memory"} => \A k \in DOMAIN pipe[i] : pipe[i][k].what = "other"

\* What the server does of itself: what can be read is read, what happened is seen, and
\* what was waited for goes on or times out.
ServerSteps ==
    \/ \E i \in 1..launched : Events(i)
    \/ \E c \in Callers : Continues(c)
    \/ AdvanceEnds

\* The server comes to rest with nobody waiting: once it has no step left to take of
\* itself, every operation has ended, but for a write to a runtime that reads nothing and
\* whose end was not told, and the end of every runtime that exited was told, though a process it started may hold its
\* stdio for good (process-transport.ts:567, 649).
RestIsOver == ~ENABLED ServerSteps =>
    /\ \A c \in Callers : \/ call[c].pc = "idle"
                          \/ call[c].pc = "drain" /\ terminal[call[c].on] = "none"
    /\ \A i \in Runtimes : life[i] = "ended" => terminal[i] # "none"

\* No promise is rejected that nobody waits on, which would end the server.
NothingUnhandled == ~unhandled

=============================================================================
