----------------------------- MODULE ExecProtocol -----------------------------
(***************************************************************************)
(* One exec after another between the session manager and a runtime's      *)
(* host: the spec the session writes and the host reads, the cell it runs, *)
(* the envelopes it writes to its standard output, the chunks the session  *)
(* reads of them, what the session captures of a chunk, and how the exec   *)
(* ends: done and back at the prompt, interrupted, or with its host.       *)
(*                                                                         *)
(* A host's output is a sequence of atoms.  An envelope is two, as a chunk *)
(* may end within it: its prefix, which holds the exec's nonce, and the    *)
(* rest with the line's end.  The prompt ends no line.  A process an       *)
(* earlier cell left behind writes to the same pipe, as does what goes on  *)
(* of a cell that was interrupted, under its own nonce.  A write is whole  *)
(* in the pipe: none comes to lie within another.                          *)
(***************************************************************************)
EXTENDS Naturals, Sequences, SequencesExt, FiniteSets

CONSTANTS
    Kinds,       \* the runtimes
    MaxCells,    \* bound: execs, of one cell each
    MaxPrints,   \* bound: messages a cell prints
    MaxMessages, \* messages kept of an exec (RUNTIME_OUTPUT_CAPTURE_POLICY)
    MaxTail,     \* atoms kept of a line not ended (MAX_PROJECTOR_REMAINDER_CHARACTERS)
    MaxTroubles  \* bound: interrupts, saves of the server, hosts that exit, writes that
                 \* fail, and writes of what a cell left behind, together

ASSUME ProtocolAssumption ==
    /\ Kinds \subseteq {"python", "bun", "dotnet", "cpp"}
    /\ MaxCells \in Nat \ {0} /\ MaxPrints \in Nat /\ MaxMessages \in Nat \ {0}
    /\ MaxTail \in Nat \ {0, 1} /\ MaxTroubles \in Nat

Cells == 1..MaxCells
NoExec == 0

VARIABLES
    kind,    \* the session's runtime
    host,    \* its host: where it is, the exec it runs, what its checkpoint holds
    stdin,   \* the exec written to the host and not yet read
    pipe,    \* what the host wrote and the session has not read
    active,  \* the runtime's active exec
    held,    \* its end is held, as the server is saved (endHeld)
    lines,   \* its collector
    capture, \* its capture, but for the messages, which are the record's
    record,  \* each exec's status and messages
    intr,    \* the exec an interrupt in flight is for
    store,   \* the checkpoint committed last: by which exec, and what it holds
    session, \* "live" or "quarantined"
    saved,   \* the server is saved
    spent,   \* the troubles there were, of each kind
    said,    \* history: the messages each exec's host wrote
    left,    \* history: what each exec's cell left as the checkpoint
    ended    \* history: how each exec's end came

protocolVars == <<kind, host, stdin, pipe, active, held, lines, capture, record, intr, store,
                  session, saved, spent, said, left, ended>>

\* RereadsCheckpoint, of no runtime (mutant).
RereadsNone(k) == FALSE

\* The host reads the committed checkpoint with each exec, rather than with the
\* first it runs (run_submission, Session::execute; $checkpoint,
\* EnsureStateInitialized).
RereadsCheckpoint(k) == k \in {"python", "cpp"}
\* A cell that fails leaves the committed checkpoint as it is.
PreservesOnFailure(k) == k = "cpp"
\* How its transport interrupts: others start the host again at once.
Signals(k) == k # "cpp"

CanTrouble == spent.interrupts + spent.faults + spent.saves + spent.writes < MaxTroubles
Trouble(what) == CanTrouble /\ spent' = [spent EXCEPT ![what] = @ + 1]

Fresh == [at |-> "idle", exec |-> NoExec, holds |-> NoExec, loaded |-> FALSE,
          failed |-> FALSE, prints |-> 0, signalled |-> FALSE, told |-> FALSE]
NoLines == [line |-> <<>>, done |-> FALSE, prompted |-> FALSE, found |-> <<>>]
NoCapture == [status |-> "ok", outcome |-> "none", commit |-> NoExec, count |-> 0,
              stopped |-> FALSE, terminal |-> FALSE]

ProtocolInit ==
    /\ kind \in Kinds
    /\ host = Fresh /\ stdin = NoExec /\ pipe = <<>>
    /\ active = NoExec /\ held = FALSE /\ lines = NoLines /\ capture = NoCapture
    /\ record = [e \in Cells |-> [status |-> "none", messages |-> <<>>]]
    /\ intr = NoExec /\ store = [by |-> NoExec, holds |-> NoExec]
    /\ session = "live" /\ saved = FALSE
    /\ spent = [interrupts |-> 0, faults |-> 0, saves |-> 0, writes |-> 0]
    /\ said = [e \in Cells |-> <<>>] /\ left = [e \in Cells |-> NoExec]
    /\ ended = [e \in Cells |-> "no"]

-----------------------------------------------------------------------------
(* What the host writes.                                                   *)

Open(e) == [a |-> "open", exec |-> e]
Closing(env) == [a |-> "close", env |-> env]
Prompt == [a |-> "prompt"]
Text == [a |-> "text"]
LineEnd == [a |-> "end"]
Env(k, v) == [kind |-> k, val |-> v]

\* An envelope of exec e, a line of its own.
Envelope(e, env) == <<Open(e), Closing(env)>>

\* A message of the exec under way; its number tells it from the others.
Says(k) ==
    LET message == Env(k, Len(said[host.exec]) + 1)
    IN  /\ pipe' = pipe \o Envelope(host.exec, message)
        /\ said' = [said EXCEPT ![host.exec] = Append(@, message)]

\* It is written otherwise.
Writes(env) == pipe' = pipe \o Envelope(host.exec, env) /\ UNCHANGED said

Untouched == UNCHANGED <<kind, active, held, lines, capture, record, intr, store, session,
                         saved, ended>>

\* The host reads the exec written to it and, as its runtime does, the committed
\* checkpoint the exec's spec names.  A signal, or a ctrl-c, sent before the exec was
\* written comes first.
HostReads ==
    /\ host.at = "idle" /\ stdin # NoExec /\ (host.signalled => stdin = intr)
    /\ stdin' = NoExec
    /\ host' = [host EXCEPT
                  !.at = "cell", !.exec = stdin, !.failed = FALSE, !.prints = 0,
                  !.loaded = TRUE,
                  !.holds = IF RereadsCheckpoint(kind) \/ ~host.loaded
                            THEN store.holds ELSE @]
    /\ UNCHANGED <<pipe, spent, said, left>> /\ Untouched

\* The cell prints, and may write the session's checkpoint before, which then holds
\* what is the cell's.
Prints ==
    /\ host.at = "cell" /\ host.prints < MaxPrints
    /\ Says("stdout")
    /\ \E holds \in {host.holds, host.exec} :
          host' = [host EXCEPT !.prints = @ + 1, !.holds = holds]
    /\ UNCHANGED <<stdin, spent, left>> /\ Untouched

CellEnds ==
    /\ host.at = "cell"
    /\ host' = [host EXCEPT !.at = "ending"]
    /\ UNCHANGED <<stdin, pipe, spent, said, left>> /\ Untouched

\* The cell does not compile, or throws.
CellFails ==
    /\ host.at = "cell"
    /\ Says("error")
    /\ host' = [host EXCEPT !.at = "ending", !.failed = TRUE]
    /\ UNCHANGED <<stdin, spent, left>> /\ Untouched

\* Its checkpoint is told: a commit, or that the one before is preserved.
TellsCheckpoint ==
    /\ host.at = "ending"
    /\ LET preserved == PreservesOnFailure(kind) /\ host.failed IN
       /\ Writes(IF preserved THEN Env("checkpoint-preserved", NoExec)
                 ELSE Env("checkpoint", host.holds))
       /\ left' = IF preserved THEN left ELSE [left EXCEPT ![host.exec] = host.holds]
    /\ host' = [host EXCEPT !.at = "done"]
    /\ UNCHANGED <<stdin, spent>> /\ Untouched

\* What the cell left cannot be written as a checkpoint: an error instead, and
\* where the runtime keeps to it, that the one before is preserved.
CheckpointFails ==
    /\ host.at = "ending" /\ ~host.failed
    /\ Trouble("faults")
    /\ LET error == Env("error", Len(said[host.exec]) + 1) IN
       /\ said' = [said EXCEPT ![host.exec] = Append(@, error)]
       /\ pipe' = pipe \o Envelope(host.exec, error)
                       \o IF PreservesOnFailure(kind)
                          THEN Envelope(host.exec, Env("checkpoint-preserved", NoExec))
                          ELSE <<>>
    /\ host' = [host EXCEPT !.at = "done"]
    /\ UNCHANGED <<stdin, left>> /\ Untouched

SaysDone ==
    /\ host.at = "done"
    /\ Writes(Env("done", NoExec))
    /\ host' = [host EXCEPT !.at = "prompt"]
    /\ UNCHANGED <<stdin, spent, left>> /\ Untouched

\* Back at its prompt, the host reads on.
Prompts ==
    /\ host.at = "prompt"
    /\ pipe' = Append(pipe, Prompt)
    /\ host' = [Fresh EXCEPT !.holds = host.holds, !.loaded = TRUE,
                            !.signalled = host.signalled]
    /\ UNCHANGED <<stdin, spent, said, left>> /\ Untouched

Dead == [host EXCEPT !.at = "dead", !.signalled = FALSE]

\* The interrupt's signal takes effect.  Python raises it in the cell, whose error
\* it becomes, and ends where it comes anywhere else; Bun's editor abandons the
\* cell, or the line whose end is not written yet (lineSubmitDelayMs), and comes
\* back to its prompt; dotnet-script ends.
TakesSignal ==
    /\ host.signalled
    /\ \/ /\ kind = "python" /\ host.at = "cell"
          /\ Says("error")
          /\ host' = [host EXCEPT !.at = "ending", !.failed = TRUE, !.signalled = FALSE]
          /\ UNCHANGED stdin
       \/ /\ kind = "bun" /\ host.at \in {"cell", "idle"}
          /\ host' = [host EXCEPT !.at = "prompt", !.signalled = FALSE]
          /\ stdin' = IF host.at = "idle" /\ stdin = intr THEN NoExec ELSE stdin
          /\ UNCHANGED <<pipe, said>>
       \/ /\ kind = "dotnet" \/ (kind = "python" /\ host.at # "cell")
          /\ host' = Dead
          /\ UNCHANGED <<stdin, pipe, said>>
    /\ UNCHANGED <<spent, left>> /\ Untouched

\* The host exits of itself.
HostDies ==
    /\ host.at # "dead"
    /\ host' = Dead
    /\ Trouble("faults")
    /\ UNCHANGED <<stdin, pipe, said, left>> /\ Untouched

\* A process a cell left behind writes a line, or what ends none, and a cell that
\* was abandoned goes on to write an envelope of its exec's.
LeftoverWrites ==
    /\ host.at # "dead"
    /\ \E written \in {<<Text>>, <<Text, LineEnd>>} \cup
                      {Envelope(e, Env("stdout", NoExec)) :
                         e \in {b \in Cells : kind = "bun" /\ record[b].status = "interrupted"}} :
          pipe' = pipe \o written
    /\ Trouble("writes")
    /\ UNCHANGED <<host, stdin, said, left>> /\ Untouched

-----------------------------------------------------------------------------
(* What the session reads (exec-markers.ts).                               *)

LastOf(n, s) == IF Len(s) <= n THEN s ELSE SubSeq(s, Len(s) - n + 1, Len(s))

\* parseEnvelopeLine: what follows the exec's own prefix in a line is an envelope,
\* or the line says nothing.
EnvelopeIn(line) ==
    LET opens == {i \in DOMAIN line : line[i] = Open(active)}
        first == CHOOSE i \in opens : \A j \in opens : i <= j
    IN  IF opens # {} /\ first + 1 = Len(line) /\ line[Len(line)].a = "close"
        THEN <<line[Len(line)].env>> ELSE <<>>

\* consumeLine.
LineConsumed(c) ==
    LET env == EnvelopeIn(c.line)
        tells == env # <<>> /\ env[1].kind = "done"
        done == c.done \/ tells
    IN  [line |-> <<>>, done |-> done,
         prompted |-> c.prompted \/ (done /\ c.line = <<Prompt, LineEnd>>),
         found |-> c.found \o IF tells THEN <<>> ELSE env]

AtomConsumed(c, atom) ==
    LET with == [c EXCEPT !.line = Append(@, atom)]
    IN  IF atom.a \in {"close", "end"} THEN LineConsumed(with) ELSE with

AtomsConsumed(c, chunk) == FoldLeft(AtomConsumed, c, chunk)

\* Pushed, which drops what remains of a line not ended (mutant).
PushedWhole(chunk) ==
    [AtomsConsumed([lines EXCEPT !.found = <<>>], chunk) EXCEPT !.line = <<>>]

\* push: the lines a chunk ends are consumed, and what remains is kept to a bound.
Pushed(chunk) ==
    LET c == AtomsConsumed([lines EXCEPT !.found = <<>>], chunk)
    IN  [c EXCEPT !.line = LastOf(MaxTail, @)]

\* IsDone, at once the host says so (mutant).
IsDoneUnprompted(c) == c.done
\* IsDone, once the prompt's line has ended (mutant).
IsDoneByLine(c) == c.prompted

\* snapshot: the exec is done where its host came back to the prompt after it said
\* so, be it in a line not ended.
IsDone(c) == c.prompted \/ (c.done /\ c.line = <<Prompt>>)

-----------------------------------------------------------------------------
(* What it keeps of it (exec-capture.ts).                                  *)

Notice == Env("stderr", "capture stopped")
Told(reason) == Env("server", reason)

\* consumeCheckpointOutcome.
OutcomeTold(c, env) ==
    IF c.outcome # "none"
    THEN [c EXCEPT !.outcome = "invalid", !.status = "error",
                   !.messages = Append(@, Told("more than one outcome"))]
    ELSE IF env.kind = "checkpoint" THEN [c EXCEPT !.outcome = "commit", !.commit = env.val]
    ELSE [c EXCEPT !.outcome = "preserved"]

\* appendBounded.
Bounded(c, env) ==
    IF c.stopped
    THEN IF env.kind # "error" \/ c.terminal THEN c
         ELSE [c EXCEPT !.terminal = TRUE, !.messages = Append(@, env)]
    ELSE LET stops == c.count + 1 >= MaxMessages
         IN  [c EXCEPT !.count = @ + 1, !.stopped = stops,
                       !.messages = @ \o IF stops THEN <<env, Notice>> ELSE <<env>>]

\* consume, of one envelope.
Consumed(c, env) ==
    IF env.kind \in {"checkpoint", "checkpoint-preserved"} THEN OutcomeTold(c, env)
    ELSE Bounded(IF env.kind = "error" /\ c.status # "interrupted"
                 THEN [c EXCEPT !.status = "error"] ELSE c, env)

\* consume.
AllConsumed(c, found) == FoldLeft(Consumed, c, found)

WithMessages(c, messages) ==
    [status |-> c.status, outcome |-> c.outcome, commit |-> c.commit, count |-> c.count,
     stopped |-> c.stopped, terminal |-> c.terminal, messages |-> messages]
Unmessaged(c) ==
    [status |-> c.status, outcome |-> c.outcome, commit |-> c.commit, count |-> c.count,
     stopped |-> c.stopped, terminal |-> c.terminal]

-----------------------------------------------------------------------------
(* The session.                                                            *)

\* No exec is active (activeExec), nor its collector or capture.
Unset == active' = NoExec /\ held' = FALSE /\ lines' = NoLines /\ capture' = NoCapture

\* The drain loop starts the next exec: it is the active one, and its spec, which
\* names the committed checkpoint, is written to the host.
Start(e) ==
    /\ session = "live" /\ active = NoExec /\ ~saved
    /\ record[e].status = "none" /\ \A d \in 1..(e - 1) : record[d].status # "none"
    /\ active' = e /\ held' = FALSE /\ lines' = NoLines /\ capture' = NoCapture
    /\ record' = [record EXCEPT ![e].status = "running"]
    /\ stdin' = e
    /\ UNCHANGED <<kind, host, pipe, intr, store, session, saved, spent, said, left, ended>>

\* settleCheckpointOutcome: whether the exec did not end with one valid commit, or
\* one preservation after an error.
Unsettled(c) ==
    /\ c.status # "interrupted"
    /\ c.outcome \in {"none", "invalid"} \/ (c.outcome = "preserved" /\ c.status # "error")

\* Commits, of an interrupted exec's too (mutant).
CommitsAnyhow(c) == c.outcome = "commit"

\* commitCheckpointCommit, of an exec that was not interrupted.
Commits(c) == c.status # "interrupted" /\ c.outcome = "commit"

\* endExec: its checkpoint is settled, and where that fails the session quarantined
\* and its host stopped.
EndsExec(c, messages) ==
    \E failed \in BOOLEAN :
       /\ failed => Commits(c)
       /\ LET bad == Unsettled(c) \/ failed IN
          /\ record' = [record EXCEPT ![active] =
                          [status |-> IF bad THEN "error" ELSE c.status,
                           messages |-> IF bad THEN Append(messages, Told("checkpoint"))
                                        ELSE messages]]
          /\ store' = IF Commits(c) /\ ~bad THEN [by |-> active, holds |-> c.commit] ELSE store
          /\ session' = IF bad THEN "quarantined" ELSE session
          /\ host' = IF bad THEN Dead ELSE host
       /\ IF failed THEN Trouble("faults") ELSE UNCHANGED spent
       /\ ended' = [ended EXCEPT ![active] = "done"]
       /\ Unset
       /\ UNCHANGED <<kind, stdin, intr, saved, said, left>>

\* onBrokerChunk: a chunk of the host's output, cut anywhere.
ReadsChunk ==
    /\ pipe # <<>>
    /\ \E n \in 1..Len(pipe) :
       /\ pipe' = SubSeq(pipe, n + 1, Len(pipe))
       /\ IF active = NoExec \/ held \/ session = "quarantined"
          THEN UNCHANGED <<kind, host, stdin, active, held, lines, capture, record, intr, store,
                           session, saved, spent, said, left, ended>>
          ELSE LET pushed == Pushed(SubSeq(pipe, 1, n))
                   captured == AllConsumed(WithMessages(capture, record[active].messages),
                                           pushed.found)
               IN  IF IsDone(pushed) /\ ~saved THEN EndsExec(captured, captured.messages)
                   ELSE    /\ lines' = [pushed EXCEPT !.found = <<>>]
                           /\ capture' = Unmessaged(captured)
                           /\ record' = [record EXCEPT ![active].messages = captured.messages]
                           /\ held' = IsDone(pushed)
                           /\ UNCHANGED <<kind, host, stdin, active, intr, store, session,
                                          saved, spent, said, left, ended>>

\* sandboxRunsOn: the exec whose end was held ends, where it still runs.
EndsHeld ==
    /\ held /\ ~saved
    /\ EndsExec(capture, record[active].messages)
    /\ UNCHANGED pipe

\* onRuntimeExit and containRuntimeFailure: once the host's output is drained the
\* session hears of its exit, but while an interrupt is in flight, whose it is to
\* start the host again (notifyExit).
HearsOfExit ==
    /\ host.at = "dead" /\ ~host.told /\ pipe = <<>>
    /\ host' = [host EXCEPT !.told = TRUE]
    /\ IF intr # NoExec \/ session = "quarantined"
       THEN UNCHANGED <<record, session, active, held, lines, capture, ended>>
       ELSE /\ session' = "quarantined"
            /\ record' = IF active = NoExec THEN record
                         ELSE [record EXCEPT ![active] =
                                 [status |-> "error",
                                  messages |-> Append(@.messages, Told("runtime exited"))]]
            /\ ended' = IF active = NoExec THEN ended ELSE [ended EXCEPT ![active] = "cut"]
            /\ Unset
    /\ UNCHANGED <<kind, stdin, pipe, intr, store, saved, spent, said, left>>

\* interrupt, to its await of the transport, which signals the host or has it
\* started again.
Interrupt ==
    /\ active # NoExec /\ intr = NoExec /\ session = "live"
    /\ intr' = active
    /\ capture' = [capture EXCEPT !.status = "interrupted"]
    /\ host' = [host EXCEPT !.signalled = Signals(kind) /\ host.at # "dead"]
    /\ Trouble("interrupts")
    /\ UNCHANGED <<kind, stdin, pipe, active, held, lines, record, store, session, saved,
                   said, left, ended>>

\* finalizeInterruptedExec.
Finalized ==
    /\ record' = [record EXCEPT ![active].status = "interrupted"]
    /\ ended' = [ended EXCEPT ![active] = "cut"]
    /\ Unset

\* A new host, of a session's runtime started again.
NewHost ==
    host' = Fresh /\ stdin' = NoExec /\ pipe' = <<>>

\* The host came back to its prompt and answered its probe, everything it wrote
\* having been read: the exec is interrupted, and the host goes on.
SoftInterrupt ==
    /\ intr # NoExec /\ active = intr /\ session = "live"
    /\ Signals(kind) /\ ~host.signalled /\ host.at = "idle" /\ stdin = NoExec /\ pipe = <<>>
    /\ Finalized /\ intr' = NoExec
    /\ UNCHANGED <<kind, host, stdin, pipe, store, session, saved, spent, said, left>>

\* It did not, in time: the exec is interrupted, and the host started again
\* (recycleRuntime).
RecycleInterrupt ==
    /\ intr # NoExec /\ active = intr /\ session = "live"
    /\ Finalized /\ NewHost /\ intr' = NoExec
    /\ UNCHANGED <<kind, store, session, saved, spent, said, left>>

\* The exec ended of itself before the transport answered, as it does once the signal
\* took effect or time is up: nothing is done.
LateInterrupt ==
    /\ intr # NoExec /\ active # intr /\ ~host.signalled
    /\ intr' = NoExec
    /\ UNCHANGED <<kind, host, stdin, pipe, active, held, lines, capture, record, store,
                   session, saved, spent, said, left, ended>>

\* resetToCheckpoint: the exec that runs is interrupted, and the host started again.
\* A quarantined session's is refused.
ResetsHost ==
    /\ session = "live" /\ intr = NoExec /\ store.by # NoExec
    /\ \/ active # NoExec /\ Finalized
       \/ active = NoExec /\ UNCHANGED <<active, held, lines, capture, record, ended>>
    /\ NewHost
    /\ UNCHANGED <<kind, intr, store, session, saved, spent, said, left>>

Save ==
    /\ ~saved
    /\ saved' = TRUE /\ Trouble("saves")
    /\ UNCHANGED <<kind, host, stdin, pipe, active, held, lines, capture, record, intr, store,
                   session, said, left, ended>>

RunsOn ==
    /\ saved /\ saved' = FALSE
    /\ UNCHANGED <<kind, host, stdin, pipe, active, held, lines, capture, record, intr, store,
                   session, spent, said, left, ended>>

ProtocolNext ==
    \/ HostReads \/ Prints \/ CellEnds \/ CellFails \/ TellsCheckpoint
    \/ CheckpointFails \/ SaysDone \/ Prompts \/ TakesSignal \/ HostDies \/ LeftoverWrites
    \/ (\E e \in Cells : Start(e)) \/ ReadsChunk \/ EndsHeld \/ HearsOfExit
    \/ Interrupt \/ SoftInterrupt \/ RecycleInterrupt \/ LateInterrupt
    \/ ResetsHost \/ Save \/ RunsOn

ProtocolSpec == ProtocolInit /\ [][ProtocolNext]_protocolVars

-----------------------------------------------------------------------------
(* Properties.                                                             *)

Ended(e) == record[e].status \notin {"none", "running"}

ProtocolTypeOK ==
    /\ host.at \in {"idle", "cell", "ending", "done", "prompt", "dead"}
    /\ stdin \in {NoExec} \cup Cells /\ active \in {NoExec} \cup Cells /\ intr \in {NoExec} \cup Cells
    /\ Len(lines.line) <= MaxTail /\ lines.found = <<>>
    /\ capture.count <= MaxMessages
    /\ session \in {"live", "quarantined"} /\ saved \in BOOLEAN /\ held \in BOOLEAN
    /\ \A e \in Cells :
         /\ record[e].status \in {"none", "running", "ok", "error", "interrupted"}
         /\ (record[e].status = "running") <=> (active = e)

\* What a record keeps of the messages a host wrote: all, or as many as the bound
\* allows, a notice, and the first error that comes after.
Kept(messages) ==
    IF Len(messages) < MaxMessages THEN messages
    ELSE LET rest == SubSeq(messages, MaxMessages + 1, Len(messages))
             errors == SelectSeq(rest, LAMBDA m : m.kind = "error")
         IN  SubSeq(messages, 1, MaxMessages) \o <<Notice>> \o SubSeq(errors, 1, IF errors = <<>> THEN 0 ELSE 1)

OfHost(messages) == SelectSeq(messages, LAMBDA m : m.kind # "server")

\* An exec's record holds what its host wrote of it, in the order it wrote it, none
\* of it twice and none of another exec's, up to the capture's bound: all of it
\* once the exec ended of itself, however its output fell into chunks and whatever
\* others wrote to the pipe.
RecordIsWhole ==
    \A e \in Cells :
       IF ended[e] = "done" THEN OfHost(record[e].messages) = Kept(said[e])
       ELSE \E n \in 0..Len(said[e]) :
              OfHost(record[e].messages) = Kept(SubSeq(said[e], 1, n))

\* The committed checkpoint is what the cell it came of left, never that of an
\* exec that was interrupted or cut off, and an exec told to be ok wrote no error
\* and has its own committed.
StoreIsWhatWasLeft ==
    /\ store.by # NoExec => /\ store.holds = left[store.by]
                            /\ record[store.by].status \in {"ok", "error"}
                            /\ ended[store.by] = "done"
    /\ \A e \in Cells : record[e].status = "ok" =>
          /\ \A i \in DOMAIN said[e] : said[e][i].kind # "error"
          /\ store.by >= e /\ (store.by = e => store.holds = left[e])

\* A cell starts from the committed checkpoint.  Bun's does not after an exec was
\* interrupted, whose cell goes on holding what it wrote.
CellSeesTheStore ==
    (host.at = "cell" /\ active = host.exec /\ host.holds # host.exec) =>
        \/ host.holds = store.holds
        \/ kind = "bun" /\ \E e \in 1..(host.exec - 1) : record[e].status = "interrupted"

\* An exec is written to a host that is at its prompt: none runs a cell, or has yet
\* to tell how one ended, when the next is started.  Bun's editor may yet write
\* anew the prompt it was at when interrupted.
StartsAtThePrompt ==
    stdin # NoExec => \/ host.at \in {"idle", "dead"}
                      \/ kind = "bun" /\ host.at = "prompt" /\ host.exec = NoExec

\* The host ended while an interrupt was in flight for an exec that had ended of
\* itself: the session is not told (see SessionLifecycle).
Unheard == host.at = "dead" /\ host.told /\ session = "live" /\ intr = NoExec

\* An exec that started is never stranded: it is the active one only as long as its
\* cell runs, something its host wrote is to be read, an interrupt is in flight, its
\* end is held or its host's exit to be told, but where something else wrote to the
\* host's output (a prompt with more in its line is no prompt).
NeverStranded ==
    (/\ active # NoExec /\ pipe = <<>> /\ intr = NoExec /\ ~held
     /\ (host.at = "idle" /\ stdin = NoExec) \/ (host.at = "dead" /\ host.told))
        => Unheard \/ spent.writes > 0

=============================================================================
