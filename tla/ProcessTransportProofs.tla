----------------------- MODULE ProcessTransportProofs -----------------------
(***************************************************************************)
(* Proofs about ProcessTransport, for every configuration, any number of   *)
(* callers and runtimes, and whatever the processes do: it implements      *)
(* RuntimeSlot, and no runtime of a listening session ends in silence.     *)
(***************************************************************************)
EXTENDS ProcessTransport, FiniteSetTheorems, TLAPS

UpModes == {"criu", "start", "idle", "busy"}
\* Where a caller is before it has a runtime, as it ends one, and as it interrupts one.
Early == {"idle", "prepare", "advance", "advanced"}
Ending == {"grace", "forced", "dumped"}
Interrupting == {"go", "fail", "prompt", "delay", "drain", "answer"}

\* Runtimes are launched one by one, one that is live is the one held, and an end is told
\* of only as it is notified.
LifeInv ==
    /\ entry =< launched
    /\ \A i \in Runtimes :
        /\ life[i] = "unborn" <=> i > launched
        /\ life[i] = "live" => i = entry
        /\ life[i] = "unborn" => terminal[i] = "none"
        /\ told[i] => terminal[i] # "none"

\* A process runs only while its runtime is live, and an exit is told, and its memory
\* waited for, only of one that ended, whose own output was read.
OnlyOthers(i) == \A k \in DOMAIN pipe[i] : pipe[i][k].what = "other"
ProcInv == \A i \in Runtimes :
    /\ proc[i].mode = "none" <=> life[i] = "unborn"
    /\ proc[i].mode \in UpModes => life[i] = "live"
    /\ broker[i].freeing \/ terminal[i] \in {"exit", "memory"} => life[i] = "ended" /\ OnlyOthers(i)
    /\ life[i] # "live" /\ broker[i].fresh => OnlyOthers(i)

\* A caller is in an operation on a runtime that was launched; one whose snapshot ended it
\* finds it held still, or nothing, since none is launched before it goes on.
CallInv ==
    /\ \A c \in Callers :
        /\ call[c].on =< launched
        /\ call[c].pc \notin Early => call[c].on # 0
        /\ call[c].pc = "dumped" => entry \in {0, call[c].on}
        /\ call[c].op = "interrupt" => /\ call[c].pc \in Interrupting
                                       /\ call[c].stage \in {"ctrlC", "prompt", "probe"}
    /\ \A c, d \in Callers :
        call[c].pc \in Ending /\ life[call[c].on] = "ended" => call[d].pc # "advanced"

\* A runtime said to be interrupted is, by a caller that answers.
HeardInv ==
    /\ \A i \in Runtimes : broker[i].interrupting =>
          \E c \in Callers : call[c].op = "interrupt" /\ call[c].on = i
    /\ NoSilentEnd

TransportInv == TypeOK /\ LifeInv /\ ProcInv /\ CallInv /\ HeardInv

-----------------------------------------------------------------------------
(* What is written and printed, and what a process is once it died.        *)

LEMMA ItemFacts ==
  /\ \A w \in {"cell", "probe", "empty", "merged"}, n \in Nat : Item(w, n) \in Items
  /\ \A w \in {"prompt", "ack", "other"}, n \in Nat : Item(w, n) \in Tokens /\ Item(w, n).what = w
  /\ Prompt \in Tokens
BY DEF Item, Items, Tokens, Prompt

LEMMA NothingFacts ==
  /\ NoProcess \in Processes /\ NoProcess.mode = "none" /\ NoProcess.line = {}
  /\ NoBroker \in Brokers /\ ~NoBroker.freeing /\ ~NoBroker.fresh /\ ~NoBroker.interrupting
  /\ ~NoBroker.subscribed
  /\ Quiet \in Calls /\ Quiet.pc = "idle" /\ Quiet.op = "none" /\ Quiet.on = 0
BY TransportAssumption DEF NoProcess, NoBroker, Quiet, Processes, Brokers, Calls, Modes, Pcs, Items

LEMMA DyingFacts ==
  ASSUME NEW p \in Processes
  PROVE  Dying(p) \in Processes /\ Dying(p).mode = "dead" /\ Dying(p).line = {}
<1>1. <<>> \in Seq(Items) /\ {} \in SUBSET Items /\ "dead" \in Modes /\ 0 \in Int
  BY DEF Modes
<1> HIDE DEF Items
<1> QED BY <1>1 DEF Dying, Processes

LEMMA EndFacts ==
  ASSUME NEW c, NEW answer
  PROVE  /\ End(c, answer) \in Calls /\ End(c, answer).pc = "idle" /\ End(c, answer).op = "none"
         /\ End(c, answer).on = 0 /\ End(c, answer).stage = "none"
<1>1. \A a \in {"none", "soft"} : [Quiet EXCEPT !.answer = a] \in Calls
  BY NothingFacts DEF Calls
<1>2. \A a : /\ [Quiet EXCEPT !.answer = a].pc = "idle" /\ [Quiet EXCEPT !.answer = a].op = "none"
             /\ [Quiet EXCEPT !.answer = a].on = 0 /\ [Quiet EXCEPT !.answer = a].stage = "none"
  BY DEF Quiet
<1> QED BY <1>1, <1>2 DEF End

-----------------------------------------------------------------------------
(* What keeps the parts of the invariant.                                  *)

\* Where a caller may be as no start goes on from an advance.
Plain(s) ==
    /\ s.on =< launched
    /\ s.pc \notin Early => s.on # 0
    /\ s.pc # "advanced"
    /\ s.pc = "dumped" => entry \in {0, s.on}
    /\ s.pc \in Ending => life[s.on] # "ended"
    /\ s.op = "interrupt" => s.pc \in Interrupting /\ s.stage \in {"ctrlC", "prompt", "probe"}
Alike(s, t) == s.op = t.op /\ s.pc = t.pc /\ s.on = t.on /\ s.stage = t.stage

LEMMA CallKeeps ==
  ASSUME TypeOK, CallInv, UNCHANGED <<life, launched>>, entry' \in {0, entry},
         call' \in [Callers -> Calls],
         \A c \in Callers : Alike(call'[c], call[c]) \/ Plain(call'[c])
  PROVE  CallInv'
<1>1. \A c \in Callers :
        /\ call'[c].on =< launched
        /\ call'[c].pc \notin Early => call'[c].on # 0
        /\ call'[c].pc = "dumped" => entry' \in {0, call'[c].on}
        /\ call'[c].op = "interrupt" => /\ call'[c].pc \in Interrupting
                                        /\ call'[c].stage \in {"ctrlC", "prompt", "probe"}
  BY DEF CallInv, Alike, Plain
<1>2. ASSUME NEW c \in Callers, NEW d \in Callers,
             call'[c].pc \in Ending, life[call'[c].on] = "ended", call'[d].pc = "advanced"
      PROVE  FALSE
  BY <1>2 DEF CallInv, Alike, Plain
<1> QED BY <1>1, <1>2 DEF CallInv

LEMMA HeardKeeps ==
  ASSUME TypeOK, HeardInv, UNCHANGED <<terminal, told>>,
         \A i \in Runtimes : /\ broker'[i].interrupting => broker[i].interrupting
                             /\ broker[i].heard => broker'[i].heard
                             /\ broker'[i].subscribed => broker[i].subscribed,
         \A c \in Callers : call[c].op = "interrupt" =>
                               call'[c].op = "interrupt" /\ call'[c].on = call[c].on
  PROVE  HeardInv'
<1>1. ASSUME NEW i \in Runtimes, broker'[i].interrupting
      PROVE  \E c \in Callers : call'[c].op = "interrupt" /\ call'[c].on = i
  BY <1>1 DEF HeardInv
<1>2. ASSUME NEW i \in Runtimes, terminal[i] # "none", broker'[i].subscribed, ~told[i], ~broker'[i].heard
      PROVE  \E c \in Callers : call'[c].op = "interrupt" /\ call'[c].on = i
  BY <1>2 DEF HeardInv, NoSilentEnd
<1> QED BY <1>1, <1>2 DEF HeardInv, NoSilentEnd

\* A step of the process of runtime i.
LEMMA ProcessKeeps ==
  ASSUME TransportInv, NEW i \in 1..launched,
         UNCHANGED <<kind, slotState, launched, terminal, broker, floorVars, unhandled, ops>>,
         NEW p \in Processes, IsFiniteSet(p.line), p.mode # "none",
         p.mode \in UpModes => proc[i].mode \in UpModes,
         NEW q \in Seq(Tokens),
         q = pipe[i] \/ proc[i].mode \in UpModes \/ (\A k \in DOMAIN q : q[k].what = "other"),
         proc' = [proc EXCEPT ![i] = p], pipe' = [pipe EXCEPT ![i] = q],
         call' \in [Callers -> Calls], \A c \in Callers : Alike(call'[c], call[c])
  PROVE  TransportInv'
<1>1. i \in Runtimes /\ life[i] # "unborn"
  BY TransportAssumption DEF TransportInv, TypeOK, LifeInv, Runtimes
<1>2. /\ proc' \in [Runtimes -> Processes] /\ \A j \in Runtimes : IsFiniteSet(proc'[j].line)
      /\ pipe' \in [Runtimes -> Seq(Tokens)]
  BY <1>1 DEF TransportInv, TypeOK
<1>3. TypeOK'
  BY <1>2 DEF TransportInv, TypeOK, slotState, floorVars
<1>4. LifeInv'
  BY DEF TransportInv, LifeInv, slotState
<1>5. ProcInv'
  <2>1. ASSUME NEW j \in Runtimes, j # i PROVE proc'[j] = proc[j] /\ pipe'[j] = pipe[j]
    BY <2>1 DEF TransportInv, TypeOK
  <2>2. proc'[i] = p /\ pipe'[i] = q
    BY <1>1 DEF TransportInv, TypeOK
  <2>3. life[i] = "ended" /\ OnlyOthers(i) => \A k \in DOMAIN q : q[k].what = "other"
    BY <1>1 DEF TransportInv, ProcInv, OnlyOthers
  <2> QED BY <1>1, <2>1, <2>2, <2>3 DEF TransportInv, ProcInv, OnlyOthers, slotState
<1>6. CallInv'
  BY CallKeeps DEF TransportInv, slotState
<1>7. HeardInv'
  BY HeardKeeps DEF TransportInv, slotState, Alike
<1> QED BY <1>3, <1>4, <1>5, <1>6, <1>7 DEF TransportInv

\* What ends of a cell, or of a runtime, is counted off what interrupts wait for.
LEMMA OwedFacts ==
  ASSUME TypeOK, NEW i
  PROVE  /\ \A n \in Nat : /\ CellsEnd(i, n) \in [Callers -> Calls]
                           /\ \A c \in Callers : Alike(CellsEnd(i, n)[c], call[c])
         /\ OverFor(i) \in [Callers -> Calls]
         /\ \A c \in Callers : Alike(OverFor(i)[c], call[c])
<1>1. ASSUME NEW s \in Calls, NEW n \in Int
      PROVE  [s EXCEPT !.owe = n] \in Calls /\ Alike([s EXCEPT !.owe = n], s)
  BY DEF Calls, Alike
<1>2. ASSUME NEW s \in Calls PROVE s.owe \in Int /\ Alike(s, s)
  BY DEF Calls, Alike
<1>3. \A c \in Callers : call[c] \in Calls
  BY DEF TypeOK
<1>4. ASSUME NEW n \in Nat, NEW c \in Callers
      PROVE  CellsEnd(i, n)[c] \in Calls /\ Alike(CellsEnd(i, n)[c], call[c])
  BY <1>1, <1>2, <1>3 DEF CellsEnd
<1>5. ASSUME NEW c \in Callers
      PROVE  OverFor(i)[c] \in Calls /\ Alike(OverFor(i)[c], call[c])
  BY <1>1, <1>2, <1>3 DEF OverFor
<1> QED BY <1>4, <1>5 DEF CellsEnd, OverFor

\* What a process prints is what its kind of step prints, and no step of one brings it back.
LEMMA ProcessStep == ASSUME TransportInv, NEW i \in 1..launched, ProcessRuns(i) PROVE TransportInv'
<1>1. i \in Runtimes /\ proc[i] \in Processes /\ IsFiniteSet(proc[i].line) /\ pipe[i] \in Seq(Tokens)
      /\ proc[i].mode # "none"
  BY TransportAssumption DEF TransportInv, TypeOK, LifeInv, ProcInv, Runtimes
<1>2. call \in [Callers -> Calls] /\ \A c \in Callers : Alike(call[c], call[c])
  BY DEF TransportInv, TypeOK, Alike
<1>3. /\ proc = [proc EXCEPT ![i] = proc[i]] /\ pipe = [pipe EXCEPT ![i] = pipe[i]]
  BY <1>1 DEF TransportInv, TypeOK
<1>4. ASSUME NEW n \in Int
      PROVE  LET p == [proc[i] EXCEPT !.mode = "idle", !.cells = n]
             IN  p \in Processes /\ p.mode = "idle" /\ p.line = proc[i].line
  BY <1>1 DEF Processes, Modes
<1>a. LET p == [proc[i] EXCEPT !.mode = "idle"]
      IN  p \in Processes /\ p.mode = "idle" /\ p.line = proc[i].line
  BY <1>1 DEF Processes, Modes
<1>5. Append(pipe[i], Prompt) \in Seq(Tokens)
  BY <1>1, ItemFacts
<1>6. CASE Prompts(i)
  <2>1. /\ proc[i].mode \in UpModes
        /\ proc' = [proc EXCEPT ![i] = [proc[i] EXCEPT !.mode = "idle"]]
        /\ pipe' = [pipe EXCEPT ![i] = Append(pipe[i], Prompt)]
        /\ UNCHANGED <<kind, slotState, launched, terminal, broker, floorVars, unhandled, ops, call>>
    BY <1>1, <1>6 DEF Prompts, UpModes, TransportInv, TypeOK
  <2>2. [proc[i] EXCEPT !.mode = "idle"] \in Processes /\ [proc[i] EXCEPT !.mode = "idle"].mode = "idle"
        /\ IsFiniteSet([proc[i] EXCEPT !.mode = "idle"].line)
    BY <1>1, <1>a
  <2> QED BY <2>1, <2>2, <1>1, <1>2, <1>5, ProcessKeeps
<1>7. CASE Restored(i)
  <2>1. /\ proc[i].mode \in UpModes
        /\ proc' = [proc EXCEPT ![i] = [proc[i] EXCEPT !.mode = "idle"]]
        /\ pipe' = [pipe EXCEPT ![i] = pipe[i]]
        /\ UNCHANGED <<kind, slotState, launched, terminal, broker, floorVars, unhandled, ops, call>>
    BY <1>1, <1>3, <1>7 DEF Restored, UpModes, TransportInv, TypeOK
  <2>2. [proc[i] EXCEPT !.mode = "idle"] \in Processes /\ [proc[i] EXCEPT !.mode = "idle"].mode = "idle"
        /\ IsFiniteSet([proc[i] EXCEPT !.mode = "idle"].line)
    BY <1>1, <1>a
  <2> QED BY <2>1, <2>2, <1>1, <1>2, ProcessKeeps
<1>8. CASE Reads(i)
  <2> DEFINE item == Head(proc[i].inbox)
             rest == [proc[i] EXCEPT !.inbox = Tail(@)]
  <2>1. /\ proc[i].mode = "idle" /\ proc[i].inbox \in Seq(Items) /\ proc[i].inbox # <<>>
        /\ UNCHANGED <<kind, slotState, launched, terminal, broker, floorVars, unhandled, ops>>
    BY <1>1, <1>8 DEF Reads, Processes
  <2>2. item \in Items /\ Tail(proc[i].inbox) \in Seq(Items)
    BY <2>1
  <2>3. rest \in Processes /\ rest.mode = "idle" /\ rest.line = proc[i].line /\ rest.cells \in Int
    BY <1>1, <2>1, <2>2 DEF Processes
  <2>4. CASE item.what = "cell" /\ proc' = [proc EXCEPT ![i] = [rest EXCEPT !.mode = "busy"]]
             /\ UNCHANGED <<pipe, call>>
    <3>1. [rest EXCEPT !.mode = "busy"] \in Processes /\ [rest EXCEPT !.mode = "busy"].mode = "busy"
          /\ [rest EXCEPT !.mode = "busy"].line = proc[i].line
      BY <2>3 DEF Processes, Modes
    <3> HIDE DEF rest, item
    <3>2. pipe' = [pipe EXCEPT ![i] = pipe[i]] /\ UNCHANGED call
      BY <1>3, <2>4
    <3> QED BY <1>1, <1>2, <2>1, <2>4, <3>1, <3>2, ProcessKeeps DEF UpModes
  <2>5. CASE /\ item.what = "probe"
             /\ pipe' = [pipe EXCEPT ![i] = @ \o <<Item("ack", item.nonce), Prompt>>]
             /\ proc' = [proc EXCEPT ![i] = rest]
             /\ UNCHANGED call
    <3>1. Item("ack", item.nonce) \in Tokens
      BY <2>2, ItemFacts DEF Items
    <3> DEFINE q == pipe[i] \o <<Item("ack", item.nonce), Prompt>>
    <3>2. q \in Seq(Tokens)
      BY <1>1, <3>1, ItemFacts
    <3>3. pipe' = [pipe EXCEPT ![i] = q]
      BY <2>5
    <3> HIDE DEF rest, item, q
    <3> QED BY <1>1, <1>2, <2>1, <2>3, <2>5, <3>2, <3>3, ProcessKeeps DEF UpModes
  <2>6. CASE /\ item.what \in {"empty", "merged"}
             /\ pipe' = [pipe EXCEPT ![i] = Append(@, Prompt)]
             /\ proc' = [proc EXCEPT ![i] =
                  [rest EXCEPT !.cells = IF item.what = "merged" THEN @ - item.nonce ELSE @]]
             /\ call' = IF item.what = "merged" THEN CellsEnd(i, item.nonce) ELSE call
    <3> DEFINE p == [rest EXCEPT !.cells = IF item.what = "merged" THEN @ - item.nonce ELSE @]
    <3>1. item.nonce \in Nat
      BY <2>2 DEF Items
    <3>2. p \in Processes /\ p.mode = "idle" /\ p.line = proc[i].line
      <4> HIDE DEF rest, item
      <4> QED BY <2>3, <3>1 DEF Processes
    <3>3. call' \in [Callers -> Calls] /\ \A c \in Callers : Alike(call'[c], call[c])
      <4> HIDE DEF item
      <4> QED BY <1>2, <2>6, <3>1, OwedFacts DEF TransportInv
    <3>4. proc' = [proc EXCEPT ![i] = p] /\ pipe' = [pipe EXCEPT ![i] = Append(pipe[i], Prompt)]
      BY <2>6
    <3> HIDE DEF p, rest, item
    <3> QED BY <1>1, <1>5, <2>1, <3>2, <3>3, <3>4, ProcessKeeps DEF UpModes
  <2> QED BY <1>8, <2>4, <2>5, <2>6 DEF Reads
<1>9. CASE CellDone(i)
  <2>1. /\ proc[i].mode = "busy" /\ proc[i].cells - 1 \in Int
        /\ proc' = [proc EXCEPT ![i] = [proc[i] EXCEPT !.mode = "idle", !.cells = proc[i].cells - 1]]
        /\ pipe' = [pipe EXCEPT ![i] = Append(pipe[i], Prompt)]
        /\ UNCHANGED <<kind, slotState, launched, terminal, broker, floorVars, unhandled, ops>>
    <3>1. proc[i].cells \in Int
      BY <1>1 DEF Processes
    <3>2. proc' = [proc EXCEPT ![i] = [proc[i] EXCEPT !.mode = "idle", !.cells = proc[i].cells - 1]]
      BY <1>1, <1>9 DEF CellDone, TransportInv, TypeOK
    <3>3. /\ proc[i].mode = "busy" /\ pipe' = [pipe EXCEPT ![i] = Append(pipe[i], Prompt)]
          /\ UNCHANGED <<kind, slotState, launched, terminal, broker, floorVars, unhandled, ops>>
      BY <1>9 DEF CellDone
    <3> QED BY <3>1, <3>2, <3>3
  <2>2. call' \in [Callers -> Calls] /\ \A c \in Callers : Alike(call'[c], call[c])
    BY <1>9, OwedFacts DEF CellDone, TransportInv
  <2> QED BY <2>1, <2>2, <1>1, <1>4, <1>5, ProcessKeeps DEF UpModes
<1>10. CASE CellPrints(i)
  <2>1. /\ proc[i].mode = "busy" /\ proc' = [proc EXCEPT ![i] = proc[i]]
        /\ pipe' = [pipe EXCEPT ![i] = <<Prompt>>]
        /\ UNCHANGED <<kind, slotState, launched, terminal, broker, floorVars, unhandled, ops, call>>
    BY <1>3, <1>10 DEF CellPrints
  <2>2. <<Prompt>> \in Seq(Tokens)
    BY ItemFacts
  <2> QED BY <2>1, <2>2, <1>1, <1>2, ProcessKeeps DEF UpModes
<1>11. CASE Forks(i) \/ HolderEnds(i)
  <2>1. PICK h \in {"none", "group", "away"} : proc' = [proc EXCEPT ![i] = [proc[i] EXCEPT !.holder = h]]
    BY <1>1, <1>11 DEF Forks, HolderEnds, TransportInv, TypeOK
  <2>2. [proc[i] EXCEPT !.holder = h] \in Processes /\ [proc[i] EXCEPT !.holder = h].mode = proc[i].mode
        /\ [proc[i] EXCEPT !.holder = h].line = proc[i].line
    BY <1>1 DEF Processes
  <2>3. /\ pipe' = [pipe EXCEPT ![i] = pipe[i]]
        /\ UNCHANGED <<kind, slotState, launched, terminal, broker, floorVars, unhandled, ops, call>>
    BY <1>3, <1>11 DEF Forks, HolderEnds
  <2> QED BY <2>1, <2>2, <2>3, <1>1, <1>2, ProcessKeeps
<1>12. CASE HolderWrites(i)
  <2> DEFINE q == <<Item("other", 0)>>
  <2>1. /\ proc' = [proc EXCEPT ![i] = proc[i]] /\ pipe' = [pipe EXCEPT ![i] = q]
        /\ UNCHANGED <<kind, slotState, launched, terminal, broker, floorVars, unhandled, ops, call>>
    BY <1>3, <1>12 DEF HolderWrites
  <2>2. q \in Seq(Tokens) /\ \A k \in DOMAIN q : q[k].what = "other"
    BY ItemFacts
  <2> HIDE DEF q
  <2> QED BY <2>1, <2>2, <1>1, <1>2, ProcessKeeps
<1>13. CASE Dies(i)
  <2>1. /\ proc' = [proc EXCEPT ![i] = Dying(proc[i])] /\ pipe' = [pipe EXCEPT ![i] = pipe[i]]
        /\ UNCHANGED <<kind, slotState, launched, terminal, broker, floorVars, unhandled, ops>>
    BY <1>3, <1>13 DEF Dies
  <2>2. Dying(proc[i]) \in Processes /\ Dying(proc[i]).mode = "dead" /\ IsFiniteSet(Dying(proc[i]).line)
    BY <1>1, DyingFacts, FS_EmptySet
  <2>3. call' \in [Callers -> Calls] /\ \A c \in Callers : Alike(call'[c], call[c])
    BY <1>13, OwedFacts DEF Dies, TransportInv
  <2> QED BY <2>1, <2>2, <2>3, <1>1, ProcessKeeps DEF UpModes
<1> QED BY <1>6, <1>7, <1>8, <1>9, <1>10, <1>11, <1>12, <1>13 DEF ProcessRuns

-----------------------------------------------------------------------------
(* What the server reads and sees.                                         *)

LEMMA PrintedFact == ASSUME TypeOK, NEW i \in Runtimes PROVE Printed(i) \in Nat
<1>1. pipe[i] \in Seq(Tokens) /\ DOMAIN pipe[i] = 1..Len(pipe[i]) /\ Len(pipe[i]) \in Nat
  BY DEF TypeOK
<1>2. IsFiniteSet(DOMAIN pipe[i])
  BY <1>1, FS_Interval
<1>3. IsFiniteSet({k \in DOMAIN pipe[i] : pipe[i][k] = Prompt})
  BY <1>2, FS_Subset
<1> QED BY <1>3, FS_CardinalityType DEF Printed

\* A caller whose wait ends, as it goes on or fails.
LEMMA WaitEnds ==
  ASSUME TypeOK, CallInv, NEW c \in Callers, call[c].pc \notin Early, NEW pc \in {"go", "fail"}
  PROVE  [call[c] EXCEPT !.pc = pc] \in Calls /\ Plain([call[c] EXCEPT !.pc = pc])
<1>1. call[c] \in Calls /\ pc \in Pcs
  BY DEF TypeOK, Pcs
<1>2. ASSUME NEW s, s.op = call[c].op, s.on = call[c].on, s.stage = call[c].stage, s.pc = pc PROVE Plain(s)
  BY <1>2 DEF CallInv, Plain, Early, Ending, Interrupting
<1>3. [call[c] EXCEPT !.pc = pc] \in Calls
  BY <1>1 DEF Calls
<1>4. Plain([call[c] EXCEPT !.pc = pc])
  BY <1>1, <1>2 DEF Calls
<1> QED BY <1>3, <1>4

LEMMA ProbeEnds ==
  ASSUME TypeOK, CallInv, NEW c \in Callers, call[c].pc \notin Early, NEW pc \in {"go", "fail"},
         NEW probe \in {"none", "sent", "answered", "failed"}, NEW s,
         s = [call[c] EXCEPT !.pc = pc, !.probe = probe] \/ s = [call[c] EXCEPT !.probe = probe, !.pc = pc]
  PROVE  s \in Calls /\ Plain(s) /\ s.op = call[c].op /\ s.on = call[c].on
<1>1. call[c] \in Calls /\ pc \in Pcs
  BY DEF TypeOK, Pcs
<1>2. s.op = call[c].op /\ s.on = call[c].on /\ s.stage = call[c].stage /\ s.pc = pc
  BY <1>1 DEF Calls
<1>3. Plain(s)
  BY <1>2 DEF CallInv, Plain, Early, Ending, Interrupting
<1>4. s \in Calls
  BY <1>1 DEF Calls
<1> QED BY <1>2, <1>3, <1>4

\* notifyExit fails what waits on runtime i, and its session hears of it or is answered.
LEMMA NotifyKeeps ==
  ASSUME TransportInv, NEW i \in 1..launched, NEW why \in {"exit", "memory", "stdin", "error"},
         Notify(i, why), UNCHANGED <<entry, life, launched>>,
         \A j \in Runtimes : /\ broker'[j].interrupting = broker[j].interrupting
                             /\ broker'[j].heard = broker[j].heard
                             /\ broker'[j].subscribed = broker[j].subscribed
  PROVE  /\ terminal' \in [Runtimes -> {"none", "exit", "memory", "stdin", "error"}]
         /\ told' \in [Runtimes -> BOOLEAN] /\ call' \in [Callers -> Calls] /\ unhandled' \in BOOLEAN
         /\ LifeInv' /\ CallInv' /\ HeardInv'
         /\ \A j \in Runtimes : terminal'[j] # terminal[j] => j = i /\ terminal'[j] = why
<1>1. i \in Runtimes /\ life[i] # "unborn"
  BY TransportAssumption DEF TransportInv, TypeOK, LifeInv, Runtimes
<1>2. CASE terminal[i] # "none"
  <2>1. UNCHANGED <<terminal, told, call, unhandled>>
    BY <1>2 DEF Notify
  <2>2. LifeInv' /\ CallInv'
    BY <2>1 DEF TransportInv, LifeInv, CallInv
  <2>3. HeardInv'
    BY <2>1, HeardKeeps DEF TransportInv
  <2> QED BY <2>1, <2>2, <2>3 DEF TransportInv, TypeOK
<1>3. CASE terminal[i] = "none"
  <2>1. /\ terminal' = [terminal EXCEPT ![i] = why]
        /\ told' = [told EXCEPT ![i] = broker[i].subscribed /\ ~broker[i].interrupting]
        /\ call' = [c \in Callers |-> NotifyWaiters(i, why, call[c])]
        /\ unhandled' \in BOOLEAN
    BY <1>3 DEF Notify, TransportInv, TypeOK
  <2>2. /\ terminal' \in [Runtimes -> {"none", "exit", "memory", "stdin", "error"}]
        /\ told' \in [Runtimes -> BOOLEAN]
    BY <2>1 DEF TransportInv, TypeOK
  <2>3. ASSUME NEW c \in Callers
        PROVE  /\ call'[c] \in Calls /\ (Alike(call'[c], call[c]) \/ Plain(call'[c]))
               /\ call'[c].op = call[c].op /\ call'[c].on = call[c].on
    <3>1. call'[c] = NotifyWaiters(i, why, call[c]) /\ call[c] \in Calls
      BY <2>1 DEF TransportInv, TypeOK
    <3>2. CASE call[c].on = i /\ call[c].pc \in {"prompt", "answer", "drain"}
      <4>1. call[c].pc \notin Early
        BY <3>2 DEF Early
      <4>2. CASE call[c].probe = "sent"
        <5>1. call'[c] = [call[c] EXCEPT !.pc = "fail", !.probe = "failed"]
          BY <3>1, <3>2, <4>2 DEF NotifyWaiters
        <5> QED BY <4>1, <5>1, ProbeEnds DEF TransportInv
      <4>3. CASE call[c].probe # "sent"
        <5>1. call'[c] = [call[c] EXCEPT !.pc = "fail"]
          BY <3>1, <3>2, <4>3 DEF NotifyWaiters, Calls
        <5>2. call'[c] \in Calls /\ Plain(call'[c])
          BY <4>1, <5>1, WaitEnds DEF TransportInv
        <5> QED BY <3>1, <5>1, <5>2 DEF Calls
      <4> QED BY <4>2, <4>3
    <3>3. CASE ~(call[c].on = i /\ call[c].pc \in {"prompt", "answer", "drain"})
      BY <3>1, <3>3 DEF NotifyWaiters, Alike, Calls
    <3> QED BY <3>2, <3>3
  <2>4. call' \in [Callers -> Calls]
    BY <2>1, <2>3
  <2>5. CallInv'
    BY <2>3, <2>4, CallKeeps DEF TransportInv
  <2>6. terminal'[i] = why /\ told'[i] = (broker[i].subscribed /\ ~broker[i].interrupting)
        /\ \A j \in Runtimes \ {i} : terminal'[j] = terminal[j] /\ told'[j] = told[j]
    BY <1>1, <2>1 DEF TransportInv, TypeOK
  <2>7. LifeInv'
    BY <1>1, <2>6 DEF TransportInv, LifeInv
  <2>8. HeardInv'
    <3>1. \A j \in Runtimes, c \in Callers : call[c].op = "interrupt" /\ call[c].on = j
                                          => call'[c].op = "interrupt" /\ call'[c].on = j
      BY <2>3
    <3>2. \A j \in Runtimes : broker[j].interrupting =>
             \E c \in Callers : call[c].op = "interrupt" /\ call[c].on = j
      BY DEF TransportInv, HeardInv
    <3>3. NoSilentEnd'
      <4> SUFFICES ASSUME NEW j \in Runtimes, terminal'[j] # "none", broker'[j].subscribed, ~told'[j]
                   PROVE  broker'[j].heard \/ \E c \in Callers : call'[c].op = "interrupt" /\ call'[c].on = j
        BY DEF NoSilentEnd
      <4>1. CASE j = i
        BY <2>6, <3>1, <3>2, <4>1
      <4>2. CASE j # i
        <5>1. terminal[j] # "none" /\ broker[j].subscribed /\ ~told[j]
          BY <2>6, <4>2
        <5> QED BY <3>1, <5>1 DEF TransportInv, HeardInv, NoSilentEnd
      <4> QED BY <4>1, <4>2
    <3> QED BY <3>1, <3>2, <3>3 DEF HeardInv
  <2> QED BY <2>1, <2>2, <2>4, <2>5, <2>6, <2>7, <2>8
<1> QED BY <1>2, <1>3

LEMMA ExitStep == ASSUME TransportInv, NEW i \in 1..launched, Exit(i) PROVE TransportInv'
<1>1. i \in Runtimes
  BY TransportAssumption DEF TransportInv, TypeOK, Runtimes
<1>2. /\ Settled /\ proc[i].mode = "dead" /\ life[i] = "live"
      /\ life' = [life EXCEPT ![i] = "ended"]
      /\ broker' = [broker EXCEPT ![i].fresh = FALSE]
      /\ UNCHANGED <<kind, entry, told, launched, terminal, proc, pipe, call, floorVars, unhandled, ops>>
  BY DEF Exit
<1>3. /\ broker'[i] = [broker[i] EXCEPT !.fresh = FALSE] /\ broker'[i] \in Brokers
      /\ \A j \in Runtimes \ {i} : broker'[j] = broker[j]
  BY <1>1, <1>2 DEF TransportInv, TypeOK, Brokers
<1>4. \A j \in Runtimes : /\ broker'[j].interrupting = broker[j].interrupting
                          /\ broker'[j].heard = broker[j].heard
                          /\ broker'[j].subscribed = broker[j].subscribed
                          /\ broker'[j].freeing = broker[j].freeing
                          /\ broker'[j].fresh => broker[j].fresh /\ j # i
  BY <1>1, <1>3 DEF TransportInv, TypeOK, Brokers
<1>5. TypeOK'
  <2>1. broker' \in [Runtimes -> Brokers]
    BY <1>1, <1>2, <1>3 DEF TransportInv, TypeOK
  <2>2. life' \in [Runtimes -> {"unborn", "live", "ended"}]
    BY <1>2 DEF TransportInv, TypeOK
  <2> QED BY <1>2, <2>1, <2>2 DEF TransportInv, TypeOK, floorVars
<1>6. life'[i] = "ended" /\ \A j \in Runtimes \ {i} : life'[j] = life[j]
  BY <1>1, <1>2 DEF TransportInv, TypeOK
<1>7. LifeInv'
  BY <1>1, <1>2, <1>6 DEF TransportInv, LifeInv
<1>8. ProcInv'
  BY <1>1, <1>2, <1>4, <1>6 DEF TransportInv, ProcInv, OnlyOthers, UpModes
<1>9. CallInv'
  BY <1>2 DEF TransportInv, CallInv, Settled
<1>10. HeardInv'
  BY <1>2, <1>4, HeardKeeps DEF TransportInv
<1> QED BY <1>5, <1>7, <1>8, <1>9, <1>10 DEF TransportInv

LEMMA ReadStep == ASSUME TransportInv, NEW i \in 1..launched, Read(i) PROVE TransportInv'
<1>1. i \in Runtimes /\ pipe[i] \in Seq(Tokens)
  BY TransportAssumption DEF TransportInv, TypeOK, Runtimes
<1> DEFINE prompts == broker[i].prompts + Printed(i)
<1>2. /\ pipe' = [pipe EXCEPT ![i] = <<>>]
      /\ broker' = [broker EXCEPT ![i].prompts = prompts, ![i].fresh = TRUE]
      /\ call' = [c \in Callers |-> ReadFor(i, call[c], prompts)]
      /\ UNCHANGED <<kind, slotState, launched, terminal, proc, floorVars, unhandled, ops>>
  BY DEF Read
<1>3. prompts \in Nat
  <2>1. broker[i].prompts \in Nat /\ Printed(i) \in Nat
    BY <1>1, PrintedFact DEF TransportInv, TypeOK, Brokers
  <2> QED BY <2>1
<1> HIDE DEF prompts
<1>4. /\ broker' \in [Runtimes -> Brokers]
      /\ \A j \in Runtimes : /\ broker'[j].interrupting = broker[j].interrupting
                             /\ broker'[j].heard = broker[j].heard
                             /\ broker'[j].subscribed = broker[j].subscribed
                             /\ broker'[j].freeing = broker[j].freeing
                             /\ j # i => broker'[j].fresh = broker[j].fresh
  <2>1. broker \in [Runtimes -> Brokers] /\ broker[i] \in Brokers
    BY <1>1 DEF TransportInv, TypeOK
  <2>2. LET b == [broker[i] EXCEPT !.prompts = prompts, !.fresh = TRUE]
        IN  /\ b \in Brokers /\ b.interrupting = broker[i].interrupting /\ b.heard = broker[i].heard
            /\ b.subscribed = broker[i].subscribed /\ b.freeing = broker[i].freeing
    BY <1>3, <2>1 DEF Brokers
  <2>3. broker' = [broker EXCEPT ![i] = [broker[i] EXCEPT !.prompts = prompts, !.fresh = TRUE]]
    BY <1>1, <1>2, <2>1
  <2> QED BY <1>1, <2>1, <2>2, <2>3
<1>5. pipe' \in [Runtimes -> Seq(Tokens)] /\ pipe'[i] = <<>> /\ \A j \in Runtimes \ {i} : pipe'[j] = pipe[j]
  BY <1>1, <1>2 DEF TransportInv, TypeOK
<1>6. ASSUME NEW c \in Callers
      PROVE  /\ call'[c] \in Calls /\ (Alike(call'[c], call[c]) \/ Plain(call'[c]))
             /\ call'[c].op = call[c].op /\ call'[c].on = call[c].on
  <2>1. call'[c] = ReadFor(i, call[c], prompts) /\ call[c] \in Calls
    BY <1>2 DEF TransportInv, TypeOK
  <2>2. CASE call[c].on = i /\ call[c].pc = "prompt" /\ prompts > call[c].seen
    <3>1. call'[c] = [call[c] EXCEPT !.pc = "go"] /\ call[c].pc \notin Early
      BY <2>1, <2>2 DEF ReadFor, Early
    <3>2. call'[c] \in Calls /\ Plain(call'[c])
      BY <3>1, WaitEnds DEF TransportInv
    <3> QED BY <2>1, <3>1, <3>2 DEF Calls
  <2>3. CASE /\ ~(call[c].on = i /\ call[c].pc = "prompt" /\ prompts > call[c].seen)
             /\ call[c].on = i /\ call[c].probe = "sent" /\ Answered(i, call[c])
    <3>1. CASE call[c].pc = "answer"
      <4>1. call'[c] = [call[c] EXCEPT !.probe = "answered", !.pc = "go"]
        BY <2>1, <2>3, <3>1 DEF ReadFor
      <4>2. call[c].pc \notin Early
        BY <3>1 DEF Early
      <4> QED BY <4>1, <4>2, ProbeEnds DEF TransportInv
    <3>2. CASE call[c].pc # "answer"
      <4>1. call'[c] = [call[c] EXCEPT !.probe = "answered", !.pc = call[c].pc]
        BY <2>1, <2>3, <3>2 DEF ReadFor
      <4> QED BY <2>1, <4>1 DEF Alike, Calls
    <3> QED BY <3>1, <3>2
  <2>4. CASE call'[c] = call[c]
    BY <2>1, <2>4 DEF Alike
  <2> QED BY <2>1, <2>2, <2>3, <2>4 DEF ReadFor
<1>7. call' \in [Callers -> Calls]
  BY <1>2, <1>6
<1>8. TypeOK'
  BY <1>2, <1>4, <1>5, <1>7 DEF TransportInv, TypeOK, slotState, floorVars
<1>9. LifeInv'
  BY <1>2 DEF TransportInv, LifeInv, slotState
<1>10. ProcInv'
  BY <1>1, <1>2, <1>4, <1>5 DEF TransportInv, ProcInv, OnlyOthers, slotState
<1>11. CallInv'
  BY <1>2, <1>6, <1>7, CallKeeps DEF TransportInv, slotState
<1>12. HeardInv'
  BY <1>2, <1>4, <1>6, HeardKeeps DEF TransportInv, slotState
<1> QED BY <1>8, <1>9, <1>10, <1>11, <1>12 DEF TransportInv

\* An event of runtime i that changes what the server keeps of it, and may tell its end.
LEMMA EventKeeps ==
  ASSUME TransportInv, NEW i \in 1..launched, NEW why \in {"exit", "memory", "stdin", "error"},
         UNCHANGED <<kind, entry, life, launched, proc, pipe, floorVars, ops>>,
         Notify(i, why) \/ UNCHANGED <<terminal, told, call, unhandled>>,
         NEW b \in Brokers, broker' = [broker EXCEPT ![i] = b],
         b.interrupting = broker[i].interrupting, b.heard = broker[i].heard,
         b.subscribed = broker[i].subscribed, b.fresh => broker[i].fresh,
         b.freeing \/ why \in {"exit", "memory"} => life[i] = "ended" /\ OnlyOthers(i)
  PROVE  TransportInv'
<1>1. i \in Runtimes
  BY TransportAssumption DEF TransportInv, TypeOK, Runtimes
<1>2. /\ broker' \in [Runtimes -> Brokers] /\ broker'[i] = b
      /\ \A j \in Runtimes \ {i} : broker'[j] = broker[j]
  BY <1>1 DEF TransportInv, TypeOK
<1>3. \A j \in Runtimes : /\ broker'[j].interrupting = broker[j].interrupting
                          /\ broker'[j].heard = broker[j].heard
                          /\ broker'[j].subscribed = broker[j].subscribed
  BY <1>2
<1>4. /\ terminal' \in [Runtimes -> {"none", "exit", "memory", "stdin", "error"}]
      /\ told' \in [Runtimes -> BOOLEAN] /\ call' \in [Callers -> Calls] /\ unhandled' \in BOOLEAN
      /\ LifeInv' /\ CallInv' /\ HeardInv'
      /\ \A j \in Runtimes : terminal'[j] # terminal[j] => j = i /\ terminal'[j] = why
  <2>1. CASE Notify(i, why)
    BY <1>3, <2>1, NotifyKeeps
  <2>2. CASE UNCHANGED <<terminal, told, call, unhandled>>
    <3>1. LifeInv' /\ CallInv'
      BY <2>2 DEF TransportInv, LifeInv, CallInv
    <3>2. HeardInv'
      BY <1>3, <2>2, HeardKeeps DEF TransportInv
    <3> QED BY <2>2, <3>1, <3>2 DEF TransportInv, TypeOK
  <2> QED BY <2>1, <2>2
<1>5. TypeOK'
  BY <1>2, <1>4 DEF TransportInv, TypeOK, floorVars
<1>6. ProcInv'
  <2>1. ASSUME NEW j \in Runtimes, broker'[j].freeing \/ terminal'[j] \in {"exit", "memory"}
        PROVE  life[j] = "ended" /\ OnlyOthers(j)
    BY <1>2, <1>4, <2>1 DEF TransportInv, ProcInv
  <2>2. \A j \in Runtimes : life[j] # "live" /\ broker'[j].fresh => OnlyOthers(j)
    BY <1>2 DEF TransportInv, ProcInv
  <2> QED BY <2>1, <2>2 DEF TransportInv, ProcInv, OnlyOthers
<1> QED BY <1>4, <1>5, <1>6 DEF TransportInv

LEMMA EventStep == ASSUME TransportInv, NEW i \in 1..launched, Events(i) PROVE TransportInv'
<1>1. i \in Runtimes /\ broker[i] \in Brokers /\ broker = [broker EXCEPT ![i] = broker[i]]
  BY TransportAssumption DEF TransportInv, TypeOK, Runtimes
<1>2. CASE Read(i)
  BY <1>2, ReadStep
<1>3. CASE Exit(i)
  BY <1>3, ExitStep
\* What `ended` does, its output read, with b for what is kept of runtime i.
<1>4. ASSUME NEW b \in Brokers, Ended(i, b), life[i] = "ended", OnlyOthers(i),
             b.interrupting = broker[i].interrupting, b.heard = broker[i].heard,
             b.subscribed = broker[i].subscribed, b.fresh => broker[i].fresh,
             UNCHANGED <<kind, entry, life, launched, proc, pipe, floorVars, ops>>
      PROVE  TransportInv'
  <2>1. CASE broker' = [broker EXCEPT ![i] = b] /\ Notify(i, "exit")
    BY <1>4, <2>1, EventKeeps
  <2>2. CASE /\ broker' = [broker EXCEPT ![i] = [b EXCEPT !.freeing = TRUE]]
             /\ UNCHANGED <<terminal, told, call, unhandled>>
    <3> DEFINE f == [b EXCEPT !.freeing = TRUE]
    <3>1. /\ f \in Brokers /\ f.interrupting = b.interrupting /\ f.heard = b.heard
          /\ f.subscribed = b.subscribed /\ f.fresh = b.fresh
      BY DEF Brokers
    <3>2. broker' = [broker EXCEPT ![i] = f]
      BY <2>2
    <3> HIDE DEF f
    <3>3. f.fresh => broker[i].fresh
      BY <1>4, <3>1
    <3>4. f.interrupting = broker[i].interrupting /\ f.heard = broker[i].heard
          /\ f.subscribed = broker[i].subscribed
      BY <1>4, <3>1
    <3>5. Notify(i, "exit") \/ UNCHANGED <<terminal, told, call, unhandled>>
      BY <2>2
    <3> QED BY <1>4, <3>1, <3>2, <3>3, <3>4, <3>5, EventKeeps
  <2> QED BY <1>4, <2>1, <2>2 DEF Ended
<1>5. CASE Close(i)
  <2>1. LET b == [broker[i] EXCEPT !.closed = TRUE]
        IN  /\ b \in Brokers /\ b.interrupting = broker[i].interrupting /\ b.heard = broker[i].heard
            /\ b.subscribed = broker[i].subscribed /\ b.fresh = broker[i].fresh
    BY <1>1 DEF Brokers
  <2>2. /\ life[i] = "ended" /\ pipe[i] = <<>> /\ Ended(i, [broker[i] EXCEPT !.closed = TRUE])
        /\ UNCHANGED <<kind, entry, life, launched, proc, pipe, floorVars, ops>>
    BY <1>5 DEF Close
  <2>3. OnlyOthers(i)
    BY <2>2 DEF OnlyOthers
  <2> QED BY <1>4, <2>1, <2>2, <2>3
<1>6. CASE Drain(i)
  <2>1. /\ life[i] = "ended" /\ (pipe[i] = <<>> \/ broker[i].fresh)
        /\ UNCHANGED <<kind, entry, life, launched, proc, pipe, floorVars, ops>>
    BY <1>6 DEF Drain
  <2>2. OnlyOthers(i)
    <3>1. CASE pipe[i] = <<>>
      BY <3>1 DEF OnlyOthers
    <3>2. CASE broker[i].fresh
      BY <1>1, <2>1, <3>2 DEF TransportInv, ProcInv
    <3> QED BY <2>1, <3>1, <3>2
  <2>3. CASE Ended(i, [broker[i] EXCEPT !.drained = TRUE])
    <3>1. LET b == [broker[i] EXCEPT !.drained = TRUE]
          IN  /\ b \in Brokers /\ b.interrupting = broker[i].interrupting /\ b.heard = broker[i].heard
              /\ b.subscribed = broker[i].subscribed /\ b.fresh = broker[i].fresh
      BY <1>1 DEF Brokers
    <3> QED BY <1>4, <2>1, <2>2, <2>3, <3>1
  <2>4. CASE /\ broker' = [broker EXCEPT ![i].fresh = FALSE, ![i].intervals = @ + 1]
             /\ UNCHANGED <<terminal, told, call, unhandled>>
    <3> DEFINE f == [broker[i] EXCEPT !.fresh = FALSE, !.intervals = @ + 1]
    <3>1. /\ f \in Brokers /\ f.interrupting = broker[i].interrupting /\ f.heard = broker[i].heard
          /\ f.subscribed = broker[i].subscribed /\ ~f.fresh /\ f.freeing = broker[i].freeing
      <4>1. broker[i].intervals \in Nat
        BY <1>1 DEF Brokers
      <4>2. broker[i].intervals + 1 \in Nat
        BY <4>1
      <4> QED BY <1>1, <4>2 DEF Brokers
    <3>2. broker' = [broker EXCEPT ![i] = f]
      BY <1>1, <2>4
    <3> HIDE DEF f
    <3> QED BY <2>1, <2>2, <2>4, <3>1, <3>2, EventKeeps
  <2> QED BY <1>6, <2>3, <2>4 DEF Drain
<1>7. CASE Freed(i)
  <2> DEFINE f == [broker[i] EXCEPT !.freeing = FALSE]
  <2>1. /\ broker[i].freeing /\ broker' = [broker EXCEPT ![i] = f] /\ Notify(i, "memory")
        /\ UNCHANGED <<kind, entry, life, launched, proc, pipe, floorVars, ops>>
    BY <1>1, <1>7 DEF Freed
  <2>2. /\ f \in Brokers /\ f.interrupting = broker[i].interrupting /\ f.heard = broker[i].heard
        /\ f.subscribed = broker[i].subscribed /\ f.fresh = broker[i].fresh
    BY <1>1 DEF Brokers
  <2>3. life[i] = "ended" /\ OnlyOthers(i)
    BY <1>1, <2>1 DEF TransportInv, ProcInv
  <2> HIDE DEF f
  <2> QED BY <2>1, <2>2, <2>3, EventKeeps
<1>8. CASE StdinFails(i)
  <2> DEFINE f == [broker[i] EXCEPT !.epipe = FALSE]
  <2>1. /\ broker' = [broker EXCEPT ![i] = f] /\ Notify(i, "stdin")
        /\ UNCHANGED <<kind, entry, life, launched, proc, pipe, floorVars, ops>>
    BY <1>1, <1>8 DEF StdinFails
  <2>2. /\ f \in Brokers /\ f.interrupting = broker[i].interrupting /\ f.heard = broker[i].heard
        /\ f.subscribed = broker[i].subscribed /\ f.fresh = broker[i].fresh
        /\ f.freeing = broker[i].freeing
    BY <1>1 DEF Brokers
  <2>3. f.freeing => life[i] = "ended" /\ OnlyOthers(i)
    BY <1>1, <2>2 DEF TransportInv, ProcInv
  <2> HIDE DEF f
  <2> QED BY <2>1, <2>2, <2>3, EventKeeps
<1>9. CASE SpawnFails(i)
  <2>1. /\ broker' = [broker EXCEPT ![i] = broker[i]] /\ Notify(i, "error")
        /\ UNCHANGED <<kind, entry, life, launched, proc, pipe, floorVars, ops>>
    BY <1>1, <1>9 DEF SpawnFails
  <2>2. broker[i].freeing => life[i] = "ended" /\ OnlyOthers(i)
    BY <1>1 DEF TransportInv, ProcInv
  <2> QED BY <1>1, <2>1, <2>2, EventKeeps
<1> QED BY <1>2, <1>3, <1>5, <1>6, <1>7, <1>8, <1>9 DEF Events

-----------------------------------------------------------------------------
(* What the operations do, where no runtime is launched or forgotten.      *)

\* Caller c goes on as s, the others as they were but for what is owed them.
LEMMA CallerFacts ==
  ASSUME NEW c \in Callers, NEW f \in [Callers -> Calls], \A d \in Callers : Alike(f[d], call[d]),
         NEW s \in Calls, call' = [f EXCEPT ![c] = s]
  PROVE  /\ call' \in [Callers -> Calls] /\ call'[c] = s
         /\ \A d \in Callers \ {c} : Alike(call'[d], call[d])
BY DEF Alike

\* A step that changes no runtime's life, forgets one only as it ended, and of the processes
\* and what they printed changes only what a process that runs may change.
LEMMA QuietKeeps ==
  ASSUME TransportInv, UNCHANGED <<kind, life, told, launched, terminal>>,
         entry' = entry \/ (entry' = 0 /\ (entry \in Runtimes => life[entry] # "live")),
         call' \in [Callers -> Calls], \A c \in Callers : Alike(call'[c], call[c]) \/ Plain(call'[c]),
         broker' \in [Runtimes -> Brokers],
         \A j \in Runtimes : broker'[j].freeing = broker[j].freeing /\ broker'[j].fresh = broker[j].fresh,
         proc' \in [Runtimes -> Processes], \A j \in Runtimes : IsFiniteSet(proc'[j].line),
         \A j \in Runtimes : /\ proc'[j].mode = "none" <=> proc[j].mode = "none"
                             /\ proc'[j].mode \in UpModes => proc[j].mode \in UpModes,
         pipe' \in [Runtimes -> Seq(Tokens)],
         \A j \in Runtimes : pipe'[j] = pipe[j] \/ proc[j].mode \in UpModes,
         past' \in BOOLEAN, advancing' \in BOOLEAN, unhandled' \in BOOLEAN, ops' \in 0..MaxOps
  PROVE  TypeOK' /\ LifeInv' /\ ProcInv' /\ CallInv'
<1>0. entry' \in {0, entry} /\ entry' \in 0..MaxLaunches /\ launched \in Nat
  BY TransportAssumption DEF TransportInv, TypeOK
<1>1. TypeOK'
  BY <1>0 DEF TransportInv, TypeOK
<1>2. LifeInv'
  BY <1>0 DEF TransportInv, LifeInv, TypeOK
<1>3. ProcInv'
  <2>1. ASSUME NEW j \in Runtimes, life[j] # "live", OnlyOthers(j) PROVE OnlyOthers(j)'
    BY <2>1 DEF TransportInv, ProcInv, OnlyOthers
  <2> QED BY <2>1 DEF TransportInv, ProcInv
<1>4. CallInv'
  BY <1>0, CallKeeps DEF TransportInv
<1> QED BY <1>1, <1>2, <1>3, <1>4

\* One that leaves the processes and what they printed alone.
LEMMA CallerKeeps ==
  ASSUME TransportInv, UNCHANGED <<kind, slotState, launched, terminal, proc, pipe>>,
         call' \in [Callers -> Calls], \A c \in Callers : Alike(call'[c], call[c]) \/ Plain(call'[c]),
         broker' \in [Runtimes -> Brokers],
         \A j \in Runtimes : broker'[j].freeing = broker[j].freeing /\ broker'[j].fresh = broker[j].fresh,
         past' \in BOOLEAN, advancing' \in BOOLEAN, unhandled' \in BOOLEAN, ops' \in 0..MaxOps
  PROVE  TypeOK' /\ LifeInv' /\ ProcInv' /\ CallInv'
BY QuietKeeps DEF TransportInv, TypeOK, slotState

\* And one that changes only where its caller is.
LEMMA WaiterKeeps ==
  ASSUME TransportInv, UNCHANGED <<kind, slotState, launched, terminal, broker, proc, pipe>>,
         NEW c \in Callers, NEW s \in Calls, call' = [call EXCEPT ![c] = s], Plain(s),
         call[c].op = "interrupt" => s.op = "interrupt" /\ s.on = call[c].on,
         past' \in BOOLEAN, advancing' \in BOOLEAN, unhandled' \in BOOLEAN, ops' \in 0..MaxOps
  PROVE  TransportInv'
<1>1. call \in [Callers -> Calls] /\ \A d \in Callers : Alike(call[d], call[d])
  BY DEF TransportInv, TypeOK, Alike
<1>2. /\ call' \in [Callers -> Calls] /\ call'[c] = s
      /\ \A d \in Callers \ {c} : Alike(call'[d], call[d])
  BY <1>1, CallerFacts
<1>3. \A d \in Callers : Alike(call'[d], call[d]) \/ Plain(call'[d])
  BY <1>2
<1>4. TypeOK' /\ LifeInv' /\ ProcInv' /\ CallInv'
  BY <1>2, <1>3, CallerKeeps DEF TransportInv, TypeOK
<1>5. HeardInv'
  BY <1>2, HeardKeeps DEF TransportInv, slotState, Alike
<1> QED BY <1>4, <1>5 DEF TransportInv

LEMMA SubmittedFacts ==
  ASSUME NEW p \in Processes, IsFiniteSet(p.line)
  PROVE  Submitted(p) \in Processes /\ Submitted(p).line = {} /\ Submitted(p).mode = p.mode
<1>1. p.line \in SUBSET Items /\ p.inbox \in Seq(Items)
  BY DEF Processes
<1>2. ASSUME Cardinality(p.line) = 1 PROVE (CHOOSE item \in p.line : TRUE) \in Items
  <2>1. p.line # {}
    BY <1>2, FS_EmptySet
  <2> QED BY <1>1, <2>1
<1>3. Cardinality({item \in p.line : item.what = "cell"}) \in Nat
  BY FS_Subset, FS_CardinalityType
<1> DEFINE item == IF Cardinality(p.line) = 1 THEN CHOOSE item \in p.line : TRUE
                   ELSE IF p.line = {} THEN Item("empty", 0)
                   ELSE Item("merged", Cardinality({x \in p.line : x.what = "cell"}))
<1>4. item \in Items
  BY <1>2, <1>3, ItemFacts
<1>5. Submitted(p) = [p EXCEPT !.line = {}, !.inbox = Append(p.inbox, item)]
  BY DEF Submitted, Processes
<1> HIDE DEF item
<1>6. Append(p.inbox, item) \in Seq(Items) /\ {} \in SUBSET Items
  BY <1>1, <1>4
<1> HIDE DEF Items
<1> QED BY <1>5, <1>6 DEF Processes

\* A chunk is written to runtime i by caller c, which then waits as `stage` says.
LEMMA SendsFacts ==
  ASSUME TransportInv, NEW c \in Callers, NEW i \in 1..launched, NEW item \in Items,
         NEW stage \in Calls, stage.on = i,
         stage.op = "interrupt" => stage.stage \in {"ctrlC", "prompt", "probe"},
         Sends(c, i, item, stage)
  PROVE  /\ proc' \in [Runtimes -> Processes] /\ \A j \in Runtimes : IsFiniteSet(proc'[j].line)
         /\ \A j \in Runtimes : proc'[j].mode = proc[j].mode
         /\ broker' \in [Runtimes -> Brokers]
         /\ \A j \in Runtimes : /\ broker'[j].freeing = broker[j].freeing
                                /\ broker'[j].fresh = broker[j].fresh
                                /\ broker'[j].interrupting = broker[j].interrupting
                                /\ broker'[j].heard = broker[j].heard
                                /\ broker'[j].subscribed = broker[j].subscribed
         /\ \E s \in Calls : call' = [call EXCEPT ![c] = s] /\ Plain(s) /\ s.op = stage.op /\ s.on = i
<1>1. i \in Runtimes /\ proc[i] \in Processes /\ IsFiniteSet(proc[i].line) /\ broker[i] \in Brokers
      /\ launched \in Nat
  BY TransportAssumption DEF TransportInv, TypeOK, Runtimes
<1> DEFINE typed == [proc[i] EXCEPT !.line = @ \cup {item},
                                    !.cells = IF item.what = "cell" THEN @ + 1 ELSE @]
<1>2. typed \in Processes /\ typed.line = proc[i].line \cup {item} /\ typed.mode = proc[i].mode
  <2>1. proc[i].cells \in Int /\ proc[i].line \cup {item} \in SUBSET Items
    BY <1>1 DEF Processes
  <2> DEFINE n == IF item.what = "cell" THEN proc[i].cells + 1 ELSE proc[i].cells
             l == proc[i].line \cup {item}
  <2>2. n \in Int /\ l \in SUBSET Items
    BY <2>1
  <2>3. typed = [proc[i] EXCEPT !.line = l, !.cells = n]
    BY <1>1 DEF Processes
  <2> HIDE DEF Items, n, l, typed
  <2>4. typed \in Processes /\ typed.line = l /\ typed.mode = proc[i].mode
    BY <1>1, <2>2, <2>3 DEF Processes
  <2> QED BY <2>4 DEF l
<1>3. IsFiniteSet(typed.line)
  BY <1>1, <1>2, FS_AddElement
<1> HIDE DEF typed
<1>4. PICK p \in Processes : /\ proc' = [proc EXCEPT ![i] = p] /\ IsFiniteSet(p.line)
                             /\ p.mode = proc[i].mode
  <2>1. \/ proc' = [proc EXCEPT ![i] = proc[i]]
        \/ proc' = [proc EXCEPT ![i] = typed]
        \/ proc' = [proc EXCEPT ![i] = Submitted(typed)]
    BY <1>1 DEF Sends, typed, TransportInv, TypeOK
  <2>2. Submitted(typed) \in Processes /\ IsFiniteSet(Submitted(typed).line)
        /\ Submitted(typed).mode = proc[i].mode
    BY <1>2, <1>3, SubmittedFacts, FS_EmptySet
  <2> QED BY <1>1, <1>2, <1>3, <2>1, <2>2
<1>5. /\ proc' \in [Runtimes -> Processes] /\ \A j \in Runtimes : IsFiniteSet(proc'[j].line)
      /\ \A j \in Runtimes : proc'[j].mode = proc[j].mode
  BY <1>1, <1>4 DEF TransportInv, TypeOK
<1>6. PICK b \in Brokers :
         /\ broker' = [broker EXCEPT ![i] = b] /\ b.freeing = broker[i].freeing
         /\ b.fresh = broker[i].fresh /\ b.interrupting = broker[i].interrupting
         /\ b.heard = broker[i].heard /\ b.subscribed = broker[i].subscribed
  <2> DEFINE e == broker[i].epipe \/ ~Up(i)
             b == [broker[i] EXCEPT !.epipe = e]
  <2>1. broker' = [broker EXCEPT ![i] = b]
    BY <1>1 DEF Sends, TransportInv, TypeOK
  <2>2. e \in BOOLEAN
    BY <1>1 DEF Brokers, Up
  <2> HIDE DEF e
  <2>3. /\ b \in Brokers /\ b.freeing = broker[i].freeing
        /\ b.fresh = broker[i].fresh /\ b.interrupting = broker[i].interrupting
        /\ b.heard = broker[i].heard /\ b.subscribed = broker[i].subscribed
    BY <1>1, <2>2 DEF Brokers
  <2> QED BY <2>1, <2>3
<1>7. /\ broker' \in [Runtimes -> Brokers]
      /\ \A j \in Runtimes : /\ broker'[j].freeing = broker[j].freeing
                             /\ broker'[j].fresh = broker[j].fresh
                             /\ broker'[j].interrupting = broker[j].interrupting
                             /\ broker'[j].heard = broker[j].heard
                             /\ broker'[j].subscribed = broker[j].subscribed
  BY <1>1, <1>6 DEF TransportInv, TypeOK
<1>8. PICK pc \in {"delay", "drain", "go"} : call' = [call EXCEPT ![c] = [stage EXCEPT !.pc = pc]]
  BY DEF Sends
<1> DEFINE s == [stage EXCEPT !.pc = pc]
<1>9. s \in Calls /\ s.op = stage.op /\ s.on = i /\ s.stage = stage.stage /\ s.pc = pc
  BY DEF Calls, Pcs
<1>10. call' = [call EXCEPT ![c] = s]
  BY <1>8
<1> HIDE DEF s
<1>11. Plain(s)
  BY <1>1, <1>9 DEF Plain, Early, Ending, Interrupting, Runtimes
<1> QED BY <1>5, <1>7, <1>9, <1>10, <1>11

\* An operation that begins takes a number of its own, once nothing is left to run on.
LEMMA BeginsFacts ==
  ASSUME TypeOK, CallInv, NEW c \in Callers, Begins(c)
  PROVE  /\ ops' \in 0..MaxOps /\ ops' \in Nat /\ Settled
         /\ call[c].pc = "idle" /\ call[c].op # "interrupt"
<1>1. ops < MaxOps /\ ops' = ops + 1 /\ ops \in 0..MaxOps /\ MaxOps \in Nat /\ Settled
  BY TransportAssumption DEF Begins, TypeOK
<1>2. call[c].pc = "idle" /\ call[c].pc \notin Interrupting
  BY DEF Begins, Interrupting
<1>3. call[c].op # "interrupt"
  BY <1>2 DEF CallInv
<1> QED BY <1>1, <1>2, <1>3

\* Whatever is written, and to whatever end.
LEMMA SendsStep ==
  ASSUME TransportInv, NEW c \in Callers, NEW i \in 1..launched, NEW item \in Items,
         NEW stage \in Calls, stage.on = i,
         stage.op = "interrupt" => stage.stage \in {"ctrlC", "prompt", "probe"},
         call[c].op = "interrupt" => stage.op = "interrupt" /\ call[c].on = i,
         Sends(c, i, item, stage), ops' \in 0..MaxOps,
         UNCHANGED <<kind, slotState, launched, terminal, pipe, floorVars, unhandled>>
  PROVE  TransportInv'
<1>1. /\ proc' \in [Runtimes -> Processes] /\ \A j \in Runtimes : IsFiniteSet(proc'[j].line)
      /\ \A j \in Runtimes : proc'[j].mode = proc[j].mode
      /\ broker' \in [Runtimes -> Brokers]
      /\ \A j \in Runtimes : /\ broker'[j].freeing = broker[j].freeing
                             /\ broker'[j].fresh = broker[j].fresh
                             /\ broker'[j].interrupting = broker[j].interrupting
                             /\ broker'[j].heard = broker[j].heard
                             /\ broker'[j].subscribed = broker[j].subscribed
      /\ \E s \in Calls : call' = [call EXCEPT ![c] = s] /\ Plain(s) /\ s.op = stage.op /\ s.on = i
  BY SendsFacts
<1>2. PICK s \in Calls : call' = [call EXCEPT ![c] = s] /\ Plain(s) /\ s.op = stage.op /\ s.on = i
  BY <1>1
<1>3. /\ call' \in [Callers -> Calls] /\ call'[c] = s
      /\ \A d \in Callers \ {c} : Alike(call'[d], call[d])
  BY <1>2, CallerFacts DEF TransportInv, TypeOK, Alike
<1>4. \A d \in Callers : Alike(call'[d], call[d]) \/ Plain(call'[d])
  BY <1>2, <1>3
<1>5. past' \in BOOLEAN /\ advancing' \in BOOLEAN /\ unhandled' \in BOOLEAN
      /\ pipe' \in [Runtimes -> Seq(Tokens)] /\ pipe' = pipe
  BY DEF floorVars, TransportInv, TypeOK
<1>6. TypeOK' /\ LifeInv' /\ ProcInv' /\ CallInv'
  BY <1>1, <1>3, <1>4, <1>5, QuietKeeps DEF slotState
<1>7. HeardInv'
  BY <1>1, <1>2, <1>3, HeardKeeps DEF TransportInv, slotState, Alike
<1> QED BY <1>6, <1>7 DEF TransportInv

\* A probe is sent, or fails as its runtime is gone.
LEMMA ProbeStep ==
  ASSUME TransportInv, NEW c \in Callers, NEW i \in 1..launched, NEW state \in Calls, state.on = i,
         call[c].op = "interrupt" => state.op = "interrupt" /\ call[c].on = i,
         state.op = "interrupt" => state.stage \in {"ctrlC", "prompt", "probe"},
         Probe(c, state), ops' \in 0..MaxOps,
         UNCHANGED <<kind, slotState, launched, terminal, pipe, floorVars, unhandled>>
  PROVE  TransportInv'
<1> DEFINE waiting == [state EXCEPT !.probe = "sent", !.stage = "probe"]
           failing == [state EXCEPT !.pc = "fail", !.probe = "none"]
<1>1. /\ waiting \in Calls /\ waiting.on = i /\ waiting.op = state.op /\ waiting.stage = "probe"
      /\ Item("probe", state.nonce) \in Items
  <2>1. state.nonce \in Nat
    BY DEF Calls
  <2>2. waiting \in Calls /\ waiting.on = i /\ waiting.op = state.op /\ waiting.stage = "probe"
    BY DEF Calls
  <2> QED BY <2>1, <2>2, ItemFacts
<1>2. /\ failing \in Calls /\ failing.on = i /\ failing.op = state.op /\ failing.pc = "fail"
      /\ failing.stage = state.stage
  BY ZenonT(40) DEF Calls, Pcs
<1>3. \/ Sends(c, i, Item("probe", state.nonce), waiting)
      \/ call' = [call EXCEPT ![c] = failing] /\ UNCHANGED <<proc, broker>>
  BY DEF Probe
<1> HIDE DEF waiting, failing
<1>4. CASE Sends(c, i, Item("probe", state.nonce), waiting)
  BY <1>1, <1>4, SendsStep
<1>5. CASE call' = [call EXCEPT ![c] = failing] /\ UNCHANGED <<proc, broker>>
  <2>1. Plain(failing)
    BY <1>2 DEF Plain, Early, Ending, Interrupting
  <2>2. past' \in BOOLEAN /\ advancing' \in BOOLEAN /\ unhandled' \in BOOLEAN
    BY DEF floorVars, TransportInv, TypeOK
  <2> QED BY <1>2, <1>5, <2>1, <2>2, WaiterKeeps
<1> QED BY <1>3, <1>4, <1>5

\* What a caller that begins a write, a collection or an interrupt is.
LEMMA WritingFacts ==
  ASSUME NEW i \in 0..MaxLaunches
  PROVE  LET s == [Quiet EXCEPT !.op = "write", !.on = i, !.stage = "write"]
         IN  s \in Calls /\ s.on = i /\ s.op = "write"
BY NothingFacts DEF Quiet, Calls

LEMMA CollectingFacts ==
  ASSUME NEW i \in 0..MaxLaunches, NEW n \in Nat
  PROVE  LET s == [Quiet EXCEPT !.op = "collect", !.on = i, !.nonce = n]
         IN  s \in Calls /\ s.on = i /\ s.op = "collect"
BY NothingFacts DEF Quiet, Calls

\* A write, the end of its line, and what waits for either.
LEMMA WriteStep ==
  ASSUME TransportInv, NEW c \in Callers,
         Submit(c) \/ Drains(c) \/ TimesOut(c)
           \/ \E i \in 1..launched : WriteCell(c, i) \/ CollectGarbage(c, i)
  PROVE  TransportInv'
<1>0. TypeOK /\ CallInv /\ call[c] \in Calls /\ launched \in Nat /\ launched =< MaxLaunches
      /\ MaxLaunches \in Nat
  BY TransportAssumption DEF TransportInv, TypeOK
<1>1. ASSUME NEW i \in 1..launched, WriteCell(c, i) PROVE TransportInv'
  <2> DEFINE stage == [Quiet EXCEPT !.op = "write", !.on = i, !.stage = "write"]
  <2>1. ops' \in 0..MaxOps /\ ops' \in Nat /\ call[c].op # "interrupt"
    BY <1>0, <1>1, BeginsFacts DEF WriteCell
  <2>2. stage \in Calls /\ stage.on = i /\ stage.op = "write"
    <3>1. i \in 0..MaxLaunches
      BY <1>0
    <3> QED BY <2>1, <3>1, WritingFacts
  <2>3. Item("cell", ops') \in Items
    BY <2>1, ItemFacts
  <2>4. /\ Sends(c, i, Item("cell", ops'), stage)
        /\ UNCHANGED <<kind, slotState, launched, terminal, pipe, floorVars, unhandled>>
    BY <1>1 DEF WriteCell
  <2> HIDE DEF stage
  <2> QED BY <2>1, <2>2, <2>3, <2>4, SendsStep
<1>2. ASSUME NEW i \in 1..launched, CollectGarbage(c, i) PROVE TransportInv'
  <2> DEFINE state == [Quiet EXCEPT !.op = "collect", !.on = i, !.nonce = ops']
  <2>1. ops' \in 0..MaxOps /\ ops' \in Nat /\ call[c].op # "interrupt"
    BY <1>0, <1>2, BeginsFacts DEF CollectGarbage
  <2>2. state \in Calls /\ state.on = i /\ state.op = "collect"
    <3>1. i \in 0..MaxLaunches
      BY <1>0
    <3> QED BY <2>1, <3>1, CollectingFacts
  <2>3. /\ Probe(c, state)
        /\ UNCHANGED <<kind, slotState, launched, terminal, pipe, floorVars, unhandled>>
    BY <1>2 DEF CollectGarbage
  <2> HIDE DEF state
  <2> QED BY <2>1, <2>2, <2>3, ProbeStep
<1>3. CASE Submit(c)
  <2> DEFINE i == call[c].on
  <2>1. i \in Runtimes /\ i \in 1..launched /\ call[c].pc = "delay"
        /\ proc[i] \in Processes /\ IsFiniteSet(proc[i].line) /\ broker[i] \in Brokers
    <3>1. call[c].pc = "delay" /\ call[c].pc \notin Early
      BY <1>3 DEF Submit, Early
    <3>2. i # 0 /\ i =< launched /\ i \in 0..MaxLaunches
      BY <1>0, <3>1 DEF CallInv, Calls
    <3>3. i \in Runtimes /\ i \in 1..launched
      BY <1>0, <3>2 DEF Runtimes
    <3> HIDE DEF i
    <3>4. proc[i] \in Processes /\ IsFiniteSet(proc[i].line) /\ broker[i] \in Brokers
      BY <1>0, <3>3 DEF TypeOK
    <3> QED BY <3>1, <3>3, <3>4 DEF i
  <2>2. PICK pc \in {"fail", "drain", "go"} : call' = [call EXCEPT ![c] = [call[c] EXCEPT !.pc = pc]]
    <3>1. call \in [Callers -> Calls]
      BY <1>0 DEF TypeOK
    <3> QED BY <1>3, <3>1 DEF Submit
  <2> DEFINE s == [call[c] EXCEPT !.pc = pc]
  <2>3. s \in Calls /\ s.op = call[c].op /\ s.on = i /\ s.stage = call[c].stage /\ s.pc = pc
    BY <1>0 DEF Calls, Pcs
  <2>4. call' = [call EXCEPT ![c] = s]
    BY <2>2
  <2> HIDE DEF s
  <2>5. Plain(s)
    BY <1>0, <2>1, <2>3 DEF Plain, Early, Ending, Interrupting, CallInv
  <2>6. /\ call' \in [Callers -> Calls] /\ call'[c] = s
        /\ \A d \in Callers \ {c} : Alike(call'[d], call[d])
    BY <2>3, <2>4, <1>0, CallerFacts DEF TypeOK, Alike
  <2>7. PICK p \in Processes : /\ proc' = [proc EXCEPT ![i] = p] /\ IsFiniteSet(p.line)
                               /\ p.mode = proc[i].mode
    <3>1. proc' = [proc EXCEPT ![i] = proc[i]] \/ proc' = [proc EXCEPT ![i] = Submitted(proc[i])]
      BY <1>0, <1>3, <2>1 DEF Submit, TypeOK
    <3>2. Submitted(proc[i]) \in Processes /\ IsFiniteSet(Submitted(proc[i]).line)
          /\ Submitted(proc[i]).mode = proc[i].mode
      BY <2>1, SubmittedFacts, FS_EmptySet
    <3> QED BY <2>1, <3>1, <3>2
  <2>8. PICK e \in BOOLEAN : broker' = [broker EXCEPT ![i] = [broker[i] EXCEPT !.epipe = e]]
    <3>1. CASE terminal[i] # "none"
      <4>1. broker' = [broker EXCEPT ![i] = [broker[i] EXCEPT !.epipe = broker[i].epipe]]
        BY <1>0, <1>3, <2>1, <3>1 DEF Submit, TypeOK, Brokers
      <4> QED BY <2>1, <4>1 DEF Brokers
    <3>2. CASE terminal[i] = "none"
      <4>1. broker' = [broker EXCEPT ![i] = [broker[i] EXCEPT !.epipe = broker[i].epipe \/ ~Up(i)]]
        BY <1>0, <1>3, <2>1, <3>2 DEF Submit, TypeOK
      <4>2. (broker[i].epipe \/ ~Up(i)) \in BOOLEAN
        OBVIOUS
      <4> QED BY <4>1, <4>2
    <3> QED BY <3>1, <3>2
  <2> DEFINE b == [broker[i] EXCEPT !.epipe = e]
  <2>9. /\ b \in Brokers /\ b.freeing = broker[i].freeing
        /\ b.fresh = broker[i].fresh /\ b.interrupting = broker[i].interrupting
        /\ b.heard = broker[i].heard /\ b.subscribed = broker[i].subscribed
    BY <2>1 DEF Brokers
  <2>10. broker' = [broker EXCEPT ![i] = b]
    BY <2>8
  <2> HIDE DEF b, i
  <2>11. /\ proc' \in [Runtimes -> Processes] /\ \A j \in Runtimes : IsFiniteSet(proc'[j].line)
         /\ \A j \in Runtimes : proc'[j].mode = proc[j].mode
    BY <1>0, <2>1, <2>7 DEF TypeOK
  <2>12. /\ broker' \in [Runtimes -> Brokers]
         /\ \A j \in Runtimes : /\ broker'[j].freeing = broker[j].freeing
                                /\ broker'[j].fresh = broker[j].fresh
                                /\ broker'[j].interrupting = broker[j].interrupting
                                /\ broker'[j].heard = broker[j].heard
                                /\ broker'[j].subscribed = broker[j].subscribed
    BY <1>0, <2>1, <2>9, <2>10 DEF TypeOK
  <2>13. UNCHANGED <<kind, slotState, launched, terminal, pipe, floorVars, unhandled, ops>>
    BY <1>3 DEF Submit
  <2>14. TypeOK' /\ LifeInv' /\ ProcInv' /\ CallInv'
    <3>1. \A d \in Callers : Alike(call'[d], call[d]) \/ Plain(call'[d])
      BY <2>5, <2>6
    <3>2. past' \in BOOLEAN /\ advancing' \in BOOLEAN /\ unhandled' \in BOOLEAN
          /\ pipe' \in [Runtimes -> Seq(Tokens)] /\ pipe' = pipe /\ ops' \in 0..MaxOps
      BY <1>0, <2>13 DEF floorVars, TypeOK
    <3> QED BY <2>6, <2>11, <2>12, <2>13, <3>1, <3>2, QuietKeeps DEF slotState
  <2>15. HeardInv'
    BY <2>3, <2>6, <2>12, <2>13, HeardKeeps DEF TransportInv, slotState, Alike, i
  <2> QED BY <2>14, <2>15 DEF TransportInv
<1>4. CASE Drains(c)
  <2>1. /\ call[c].pc = "drain" /\ call' = [call EXCEPT ![c] = [call[c] EXCEPT !.pc = "go"]]
        /\ UNCHANGED <<kind, slotState, launched, terminal, broker, proc, pipe, floorVars, unhandled, ops>>
    BY <1>0, <1>4 DEF Drains, TypeOK
  <2>2. LET s == [call[c] EXCEPT !.pc = "go"]
        IN  s \in Calls /\ Plain(s) /\ s.op = call[c].op /\ s.on = call[c].on
    <3>1. call[c].pc \notin Early
      BY <2>1 DEF Early
    <3> QED BY <1>0, <3>1, WaitEnds DEF Calls
  <2>3. past' \in BOOLEAN /\ advancing' \in BOOLEAN /\ unhandled' \in BOOLEAN /\ ops' \in 0..MaxOps
    BY <1>0, <2>1 DEF floorVars, TypeOK
  <2> QED BY <2>1, <2>2, <2>3, WaiterKeeps
<1>5. CASE TimesOut(c)
  <2>1. /\ Waits(c) /\ call' = [call EXCEPT ![c] = Rejected(call[c])]
        /\ UNCHANGED <<kind, slotState, launched, terminal, broker, proc, pipe, floorVars, ops>>
    BY <1>0, <1>5 DEF TimesOut, TypeOK
  <2>2. past' \in BOOLEAN /\ advancing' \in BOOLEAN /\ unhandled' \in BOOLEAN /\ ops' \in 0..MaxOps
    <3>1. unhandled' = (unhandled \/ call[c].pc \in {"delay", "drain"})
      BY <1>5 DEF TimesOut
    <3> QED BY <1>0, <2>1, <3>1 DEF floorVars, TypeOK
  <2>3. /\ Rejected(call[c]) \in Calls /\ Plain(Rejected(call[c]))
        /\ Rejected(call[c]).op = call[c].op /\ Rejected(call[c]).on = call[c].on
    <3>1. call[c].pc \in {"prompt", "answer", "delay", "drain"} /\ call[c].pc \notin Early
      BY <2>1 DEF Waits, Early
    <3>2. CASE call[c].pc \in {"prompt", "answer"}
      <4> DEFINE s == [call[c] EXCEPT !.pc = "fail"]
      <4>1. Rejected(call[c]) = s
        BY <3>2 DEF Rejected
      <4>2. s \in Calls /\ Plain(s)
        BY <1>0, <3>1, WaitEnds
      <4>3. s.op = call[c].op /\ s.on = call[c].on
        BY <1>0 DEF Calls
      <4> QED BY <4>1, <4>2, <4>3
    <3>3. CASE call[c].pc \notin {"prompt", "answer"}
      <4> DEFINE s == [call[c] EXCEPT !.probe = "failed"]
      <4>1. Rejected(call[c]) = s
        BY <3>3 DEF Rejected
      <4>2. s \in Calls /\ s.op = call[c].op /\ s.on = call[c].on /\ s.stage = call[c].stage
            /\ s.pc = call[c].pc
        BY <1>0 DEF Calls
      <4> HIDE DEF s
      <4>3. Plain(s)
        BY <1>0, <3>1, <4>2 DEF Plain, Early, Ending, Interrupting, CallInv
      <4> QED BY <4>1, <4>2, <4>3
    <3> QED BY <3>2, <3>3
  <2> HIDE DEF Rejected
  <2> QED BY <2>1, <2>2, <2>3, WaiterKeeps
<1> QED BY <1>1, <1>2, <1>3, <1>4, <1>5

-----------------------------------------------------------------------------
(* How an interrupt answers, and what ends an operation.                   *)

\* An operation ends, but for an interrupt's, whose answer is its own.
LEMMA EndsStep ==
  ASSUME TransportInv, NEW c \in Callers, NEW answer, call' = [call EXCEPT ![c] = End(c, answer)],
         call[c].op # "interrupt", ops' \in 0..MaxOps, past' \in BOOLEAN, advancing' \in BOOLEAN,
         UNCHANGED <<kind, slotState, launched, terminal, broker, proc, pipe, unhandled>>
  PROVE  TransportInv'
<1> DEFINE s == End(c, answer)
<1>1. s \in Calls /\ s.pc = "idle" /\ s.op = "none" /\ s.on = 0
  BY EndFacts
<1>2. call' = [call EXCEPT ![c] = s]
  OBVIOUS
<1> HIDE DEF s
<1>3. Plain(s) /\ unhandled' \in BOOLEAN
  BY <1>1 DEF Plain, Early, Ending, TransportInv, TypeOK
<1> QED BY <1>1, <1>2, <1>3, WaiterKeeps

\* One that answers has its runtime's end heard, unless it was back at its prompt.
LEMMA AnswerStep ==
  ASSUME TransportInv, NEW c \in Callers, call[c].op = "interrupt", NEW answer, Answer(c, answer),
         answer = "recycle" \/ terminal[call[c].on] = "none",
         UNCHANGED <<kind, slotState, launched, terminal, proc, pipe, floorVars, unhandled, ops>>
  PROVE  TransportInv'
<1> DEFINE i == call[c].on
<1>1. TypeOK /\ CallInv /\ call[c] \in Calls /\ i \in Runtimes /\ broker[i] \in Brokers
  <2>1. TypeOK /\ CallInv /\ call[c] \in Calls /\ launched \in 0..MaxLaunches
    BY DEF TransportInv, TypeOK
  <2>2. i # 0 /\ i \in 0..MaxLaunches
    BY <2>1 DEF CallInv, Interrupting, Early, Calls
  <2>3. i \in Runtimes
    BY <2>2, TransportAssumption DEF Runtimes
  <2> QED BY <2>1, <2>3 DEF TypeOK
<1> DEFINE e == End(c, answer)
           s == [e EXCEPT !.owe = call[c].owe]
           h == broker[i].heard \/ answer = "recycle"
           b == [broker[i] EXCEPT !.interrupting = FALSE, !.heard = h]
<1>2. s \in Calls /\ s.pc = "idle" /\ s.op = "none" /\ s.on = 0
  <2>1. e \in Calls /\ e.pc = "idle" /\ e.op = "none" /\ e.on = 0 /\ call[c].owe \in Int
    BY <1>1, EndFacts DEF Calls
  <2> HIDE DEF e
  <2> QED BY <2>1 DEF Calls
<1>3. call' = [call EXCEPT ![c] = s] /\ broker' = [broker EXCEPT ![i] = b]
  <2>1. broker \in [Runtimes -> Brokers]
    BY <1>1 DEF TypeOK
  <2> QED BY <1>1, <2>1 DEF Answer
<1>4. /\ b \in Brokers /\ b.freeing = broker[i].freeing /\ b.fresh = broker[i].fresh
      /\ ~b.interrupting /\ b.subscribed = broker[i].subscribed /\ b.heard = h
  <2>1. h \in BOOLEAN
    OBVIOUS
  <2> HIDE DEF h
  <2> QED BY <1>1, <2>1 DEF Brokers
<1> HIDE DEF s, b
<1>5. /\ call' \in [Callers -> Calls] /\ call'[c] = s
      /\ \A d \in Callers \ {c} : Alike(call'[d], call[d])
  BY <1>1, <1>2, <1>3, CallerFacts DEF TypeOK, Alike
<1>6. /\ broker' \in [Runtimes -> Brokers] /\ broker'[i] = b
      /\ \A j \in Runtimes \ {i} : broker'[j] = broker[j]
  BY <1>1, <1>3, <1>4 DEF TypeOK
<1>7. TypeOK' /\ LifeInv' /\ ProcInv' /\ CallInv'
  <2>1. Plain(s)
    BY <1>2 DEF Plain, Early, Ending, TransportInv, TypeOK
  <2>2. \A d \in Callers : Alike(call'[d], call[d]) \/ Plain(call'[d])
    BY <1>5, <2>1
  <2>3. \A j \in Runtimes : broker'[j].freeing = broker[j].freeing /\ broker'[j].fresh = broker[j].fresh
    BY <1>4, <1>6
  <2>4. past' \in BOOLEAN /\ advancing' \in BOOLEAN /\ unhandled' \in BOOLEAN /\ ops' \in 0..MaxOps
    BY <1>1 DEF floorVars, TypeOK
  <2> QED BY <1>5, <1>6, <2>2, <2>3, <2>4, CallerKeeps
<1>8. \A j \in Runtimes \ {i}, d \in Callers :
         call[d].op = "interrupt" /\ call[d].on = j => call'[d].op = "interrupt" /\ call'[d].on = j
  BY <1>5 DEF Alike
<1>9. ASSUME NEW j \in Runtimes, broker'[j].interrupting
      PROVE  \E d \in Callers : call'[d].op = "interrupt" /\ call'[d].on = j
  <2>1. j # i /\ broker[j].interrupting
    BY <1>4, <1>6, <1>9
  <2> QED BY <1>8, <2>1 DEF TransportInv, HeardInv
<1>10. ASSUME NEW j \in Runtimes, terminal[j] # "none", broker'[j].subscribed, ~told[j]
       PROVE  broker'[j].heard \/ \E d \in Callers : call'[d].op = "interrupt" /\ call'[d].on = j
  <2>1. CASE j = i
    BY <1>4, <1>6, <1>10, <2>1
  <2>2. CASE j # i
    <3>1. broker'[j] = broker[j]
      BY <1>6, <2>2
    <3> QED BY <1>8, <1>10, <2>2, <3>1 DEF TransportInv, HeardInv, NoSilentEnd
  <2> QED BY <2>1, <2>2
<1>11. HeardInv'
  BY <1>9, <1>10 DEF HeardInv, NoSilentEnd, slotState
<1> QED BY <1>7, <1>11 DEF TransportInv

\* What an operation does as its wait ended well.
LEMMA GoesOnStep == ASSUME TransportInv, NEW c \in Callers, GoesOn(c) PROVE TransportInv'
<1> DEFINE i == call[c].on
<1>1. TypeOK /\ CallInv /\ call[c] \in Calls /\ call \in [Callers -> Calls] /\ call[c].pc = "go"
      /\ call[c].pc \notin Early /\ i \in 1..launched
  <2>1. TypeOK /\ CallInv /\ call[c] \in Calls /\ call \in [Callers -> Calls]
        /\ launched \in 0..MaxLaunches
    BY DEF TransportInv, TypeOK
  <2>2. call[c].pc = "go" /\ call[c].pc \notin Early
    BY DEF GoesOn, Early
  <2>3. i # 0 /\ i =< launched /\ i \in Nat
    BY <2>1, <2>2, TransportAssumption DEF CallInv, Calls
  <2> QED BY <2>1, <2>2, <2>3
<1>2. /\ UNCHANGED <<kind, slotState, launched, terminal, pipe, floorVars, unhandled, ops>>
      /\ past' \in BOOLEAN /\ advancing' \in BOOLEAN /\ unhandled' \in BOOLEAN /\ ops' \in 0..MaxOps
  <2>1. UNCHANGED <<kind, slotState, launched, terminal, pipe, floorVars, unhandled, ops>>
    BY DEF GoesOn
  <2> QED BY <1>1, <2>1 DEF TypeOK, floorVars
\* It ends with what it was for.
<1>3. CASE call[c].op # "interrupt" /\ call' = [call EXCEPT ![c] = End(c, "done")] /\ UNCHANGED <<proc, broker>>
  BY <1>2, <1>3, EndsStep DEF floorVars
\* It is elsewhere in the same operation.
<1>4. ASSUME NEW pc \in {"prompted", "answer", "fail"}, call' = [call EXCEPT ![c].pc = pc],
             UNCHANGED <<proc, broker>>, call[c].op = "interrupt" => pc # "prompted"
      PROVE  TransportInv'
  <2> DEFINE s == [call[c] EXCEPT !.pc = pc]
  <2>1. s \in Calls /\ s.op = call[c].op /\ s.on = i /\ s.stage = call[c].stage /\ s.pc = pc
    BY <1>1 DEF Calls, Pcs
  <2>2. call' = [call EXCEPT ![c] = s]
    BY <1>1, <1>4
  <2> HIDE DEF s
  <2>3. Plain(s)
    BY <1>1, <1>4, <2>1 DEF Plain, Early, Ending, Interrupting, CallInv
  <2> QED BY <1>1, <1>2, <1>4, <2>1, <2>2, <2>3, WaiterKeeps
<1>5. CASE call[c].stage = "ctrlC" /\ call' = [call EXCEPT ![c] = AwaitPrompt(call[c])] /\ UNCHANGED <<proc, broker>>
  <2>1. PICK pc \in {"fail", "go", "prompt"} :
           AwaitPrompt(call[c]) = [call[c] EXCEPT !.stage = "prompt", !.pc = pc]
    BY DEF AwaitPrompt
  <2> DEFINE s == [call[c] EXCEPT !.stage = "prompt", !.pc = pc]
  <2>2. s \in Calls /\ s.op = call[c].op /\ s.on = i /\ s.stage = "prompt" /\ s.pc = pc
    BY <1>1 DEF Calls, Pcs
  <2>3. call' = [call EXCEPT ![c] = s]
    BY <1>5, <2>1
  <2> HIDE DEF s
  <2>4. Plain(s)
    BY <1>1, <2>2 DEF Plain, Early, Ending, Interrupting, CallInv
  <2> QED BY <1>1, <1>2, <1>5, <2>2, <2>3, <2>4, WaiterKeeps
<1>6. CASE call[c].stage = "prompt" /\ call[c].op = "interrupt" /\ Probe(c, call[c])
  BY <1>1, <1>2, <1>6, ProbeStep
<1>7. CASE call[c].op = "interrupt" /\ Answer(c, IF terminal[i] # "none" THEN "recycle" ELSE "soft") /\ UNCHANGED proc
  <2>1. CASE terminal[i] = "none"
    <3>1. Answer(c, "soft")
      BY <1>7, <2>1
    <3> QED BY <1>2, <1>7, <2>1, <3>1, AnswerStep
  <2>2. CASE terminal[i] # "none"
    <3>1. Answer(c, "recycle")
      BY <1>7, <2>2
    <3> QED BY <1>2, <1>7, <3>1, AnswerStep
  <2> QED BY <2>1, <2>2
<1>8. call[c].stage = "write" => call[c].op # "interrupt"
  BY <1>1 DEF CallInv
<1>9. \/ /\ call[c].op # "interrupt" /\ call' = [call EXCEPT ![c] = End(c, "done")]
         /\ UNCHANGED <<proc, broker>>
      \/ call[c].op # "interrupt" /\ call' = [call EXCEPT ![c].pc = "prompted"] /\ UNCHANGED <<proc, broker>>
      \/ call[c].stage = "ctrlC" /\ call' = [call EXCEPT ![c] = AwaitPrompt(call[c])] /\ UNCHANGED <<proc, broker>>
      \/ call[c].stage = "prompt" /\ call[c].op = "interrupt" /\ Probe(c, call[c])
      \/ call' = [call EXCEPT ![c].pc = "answer"] /\ UNCHANGED <<proc, broker>>
      \/ call' = [call EXCEPT ![c].pc = "fail"] /\ UNCHANGED <<proc, broker>>
      \/ /\ call[c].op = "interrupt"
         /\ Answer(c, IF terminal[i] # "none" THEN "recycle" ELSE "soft") /\ UNCHANGED proc
  BY <1>8, Zenon DEF GoesOn
<1> QED BY <1>3, <1>4, <1>5, <1>6, <1>7, <1>9

-----------------------------------------------------------------------------
(* How runtimes are ended.                                                 *)

\* A process changed, a runtime's listeners gone, and the runtime forgotten if it ended.
LEMMA EndingKeeps ==
  ASSUME TransportInv, NEW i \in Runtimes, UNCHANGED <<kind, life, told, launched, terminal, pipe, floorVars>>,
         entry' = entry \/ (entry' = 0 /\ (entry \in Runtimes => life[entry] # "live")),
         NEW p \in Processes, IsFiniteSet(p.line), p.mode = "none" <=> proc[i].mode = "none",
         p.mode \in UpModes => proc[i].mode \in UpModes, proc' = [proc EXCEPT ![i] = p],
         NEW b \in Brokers, b.freeing = broker[i].freeing, b.fresh = broker[i].fresh,
         b.interrupting = broker[i].interrupting, b.heard = broker[i].heard,
         b.subscribed => broker[i].subscribed, broker' = [broker EXCEPT ![i] = b],
         NEW c \in Callers, NEW f \in [Callers -> Calls], \A d \in Callers : Alike(f[d], call[d]),
         NEW s \in Calls, Plain(s), call' = [f EXCEPT ![c] = s], call[c].op # "interrupt",
         unhandled' \in BOOLEAN, ops' \in 0..MaxOps
  PROVE  TransportInv'
<1>1. /\ call' \in [Callers -> Calls] /\ call'[c] = s
      /\ \A d \in Callers \ {c} : Alike(call'[d], call[d])
  BY CallerFacts
<1>2. /\ broker' \in [Runtimes -> Brokers] /\ broker'[i] = b
      /\ \A j \in Runtimes \ {i} : broker'[j] = broker[j]
  BY DEF TransportInv, TypeOK
<1>3. /\ proc' \in [Runtimes -> Processes] /\ \A j \in Runtimes : IsFiniteSet(proc'[j].line)
      /\ proc'[i] = p /\ \A j \in Runtimes \ {i} : proc'[j] = proc[j]
  BY DEF TransportInv, TypeOK
<1>4. TypeOK' /\ LifeInv' /\ ProcInv' /\ CallInv'
  <2>1. \A d \in Callers : Alike(call'[d], call[d]) \/ Plain(call'[d])
    BY <1>1
  <2>2. \A j \in Runtimes : broker'[j].freeing = broker[j].freeing /\ broker'[j].fresh = broker[j].fresh
    BY <1>2
  <2>3. \A j \in Runtimes : /\ proc'[j].mode = "none" <=> proc[j].mode = "none"
                            /\ proc'[j].mode \in UpModes => proc[j].mode \in UpModes
    <3> TAKE j \in Runtimes
    <3>1. CASE j = i
      BY <1>3, <3>1
    <3>2. CASE j # i
      BY <1>3, <3>2
    <3> QED BY <3>1, <3>2
  <2>4. /\ past' \in BOOLEAN /\ advancing' \in BOOLEAN
        /\ pipe' \in [Runtimes -> Seq(Tokens)] /\ pipe' = pipe
    BY DEF floorVars, TransportInv, TypeOK
  <2> QED BY <1>1, <1>2, <1>3, <2>1, <2>2, <2>3, <2>4, QuietKeeps
<1>5. HeardInv'
  <2>1. \A j \in Runtimes : /\ broker'[j].interrupting => broker[j].interrupting
                            /\ broker[j].heard => broker'[j].heard
                            /\ broker'[j].subscribed => broker[j].subscribed
    BY <1>2
  <2>2. \A d \in Callers : call[d].op = "interrupt" =>
                                call'[d].op = "interrupt" /\ call'[d].on = call[d].on
    BY <1>1 DEF Alike
  <2> QED BY <2>1, <2>2, HeardKeeps DEF TransportInv
<1> QED BY <1>4, <1>5 DEF TransportInv

\* What `forget` leaves held, and where it leaves its caller.
LEMMA ForgetFacts ==
  ASSUME TransportInv, NEW c \in Callers, NEW i \in Runtimes, Forget(c, i)
  PROVE  /\ entry' = entry \/ (entry' = 0 /\ (entry \in Runtimes => life[entry] # "live"))
         /\ \E s \in Calls : call' = [call EXCEPT ![c] = s] /\ Plain(s)
<1>1. entry' = entry \/ (entry' = 0 /\ (entry \in Runtimes => life[entry] # "live"))
  BY DEF Forget
<1>2. \A answer : End(c, answer) \in Calls /\ Plain(End(c, answer))
  BY EndFacts DEF Plain, Early, Ending, TransportInv, TypeOK
<1>3. call' = [call EXCEPT ![c] = End(c, "failed")] \/ call' = [call EXCEPT ![c] = End(c, "done")]
  BY DEF Forget
<1> QED BY <1>1, <1>2, <1>3

\* A process signalled, and what holds its stdio.
LEMMA SignalFacts ==
  ASSUME NEW p \in Processes, IsFiniteSet(p.line), NEW h \in {"none", "group", "away"}
  PROVE  /\ [p EXCEPT !.holder = h] \in Processes /\ [p EXCEPT !.holder = h].line = p.line
         /\ [p EXCEPT !.holder = h].mode = p.mode
BY DEF Processes

\* A caller that ends a runtime that is live.
LEMMA EnderFacts ==
  ASSUME TransportInv, NEW i \in 1..launched, life[i] = "live", NEW op \in {"terminate", "failing", "snapshot"},
         NEW pc \in Ending
  PROVE  LET s == [Quiet EXCEPT !.op = op, !.on = i, !.pc = pc] IN s \in Calls /\ Plain(s)
<1>1. i \in 0..MaxLaunches /\ i # 0 /\ i =< launched /\ i \in Runtimes
  BY TransportAssumption DEF TransportInv, TypeOK, Runtimes
<1> DEFINE s == [Quiet EXCEPT !.op = op, !.on = i, !.pc = pc]
<1>2. s.op = op /\ s.on = i /\ s.pc = pc
  BY DEF Quiet
<1>3. s \in Calls
  BY <1>1, NothingFacts DEF Quiet, Calls, Pcs, Ending
<1> HIDE DEF s
<1>4. entry = i
  BY <1>1 DEF TransportInv, LifeInv
<1>5. Plain(s)
  BY <1>1, <1>2, <1>4 DEF Plain, Early, Ending
<1> QED BY <1>3, <1>5 DEF s

LEMMA TerminatesStep ==
  ASSUME TransportInv, NEW c \in Callers, NEW i \in 1..launched, NEW op \in {"terminate", "failing"},
         Terminates(c, i, op), call[c].op # "interrupt", ops' \in 0..MaxOps,
         UNCHANGED <<kind, life, told, launched, terminal, pipe, floorVars, unhandled>>
  PROVE  TransportInv'
<1>1. /\ i \in Runtimes /\ proc[i] \in Processes /\ IsFiniteSet(proc[i].line) /\ broker[i] \in Brokers
      /\ proc = [proc EXCEPT ![i] = proc[i]] /\ unhandled' \in BOOLEAN
      /\ call \in [Callers -> Calls] /\ \A d \in Callers : Alike(call[d], call[d])
  BY TransportAssumption DEF TransportInv, TypeOK, Runtimes, Alike
<1>2. CASE life[i] = "live"
  <2> DEFINE s == [Quiet EXCEPT !.op = op, !.on = i, !.pc = "grace"]
             b == [broker[i] EXCEPT !.subscribed = FALSE]
  <2>1. /\ proc' = proc \/ (Up(i) /\ proc' = [proc EXCEPT ![i] = Dying(@)])
        /\ call' = [OverFor(i) EXCEPT ![c] = s] /\ broker' = [broker EXCEPT ![i].subscribed = FALSE]
        /\ entry' = entry
    BY <1>2, Zenon DEF Terminates
  <2>2. s \in Calls /\ Plain(s)
    BY <1>2, EnderFacts DEF Ending
  <2>3. /\ b \in Brokers /\ b.freeing = broker[i].freeing /\ b.fresh = broker[i].fresh
        /\ b.interrupting = broker[i].interrupting /\ b.heard = broker[i].heard /\ ~b.subscribed
    BY <1>1 DEF Brokers
  <2>4. broker' = [broker EXCEPT ![i] = b]
    BY <1>1, <2>1
  <2>5. PICK p \in Processes : /\ proc' = [proc EXCEPT ![i] = p] /\ IsFiniteSet(p.line)
                               /\ p.mode = "none" <=> proc[i].mode = "none"
                               /\ p.mode \in UpModes => proc[i].mode \in UpModes
    <3>1. CASE proc' = proc
      BY <1>1, <3>1
    <3>2. CASE Up(i) /\ proc' = [proc EXCEPT ![i] = Dying(@)]
      <4>1. proc' = [proc EXCEPT ![i] = Dying(proc[i])]
        BY <1>1, <3>2
      <4>2. Dying(proc[i]) \in Processes /\ Dying(proc[i]).mode = "dead" /\ IsFiniteSet(Dying(proc[i]).line)
        BY <1>1, DyingFacts, FS_EmptySet
      <4>3. proc[i].mode # "none"
        BY <3>2 DEF Up
      <4> QED BY <4>1, <4>2, <4>3 DEF UpModes
    <3> QED BY <2>1, <3>1, <3>2
  <2>6. OverFor(i) \in [Callers -> Calls] /\ \A d \in Callers : Alike(OverFor(i)[d], call[d])
    BY OwedFacts DEF TransportInv
  <2> HIDE DEF s, b
  <2> QED BY <1>1, <2>1, <2>2, <2>3, <2>4, <2>5, <2>6, EndingKeeps
<1>3. CASE life[i] # "live"
  <2> DEFINE kills == proc[i].mode # "failed" /\ ~broker[i].closed
             h == IF kills /\ proc[i].holder = "group" THEN "none" ELSE proc[i].holder
             p == [proc[i] EXCEPT !.holder = h]
             k == broker[i].killed \/ kills
             b == [broker[i] EXCEPT !.killed = k, !.subscribed = FALSE]
  <2>1. proc' = [proc EXCEPT ![i] = p] /\ broker' = [broker EXCEPT ![i] = b] /\ Forget(c, i)
    <3>1. proc \in [Runtimes -> Processes] /\ broker \in [Runtimes -> Brokers]
      BY DEF TransportInv, TypeOK
    <3> QED BY <1>1, <1>3, <3>1 DEF Terminates
  <2>2. h \in {"none", "group", "away"} /\ k \in BOOLEAN
    BY <1>1 DEF Processes
  <2> HIDE DEF h, k
  <2>3. /\ b \in Brokers /\ b.freeing = broker[i].freeing /\ b.fresh = broker[i].fresh
        /\ b.interrupting = broker[i].interrupting /\ b.heard = broker[i].heard /\ ~b.subscribed
    BY <1>1, <2>2 DEF Brokers
  <2>4. p \in Processes /\ p.mode = proc[i].mode /\ IsFiniteSet(p.line)
    BY <1>1, <2>2, SignalFacts
  <2>5. /\ entry' = entry \/ (entry' = 0 /\ (entry \in Runtimes => life[entry] # "live"))
        /\ \E s \in Calls : call' = [call EXCEPT ![c] = s] /\ Plain(s)
    BY <1>1, <2>1, ForgetFacts
  <2>6. PICK s \in Calls : call' = [call EXCEPT ![c] = s] /\ Plain(s)
    BY <2>5
  <2> HIDE DEF p, b
  <2> QED BY <1>1, <2>1, <2>3, <2>4, <2>5, <2>6, EndingKeeps
<1> QED BY <1>2, <1>3

\* A wait that failed, for an operation or for what a start launched.
LEMMA FailsStep == ASSUME TransportInv, NEW c \in Callers, Fails(c) PROVE TransportInv'
<1> DEFINE i == call[c].on
<1>1. /\ TypeOK /\ CallInv /\ i \in 1..launched /\ call[c].pc = "fail"
      /\ UNCHANGED <<kind, life, told, launched, terminal, pipe, floorVars, unhandled, ops>>
      /\ past' \in BOOLEAN /\ advancing' \in BOOLEAN /\ unhandled' \in BOOLEAN /\ ops' \in 0..MaxOps
  <2>1. TypeOK /\ CallInv /\ call[c] \in Calls /\ launched \in 0..MaxLaunches
    BY DEF TransportInv, TypeOK
  <2>2. /\ call[c].pc = "fail" /\ call[c].pc \notin Early
        /\ UNCHANGED <<kind, life, told, launched, terminal, pipe, floorVars, unhandled, ops>>
    BY DEF Fails, Early
  <2>3. i # 0 /\ i =< launched /\ i \in Nat
    BY <2>1, <2>2, TransportAssumption DEF CallInv, Calls
  <2>4. past' \in BOOLEAN /\ advancing' \in BOOLEAN /\ unhandled' \in BOOLEAN /\ ops' \in 0..MaxOps
    BY <2>1, <2>2 DEF floorVars, TypeOK
  <2> QED BY <2>1, <2>2, <2>3, <2>4
<1>2. CASE call[c].op \in {"start", "restore"} /\ entry = i
  <2>1. Terminates(c, i, "failing")
    BY <1>2 DEF Fails
  <2> QED BY <1>1, <1>2, <2>1, TerminatesStep
<1>3. CASE ~(call[c].op \in {"start", "restore"} /\ entry = i) /\ call[c].op = "interrupt"
  <2>1. Answer(c, "recycle") /\ UNCHANGED <<entry, proc>>
    BY <1>3 DEF Fails
  <2> QED BY <1>1, <1>3, <2>1, AnswerStep DEF slotState
<1>4. CASE ~(call[c].op \in {"start", "restore"} /\ entry = i) /\ call[c].op # "interrupt"
  <2>1. call' = [call EXCEPT ![c] = End(c, "failed")] /\ UNCHANGED <<broker, entry, proc>>
    BY <1>4 DEF Fails
  <2> QED BY <1>1, <1>4, <2>1, EndsStep DEF slotState
<1> QED BY <1>2, <1>3, <1>4

\* A caller that waits for its runtime's end is on one that was launched.
LEMMA EndingOn ==
  ASSUME TransportInv, NEW c \in Callers, call[c].pc \in Ending \cup {"restoring", "prompted"}
  PROVE  /\ call[c].on \in 1..launched /\ call[c].on \in Runtimes /\ call[c].op # "interrupt"
         /\ call[c] \in Calls
<1>1. CallInv /\ call[c] \in Calls /\ launched \in 0..MaxLaunches
  BY DEF TransportInv, TypeOK
<1>2. call[c].pc \notin Early /\ call[c].pc \notin Interrupting
  BY DEF Early, Interrupting, Ending
<1>3. call[c].on # 0 /\ call[c].on =< launched /\ call[c].on \in 0..MaxLaunches /\ call[c].op # "interrupt"
  BY <1>1, <1>2 DEF CallInv, Calls
<1> QED BY <1>1, <1>3, TransportAssumption DEF Runtimes

LEMMA GraceStep == ASSUME TransportInv, NEW c \in Callers, GraceEnds(c) PROVE TransportInv'
<1> DEFINE i == call[c].on
<1>1. call[c].pc = "grace"
  BY DEF GraceEnds
<1>2. i \in 1..launched /\ i \in Runtimes /\ call[c].op # "interrupt" /\ call[c] \in Calls
  BY <1>1, EndingOn DEF Ending
<1>3. /\ proc' = [proc EXCEPT ![i] = GroupKilled(i)]
      /\ broker' = [broker EXCEPT ![i] = [broker[i] EXCEPT !.killed = TRUE]]
      /\ UNCHANGED <<kind, life, told, launched, terminal, pipe, floorVars, unhandled, ops>>
  BY <1>2 DEF GraceEnds, TransportInv, TypeOK
<1>4. \/ life[i] = "live" /\ call' = [OverFor(i) EXCEPT ![c].pc = "forced"] /\ entry' = entry
      \/ Forget(c, i)
  BY DEF GraceEnds
<1> HIDE DEF i
<1>5. /\ proc[i] \in Processes /\ IsFiniteSet(proc[i].line) /\ broker[i] \in Brokers
      /\ unhandled' \in BOOLEAN /\ ops' \in 0..MaxOps
      /\ call \in [Callers -> Calls] /\ \A d \in Callers : Alike(call[d], call[d])
  BY <1>2, <1>3 DEF TransportInv, TypeOK, Alike
<1> DEFINE q == IF Up(i) THEN Dying(proc[i]) ELSE proc[i]
<1>6. /\ q \in Processes /\ IsFiniteSet(q.line) /\ (q.mode = "none" <=> proc[i].mode = "none")
      /\ q.mode \in UpModes => proc[i].mode \in UpModes
  <2>1. CASE Up(i)
    <3>1. q = Dying(proc[i]) /\ proc[i].mode # "none"
      BY <2>1 DEF Up
    <3>2. Dying(proc[i]) \in Processes /\ Dying(proc[i]).mode = "dead" /\ IsFiniteSet(Dying(proc[i]).line)
      BY <1>5, DyingFacts, FS_EmptySet
    <3> QED BY <3>1, <3>2 DEF UpModes
  <2>2. CASE ~Up(i)
    BY <1>5, <2>2
  <2> QED BY <2>1, <2>2
<1> DEFINE h == IF q.holder = "group" THEN "none" ELSE q.holder
           p == [q EXCEPT !.holder = h]
<1>7. p \in Processes /\ p.mode = q.mode /\ IsFiniteSet(p.line)
  <2> HIDE DEF q
  <2>1. h \in {"none", "group", "away"}
    BY <1>6 DEF Processes
  <2> HIDE DEF h
  <2> QED BY <1>6, <2>1, SignalFacts
<1>8. proc' = [proc EXCEPT ![i] = p]
  BY <1>3 DEF GroupKilled
<1> DEFINE b == [broker[i] EXCEPT !.killed = TRUE]
<1>9. /\ b \in Brokers /\ b.freeing = broker[i].freeing /\ b.fresh = broker[i].fresh
      /\ b.interrupting = broker[i].interrupting /\ b.heard = broker[i].heard
      /\ b.subscribed = broker[i].subscribed
  BY <1>5 DEF Brokers
<1>10. broker' = [broker EXCEPT ![i] = b]
  BY <1>3
<1>a. /\ p.mode = "none" <=> proc[i].mode = "none"
      /\ p.mode \in UpModes => proc[i].mode \in UpModes
      /\ b.subscribed => broker[i].subscribed
  <2> HIDE DEF p, q, b
  <2> QED BY <1>6, <1>7, <1>9
<1> HIDE DEF p, q, b
<1>b. ASSUME NEW f \in [Callers -> Calls], \A d \in Callers : Alike(f[d], call[d]),
             NEW s \in Calls, Plain(s), call' = [f EXCEPT ![c] = s],
             entry' = entry \/ (entry' = 0 /\ (entry \in Runtimes => life[entry] # "live"))
      PROVE  TransportInv'
  BY <1>2, <1>3, <1>5, <1>a, <1>7, <1>8, <1>9, <1>10, <1>b, EndingKeeps
<1>11. CASE life[i] = "live" /\ call' = [OverFor(i) EXCEPT ![c].pc = "forced"] /\ entry' = entry
  <2>1. OverFor(i) \in [Callers -> Calls] /\ \A d \in Callers : Alike(OverFor(i)[d], call[d])
    BY OwedFacts DEF TransportInv
  <2> DEFINE s == [OverFor(i)[c] EXCEPT !.pc = "forced"]
  <2>2. s \in Calls /\ s.op = call[c].op /\ s.on = i /\ s.pc = "forced"
    <3>1. OverFor(i)[c] \in Calls /\ Alike(OverFor(i)[c], call[c])
      BY <2>1
    <3> QED BY <3>1 DEF Calls, Pcs, Alike, i
  <2>3. call' = [OverFor(i) EXCEPT ![c] = s]
    BY <1>11, <2>1
  <2> HIDE DEF s
  <2>4. Plain(s)
    BY <1>2, <1>11, <2>2 DEF Plain, Early, Ending
  <2> QED BY <1>b, <1>11, <2>1, <2>2, <2>3, <2>4
<1>12. CASE Forget(c, i)
  <2>1. /\ entry' = entry \/ (entry' = 0 /\ (entry \in Runtimes => life[entry] # "live"))
        /\ \E s \in Calls : call' = [call EXCEPT ![c] = s] /\ Plain(s)
    BY <1>2, <1>12, ForgetFacts
  <2>2. PICK s \in Calls : call' = [call EXCEPT ![c] = s] /\ Plain(s)
    BY <2>1
  <2> QED BY <1>b, <1>5, <2>1, <2>2
<1> QED BY <1>4, <1>11, <1>12 DEF i

\* A runtime forgotten, and nothing else changed.
LEMMA ForgetsStep ==
  ASSUME TransportInv, NEW c \in Callers, call[c].op # "interrupt",
         entry' = entry \/ (entry' = 0 /\ (entry \in Runtimes => life[entry] # "live")),
         \E s \in Calls : call' = [call EXCEPT ![c] = s] /\ Plain(s),
         UNCHANGED <<kind, life, told, launched, terminal, broker, proc, pipe, floorVars, unhandled, ops>>
  PROVE  TransportInv'
<1>1. PICK s \in Calls : call' = [call EXCEPT ![c] = s] /\ Plain(s)
  OBVIOUS
<1>2. call \in [Callers -> Calls] /\ \A d \in Callers : Alike(call[d], call[d])
  BY DEF TransportInv, TypeOK, Alike
<1>3. /\ call' \in [Callers -> Calls] /\ call'[c] = s
      /\ \A d \in Callers \ {c} : Alike(call'[d], call[d])
  BY <1>1, <1>2, CallerFacts
<1>4. \A d \in Callers : Alike(call'[d], call[d]) \/ Plain(call'[d])
  BY <1>1, <1>3
<1>5. TypeOK' /\ LifeInv' /\ ProcInv' /\ CallInv'
  BY <1>3, <1>4, QuietKeeps DEF TransportInv, TypeOK, floorVars
<1>6. HeardInv'
  BY <1>3, HeardKeeps DEF TransportInv, Alike
<1> QED BY <1>5, <1>6 DEF TransportInv

LEMMA ForcedStep == ASSUME TransportInv, NEW c \in Callers, ForcedEnds(c) PROVE TransportInv'
<1> DEFINE i == call[c].on
<1>1. call[c].pc = "forced" /\ Forget(c, i)
      /\ UNCHANGED <<kind, life, told, launched, terminal, broker, proc, pipe, floorVars, unhandled, ops>>
  BY DEF ForcedEnds
<1>2. i \in Runtimes /\ call[c].op # "interrupt"
  BY <1>1, EndingOn DEF Ending
<1>3. /\ entry' = entry \/ (entry' = 0 /\ (entry \in Runtimes => life[entry] # "live"))
      /\ \E s \in Calls : call' = [call EXCEPT ![c] = s] /\ Plain(s)
  BY <1>1, <1>2, ForgetFacts
<1> QED BY <1>1, <1>2, <1>3, ForgetsStep

LEMMA DumpStep == ASSUME TransportInv, NEW c \in Callers, DumpEnds(c) PROVE TransportInv'
<1> DEFINE i == call[c].on
<1>1. call[c].pc = "dumped"
      /\ UNCHANGED <<kind, life, told, launched, terminal, broker, proc, pipe, floorVars, unhandled, ops>>
  BY DEF DumpEnds
<1>2. i \in Runtimes /\ call[c].op # "interrupt"
  BY <1>1, EndingOn DEF Ending
<1>3. entry \in {0, i} /\ 0 \notin Runtimes
  BY <1>1, TransportAssumption DEF TransportInv, CallInv, Runtimes
<1>4. entry' = entry \/ (entry' = 0 /\ life[i] # "live")
  BY DEF DumpEnds
<1>5. \A answer : End(c, answer) \in Calls /\ Plain(End(c, answer))
  BY EndFacts DEF Plain, Early, Ending, TransportInv, TypeOK
<1>6. call' = [call EXCEPT ![c] = End(c, "failed")] \/ call' = [call EXCEPT ![c] = End(c, "done")]
  BY DEF DumpEnds
<1>7. \E s \in Calls : call' = [call EXCEPT ![c] = s] /\ Plain(s)
  BY <1>5, <1>6
<1>8. entry' = entry \/ (entry' = 0 /\ (entry \in Runtimes => life[entry] # "live"))
  BY <1>3, <1>4
<1> QED BY <1>1, <1>2, <1>7, <1>8, ForgetsStep

LEMMA SnapshotStep ==
  ASSUME TransportInv, NEW c \in Callers, NEW i \in 1..launched, Snapshot(c, i)
  PROVE  TransportInv'
<1>1. /\ Begins(c) /\ entry = i /\ broker' = [broker EXCEPT ![i].subscribed = FALSE]
      /\ UNCHANGED <<kind, slotState, launched, terminal, pipe, floorVars, unhandled>>
      /\ \/ /\ Up(i) /\ proc' = [proc EXCEPT ![i] = [Dying(@) EXCEPT !.holder = "none"]]
            /\ call' = [OverFor(i) EXCEPT
                          ![c] = [Quiet EXCEPT !.op = "snapshot", !.on = i, !.pc = "dumped"]]
         \/ call' = [call EXCEPT ![c] = End(c, "failed")] /\ UNCHANGED proc
  BY Zenon DEF Snapshot, Held
<1>2. /\ i \in Runtimes /\ proc[i] \in Processes /\ IsFiniteSet(proc[i].line) /\ broker[i] \in Brokers
      /\ proc = [proc EXCEPT ![i] = proc[i]] /\ unhandled' \in BOOLEAN
      /\ call \in [Callers -> Calls] /\ \A d \in Callers : Alike(call[d], call[d])
  BY <1>1, TransportAssumption DEF TransportInv, TypeOK, Runtimes, Alike
<1>3. ops' \in 0..MaxOps /\ call[c].op # "interrupt"
  BY <1>1, BeginsFacts DEF TransportInv
<1> DEFINE b == [broker[i] EXCEPT !.subscribed = FALSE]
<1>4. /\ b \in Brokers /\ b.freeing = broker[i].freeing /\ b.fresh = broker[i].fresh
      /\ b.interrupting = broker[i].interrupting /\ b.heard = broker[i].heard /\ ~b.subscribed
  BY <1>2 DEF Brokers
<1>5. broker' = [broker EXCEPT ![i] = b]
  BY <1>1, <1>2 DEF TransportInv, TypeOK
<1> HIDE DEF b
<1>6. ASSUME NEW f \in [Callers -> Calls], \A d \in Callers : Alike(f[d], call[d]),
             NEW s \in Calls, Plain(s), call' = [f EXCEPT ![c] = s],
             NEW p \in Processes, IsFiniteSet(p.line), p.mode = "none" <=> proc[i].mode = "none",
             p.mode \in UpModes => proc[i].mode \in UpModes, proc' = [proc EXCEPT ![i] = p]
      PROVE  TransportInv'
  BY <1>1, <1>2, <1>3, <1>4, <1>5, <1>6, EndingKeeps DEF slotState
<1>7. CASE /\ Up(i) /\ proc' = [proc EXCEPT ![i] = [Dying(@) EXCEPT !.holder = "none"]]
           /\ call' = [OverFor(i) EXCEPT
                         ![c] = [Quiet EXCEPT !.op = "snapshot", !.on = i, !.pc = "dumped"]]
  <2>1. OverFor(i) \in [Callers -> Calls] /\ \A d \in Callers : Alike(OverFor(i)[d], call[d])
    BY OwedFacts DEF TransportInv
  <2> DEFINE s == [Quiet EXCEPT !.op = "snapshot", !.on = i, !.pc = "dumped"]
  <2>2. life[i] = "live"
    BY <1>2, <1>7 DEF TransportInv, ProcInv, Up, UpModes
  <2>3. s \in Calls /\ Plain(s)
    BY <2>2, EnderFacts DEF Ending
  <2>4. call' = [OverFor(i) EXCEPT ![c] = s]
    BY <1>7
  <2> HIDE DEF s
  <2> DEFINE d == Dying(proc[i])
             p == [d EXCEPT !.holder = "none"]
  <2>5. d \in Processes /\ d.mode = "dead" /\ IsFiniteSet(d.line)
    BY <1>2, DyingFacts, FS_EmptySet
  <2>6. proc' = [proc EXCEPT ![i] = p]
    BY <1>2, <1>7
  <2> HIDE DEF d
  <2>7. p \in Processes /\ p.mode = "dead" /\ IsFiniteSet(p.line)
    BY <2>5, SignalFacts
  <2> HIDE DEF p
  <2>8. proc[i].mode # "none"
    BY <1>7 DEF Up
  <2>9. (p.mode = "none" <=> proc[i].mode = "none") /\ (p.mode \in UpModes => proc[i].mode \in UpModes)
    BY <2>7, <2>8 DEF UpModes
  <2> QED BY <1>6, <2>1, <2>3, <2>4, <2>6, <2>7, <2>9
<1>8. CASE call' = [call EXCEPT ![c] = End(c, "failed")] /\ UNCHANGED proc
  <2>1. End(c, "failed") \in Calls /\ Plain(End(c, "failed"))
    BY EndFacts DEF Plain, Early, Ending, TransportInv, TypeOK
  <2>2. proc' = [proc EXCEPT ![i] = proc[i]]
    BY <1>2, <1>8
  <2> QED BY <1>2, <1>6, <1>8, <2>1, <2>2
<1> QED BY <1>1, <1>7, <1>8

LEMMA TerminateStep ==
  ASSUME TransportInv, NEW c \in Callers, NEW i \in 1..launched, Terminate(c, i)
  PROVE  TransportInv'
<1>1. /\ Begins(c) /\ Terminates(c, i, "terminate")
      /\ UNCHANGED <<kind, life, told, launched, terminal, pipe, floorVars, unhandled>>
  BY DEF Terminate
<1>2. ops' \in 0..MaxOps /\ call[c].op # "interrupt"
  BY <1>1, BeginsFacts DEF TransportInv
<1> QED BY <1>1, <1>2, TerminatesStep

LEMMA PollStep == ASSUME TransportInv, NEW c \in Callers, RestorePolls(c) PROVE TransportInv'
<1> DEFINE i == call[c].on
<1>1. /\ call[c].pc = "restoring"
      /\ UNCHANGED <<kind, life, told, launched, terminal, pipe, floorVars, unhandled, ops>>
  BY DEF RestorePolls
<1>2. i \in 1..launched /\ i \in Runtimes /\ call[c].op # "interrupt" /\ call[c] \in Calls
  BY <1>1, EndingOn
<1>3. /\ past' \in BOOLEAN /\ advancing' \in BOOLEAN /\ unhandled' \in BOOLEAN /\ ops' \in 0..MaxOps
  BY <1>1 DEF floorVars, TransportInv, TypeOK
<1>4. CASE call' = [call EXCEPT ![c].pc = "prompted"] /\ UNCHANGED <<entry, proc, broker>>
  <2> DEFINE s == [call[c] EXCEPT !.pc = "prompted"]
  <2>1. s \in Calls /\ s.op = call[c].op /\ s.on = i /\ s.pc = "prompted"
    BY <1>2 DEF Calls, Pcs
  <2>2. call' = [call EXCEPT ![c] = s]
    BY <1>4 DEF TransportInv, TypeOK
  <2> HIDE DEF s
  <2>3. Plain(s)
    BY <1>2, <2>1 DEF Plain, Early, Ending, Runtimes
  <2> QED BY <1>1, <1>2, <1>3, <1>4, <2>1, <2>2, <2>3, WaiterKeeps DEF slotState
<1>5. CASE Terminates(c, i, "failing")
  BY <1>1, <1>2, <1>3, <1>5, TerminatesStep
<1>6. CASE call' = [call EXCEPT ![c] = End(c, "failed")] /\ UNCHANGED <<entry, proc, broker>>
  BY <1>1, <1>2, <1>3, <1>6, EndsStep DEF slotState
<1> QED BY <1>4, <1>5, <1>6, Zenon DEF RestorePolls

-----------------------------------------------------------------------------
(* How a session listens, and interrupts.                                  *)

\* It listens to a runtime whose end was not told, so it hears of that.
LEMMA SubscribeStep == ASSUME TransportInv, NEW c \in Callers, Subscribe(c) PROVE TransportInv'
<1> DEFINE i == call[c].on
           live == entry = i /\ terminal[i] = "none"
<1>1. /\ call[c].pc = "prompted" /\ broker' = [broker EXCEPT ![i].subscribed = live]
      /\ call' = [call EXCEPT ![c] = IF live THEN End(c, "done") ELSE [@ EXCEPT !.pc = "fail"]]
      /\ UNCHANGED <<kind, slotState, launched, terminal, proc, pipe, floorVars, unhandled, ops>>
  BY DEF Subscribe
<1>2. i \in 1..launched /\ i \in Runtimes /\ call[c].op # "interrupt" /\ call[c] \in Calls
  BY <1>1, EndingOn
<1>3. live \in BOOLEAN /\ (live => terminal[i] = "none")
  OBVIOUS
<1> DEFINE s == IF live THEN End(c, "done") ELSE [call[c] EXCEPT !.pc = "fail"]
<1>4. s \in Calls /\ Plain(s)
  <2>1. CASE live
    BY <2>1, EndFacts DEF Plain, Early, Ending, TransportInv, TypeOK
  <2>2. CASE ~live
    <3>1. TypeOK /\ CallInv /\ call[c].pc \notin Early
      BY <1>1 DEF TransportInv, Early
    <3>2. s = [call[c] EXCEPT !.pc = "fail"]
      BY <2>2
    <3> QED BY <3>1, <3>2, WaitEnds
  <2> QED BY <2>1, <2>2
<1>5. call' = [call EXCEPT ![c] = s]
  BY <1>1 DEF TransportInv, TypeOK
<1> HIDE DEF live, s
<1> DEFINE b == [broker[i] EXCEPT !.subscribed = live]
<1>6. /\ b \in Brokers /\ b.freeing = broker[i].freeing /\ b.fresh = broker[i].fresh
      /\ b.interrupting = broker[i].interrupting /\ b.heard = broker[i].heard /\ b.subscribed = live
  <2>1. broker[i] \in Brokers
    BY <1>2 DEF TransportInv, TypeOK
  <2> QED BY <1>3, <2>1 DEF Brokers
<1>7. broker' = [broker EXCEPT ![i] = b]
  <2>1. broker \in [Runtimes -> Brokers]
    BY DEF TransportInv, TypeOK
  <2> QED BY <1>1, <1>2, <2>1
<1> HIDE DEF b, i
<1>8. /\ call' \in [Callers -> Calls] /\ call'[c] = s
      /\ \A d \in Callers \ {c} : Alike(call'[d], call[d])
  BY <1>4, <1>5, CallerFacts DEF TransportInv, TypeOK, Alike
<1>9. /\ broker' \in [Runtimes -> Brokers] /\ broker'[i] = b
      /\ \A j \in Runtimes \ {i} : broker'[j] = broker[j]
  BY <1>2, <1>6, <1>7 DEF TransportInv, TypeOK
<1>10. TypeOK' /\ LifeInv' /\ ProcInv' /\ CallInv'
  <2>1. \A d \in Callers : Alike(call'[d], call[d]) \/ Plain(call'[d])
    BY <1>4, <1>8
  <2>2. \A j \in Runtimes : broker'[j].freeing = broker[j].freeing /\ broker'[j].fresh = broker[j].fresh
    BY <1>6, <1>9
  <2>3. past' \in BOOLEAN /\ advancing' \in BOOLEAN /\ unhandled' \in BOOLEAN /\ ops' \in 0..MaxOps
    BY <1>1 DEF floorVars, TransportInv, TypeOK
  <2> QED BY <1>1, <1>8, <1>9, <2>1, <2>2, <2>3, CallerKeeps
<1>11. \A j \in Runtimes, d \in Callers :
          call[d].op = "interrupt" /\ call[d].on = j => call'[d].op = "interrupt" /\ call'[d].on = j
  BY <1>2, <1>8 DEF Alike
<1>12. ASSUME NEW j \in Runtimes, broker'[j].interrupting
       PROVE  \E d \in Callers : call'[d].op = "interrupt" /\ call'[d].on = j
  <2>1. broker[j].interrupting
    BY <1>6, <1>9, <1>12
  <2> QED BY <1>11, <2>1 DEF TransportInv, HeardInv
<1>13. ASSUME NEW j \in Runtimes, terminal[j] # "none", broker'[j].subscribed, ~told[j]
       PROVE  broker'[j].heard \/ \E d \in Callers : call'[d].op = "interrupt" /\ call'[d].on = j
  <2>1. j # i
    BY <1>3, <1>6, <1>9, <1>13
  <2>2. broker'[j] = broker[j]
    BY <1>9, <2>1
  <2> QED BY <1>11, <1>13, <2>2 DEF TransportInv, HeardInv, NoSilentEnd
<1>14. HeardInv'
  BY <1>1, <1>12, <1>13 DEF HeardInv, NoSilentEnd, slotState
<1> QED BY <1>10, <1>14 DEF TransportInv

\* What an interrupt does to a runtime, and what waits for it to end.
LEMMA ReactsFacts ==
  ASSUME TransportInv, NEW i \in 1..launched, Reacts(i)
  PROVE  /\ \E p \in Processes : /\ IsFiniteSet(p.line) /\ proc' = [proc EXCEPT ![i] = p]
                                 /\ p.mode = "none" <=> proc[i].mode = "none"
                                 /\ p.mode \in UpModes => proc[i].mode \in UpModes
         /\ \E q \in Seq(Tokens) : /\ pipe' = [pipe EXCEPT ![i] = q]
                                   /\ q = pipe[i] \/ proc[i].mode \in UpModes
<1>1. /\ i \in Runtimes /\ proc[i] \in Processes /\ IsFiniteSet(proc[i].line) /\ pipe[i] \in Seq(Tokens)
      /\ proc \in [Runtimes -> Processes] /\ pipe \in [Runtimes -> Seq(Tokens)]
      /\ proc = [proc EXCEPT ![i] = proc[i]] /\ pipe = [pipe EXCEPT ![i] = pipe[i]]
  BY TransportAssumption DEF TransportInv, TypeOK, Runtimes
<1>2. CASE UNCHANGED <<proc, pipe>>
  BY <1>1, <1>2
<1>3. CASE /\ proc[i].mode \in {"idle", "busy"}
           /\ proc' = [proc EXCEPT ![i].mode = "idle",
                                   ![i].cells = IF proc[i].mode = "busy" THEN @ - 1 ELSE @]
           /\ pipe' = [pipe EXCEPT ![i] = Append(@, Prompt)]
  <2> DEFINE n == IF proc[i].mode = "busy" THEN proc[i].cells - 1 ELSE proc[i].cells
             p == [proc[i] EXCEPT !.mode = "idle", !.cells = n]
  <2>1. n \in Int
    <3>1. proc[i].cells \in Int
      BY <1>1 DEF Processes
    <3> QED BY <3>1
  <2>2. proc' = [proc EXCEPT ![i] = p]
    BY <1>1, <1>3
  <2> HIDE DEF n
  <2>3. p \in Processes /\ p.mode = "idle" /\ p.line = proc[i].line
    BY <1>1, <2>1 DEF Processes, Modes
  <2>4. pipe' = [pipe EXCEPT ![i] = Append(pipe[i], Prompt)] /\ Append(pipe[i], Prompt) \in Seq(Tokens)
    BY <1>1, <1>3, ItemFacts
  <2> HIDE DEF p
  <2> QED BY <1>1, <1>3, <2>2, <2>3, <2>4 DEF UpModes
<1>4. CASE Up(i) /\ proc' = [proc EXCEPT ![i] = Dying(@)] /\ UNCHANGED pipe
  <2>1. proc' = [proc EXCEPT ![i] = Dying(proc[i])] /\ proc[i].mode # "none"
    BY <1>1, <1>4 DEF Up
  <2>2. Dying(proc[i]) \in Processes /\ Dying(proc[i]).mode = "dead" /\ IsFiniteSet(Dying(proc[i]).line)
    BY <1>1, DyingFacts, FS_EmptySet
  <2> QED BY <1>1, <1>4, <2>1, <2>2 DEF UpModes
<1> QED BY <1>2, <1>3, <1>4 DEF Reacts

\* The one who interrupts a runtime is the one who answers for its end.
LEMMA InterruptStep ==
  ASSUME TransportInv, NEW c \in Callers, NEW i \in 1..launched, Interrupt(c, i)
  PROVE  TransportInv'
<1> DEFINE ctrlC == InterruptStrategy[kind] = "write_ctrl_c"
           refused == ctrlC /\ terminal[i] # "none"
           f == IF proc'[i].cells < proc[i].cells THEN CellsEnd(i, 1) ELSE call
           s == [Quiet EXCEPT !.op = "interrupt", !.on = i, !.seen = broker[i].prompts,
                              !.nonce = ops', !.owe = proc'[i].cells, !.stage = "ctrlC",
                              !.pc = IF refused THEN "fail" ELSE "go"]
           e == broker[i].epipe \/ (ctrlC /\ ~Up(i))
           b == [broker[i] EXCEPT !.interrupting = TRUE, !.epipe = e]
<1>1. /\ Begins(c) /\ (UNCHANGED <<proc, pipe>> \/ Reacts(i))
      /\ call' = [f EXCEPT ![c] = s]
      /\ UNCHANGED <<kind, slotState, launched, terminal, floorVars, unhandled>>
  BY DEF Interrupt
<1>2. ops' \in 0..MaxOps /\ ops' \in Nat /\ call[c].op # "interrupt"
  BY <1>1, BeginsFacts DEF TransportInv
<1>3. /\ i \in Runtimes /\ broker[i] \in Brokers /\ call \in [Callers -> Calls]
      /\ \A d \in Callers : Alike(call[d], call[d])
      /\ broker \in [Runtimes -> Brokers] /\ proc \in [Runtimes -> Processes]
      /\ pipe \in [Runtimes -> Seq(Tokens)] /\ \A j \in Runtimes : IsFiniteSet(proc[j].line)
  BY TransportAssumption DEF TransportInv, TypeOK, Runtimes, Alike
<1>4. broker' = [broker EXCEPT ![i] = b]
  BY <1>3 DEF Interrupt
<1>5. Reacts(i)
  BY <1>1 DEF Reacts
<1>6. PICK p \in Processes : /\ IsFiniteSet(p.line) /\ proc' = [proc EXCEPT ![i] = p]
                             /\ p.mode = "none" <=> proc[i].mode = "none"
                             /\ p.mode \in UpModes => proc[i].mode \in UpModes
  BY <1>5, ReactsFacts
<1>7. PICK q \in Seq(Tokens) : /\ pipe' = [pipe EXCEPT ![i] = q]
                               /\ q = pipe[i] \/ proc[i].mode \in UpModes
  BY <1>5, ReactsFacts
<1>8. /\ proc' \in [Runtimes -> Processes] /\ \A j \in Runtimes : IsFiniteSet(proc'[j].line)
      /\ \A j \in Runtimes : /\ proc'[j].mode = "none" <=> proc[j].mode = "none"
                             /\ proc'[j].mode \in UpModes => proc[j].mode \in UpModes
  <2>1. proc'[i] = p /\ \A j \in Runtimes \ {i} : proc'[j] = proc[j]
    BY <1>3, <1>6
  <2> QED BY <1>3, <1>6, <2>1
<1>9. /\ pipe' \in [Runtimes -> Seq(Tokens)]
      /\ \A j \in Runtimes : pipe'[j] = pipe[j] \/ proc[j].mode \in UpModes
  BY <1>3, <1>7
<1>10. f \in [Callers -> Calls] /\ \A d \in Callers : Alike(f[d], call[d])
  BY <1>3, OwedFacts DEF TransportInv
<1>11. s \in Calls /\ Plain(s) /\ s.op = "interrupt" /\ s.on = i
  <2>1. broker[i].prompts \in Nat /\ proc'[i].cells \in Int
    BY <1>3, <1>8 DEF Brokers, Processes
  <2> DEFINE seen == broker[i].prompts
             owe == proc'[i].cells
             pc == IF refused THEN "fail" ELSE "go"
  <2>2. pc \in {"fail", "go"}
    OBVIOUS
  <2>3. s = [Quiet EXCEPT !.op = "interrupt", !.on = i, !.seen = seen, !.nonce = ops', !.owe = owe,
                          !.stage = "ctrlC", !.pc = pc]
    OBVIOUS
  <2> HIDE DEF s, seen, owe, pc
  <2>4. seen \in Nat /\ owe \in Int /\ pc \in Pcs
    BY <2>1, <2>2 DEF seen, owe, Pcs
  <2>5. i \in 0..MaxLaunches /\ i # 0 /\ i =< launched
    BY TransportAssumption DEF TransportInv, TypeOK
  <2>6. s.op = "interrupt" /\ s.on = i /\ s.stage = "ctrlC" /\ s.pc = pc
    BY <2>3 DEF Quiet
  <2>7. s \in Calls
    BY <1>2, <2>3, <2>4, <2>5 DEF Quiet, Calls
  <2>8. Plain(s)
    BY <2>2, <2>5, <2>6 DEF Plain, Early, Ending, Interrupting
  <2> QED BY <2>6, <2>7, <2>8
<1>12. /\ b \in Brokers /\ b.freeing = broker[i].freeing /\ b.fresh = broker[i].fresh
       /\ b.heard = broker[i].heard /\ b.subscribed = broker[i].subscribed
  <2>1. e \in BOOLEAN
    OBVIOUS
  <2> HIDE DEF e
  <2> QED BY <1>3, <2>1 DEF Brokers
<1> HIDE DEF f, s, b
<1>13. /\ call' \in [Callers -> Calls] /\ call'[c] = s
       /\ \A d \in Callers \ {c} : Alike(call'[d], call[d])
  BY <1>1, <1>10, <1>11, CallerFacts
<1>14. /\ broker' \in [Runtimes -> Brokers] /\ broker'[i] = b
       /\ \A j \in Runtimes \ {i} : broker'[j] = broker[j]
  BY <1>3, <1>4, <1>12
<1>15. TypeOK' /\ LifeInv' /\ ProcInv' /\ CallInv'
  <2>1. \A d \in Callers : Alike(call'[d], call[d]) \/ Plain(call'[d])
    BY <1>11, <1>13
  <2>2. \A j \in Runtimes : broker'[j].freeing = broker[j].freeing /\ broker'[j].fresh = broker[j].fresh
    BY <1>12, <1>14
  <2>3. past' \in BOOLEAN /\ advancing' \in BOOLEAN /\ unhandled' \in BOOLEAN
    BY <1>1 DEF floorVars, TransportInv, TypeOK
  <2> QED BY <1>1, <1>2, <1>8, <1>9, <1>13, <1>14, <2>1, <2>2, <2>3, QuietKeeps DEF slotState
<1>16. \A j \in Runtimes, d \in Callers :
          call[d].op = "interrupt" /\ call[d].on = j => call'[d].op = "interrupt" /\ call'[d].on = j
  BY <1>2, <1>13 DEF Alike
<1>17. ASSUME NEW j \in Runtimes, broker'[j].interrupting
       PROVE  \E d \in Callers : call'[d].op = "interrupt" /\ call'[d].on = j
  <2>1. CASE j = i
    BY <1>11, <1>13, <2>1
  <2>2. CASE j # i
    <3>1. broker[j].interrupting
      BY <1>14, <1>17, <2>2
    <3> QED BY <1>16, <3>1 DEF TransportInv, HeardInv
  <2> QED BY <2>1, <2>2
<1>18. ASSUME NEW j \in Runtimes, terminal[j] # "none", broker'[j].subscribed, ~told[j]
       PROVE  broker'[j].heard \/ \E d \in Callers : call'[d].op = "interrupt" /\ call'[d].on = j
  <2>1. broker'[j].heard = broker[j].heard /\ broker[j].subscribed
    BY <1>12, <1>14, <1>18
  <2> QED BY <1>16, <1>18, <2>1 DEF TransportInv, HeardInv, NoSilentEnd
<1>19. HeardInv'
  BY <1>1, <1>17, <1>18 DEF HeardInv, NoSilentEnd, slotState
<1> QED BY <1>15, <1>19 DEF TransportInv

LEMMA InterruptsNoneStep ==
  ASSUME TransportInv, NEW c \in Callers, NEW i \in 1..launched, InterruptsNone(c, i)
  PROVE  TransportInv'
<1>1. /\ Begins(c) /\ call' = [call EXCEPT ![c] = End(c, "recycle")]
      /\ UNCHANGED <<kind, slotState, launched, terminal, broker, proc, pipe, floorVars, unhandled>>
  BY DEF InterruptsNone
<1>2. ops' \in 0..MaxOps /\ call[c].op # "interrupt"
  BY <1>1, BeginsFacts DEF TransportInv
<1>3. past' \in BOOLEAN /\ advancing' \in BOOLEAN
  BY <1>1 DEF floorVars, TransportInv, TypeOK
<1> QED BY <1>1, <1>2, <1>3, EndsStep

-----------------------------------------------------------------------------
(* How runtimes are started.                                               *)

\* One is launched where none is held: then none is live, and no caller is at the end of
\* one that ended.
LEMMA LaunchStep ==
  ASSUME TransportInv, NEW c \in Callers, NEW restoring \in BOOLEAN, NEW then \in Calls,
         then.pc \in {"prompt", "restoring"}, then.op # "interrupt", call[c].op # "interrupt",
         Launch(c, restoring, then), entry = 0,
         \A d \in Callers : call[d].pc \in Ending => life[call[d].on] # "ended",
         UNCHANGED <<kind, told, terminal, pipe, unhandled>>, advancing' \in BOOLEAN, ops' \in 0..MaxOps
  PROVE  TransportInv'
<1> DEFINE i == launched + 1
           s == [then EXCEPT !.on = i, !.floored = FALSE]
           b == [broker[i] EXCEPT !.restoring = restoring]
<1>1. /\ launched < MaxLaunches /\ launched' = i /\ entry' = i /\ past' = FALSE
      /\ call' = [call EXCEPT ![c] = s] /\ broker' = [broker EXCEPT ![i].restoring = restoring]
  BY DEF Launch
<1>2. /\ launched \in Nat /\ MaxLaunches \in Nat /\ i \in Runtimes /\ i \in 0..MaxLaunches /\ i # 0
      /\ 0 \notin Runtimes
  BY <1>1, TransportAssumption DEF TransportInv, TypeOK, Runtimes
<1>3. life[i] = "unborn" /\ proc[i].mode = "none" /\ terminal[i] = "none" /\ ~broker[i].freeing
      /\ (broker[i].fresh => OnlyOthers(i)) /\ ~told[i]
  BY <1>2 DEF TransportInv, LifeInv, ProcInv
<1>4. /\ proc[i] \in Processes /\ IsFiniteSet(proc[i].line) /\ broker[i] \in Brokers
      /\ proc \in [Runtimes -> Processes] /\ broker \in [Runtimes -> Brokers]
      /\ call \in [Callers -> Calls] /\ life \in [Runtimes -> {"unborn", "live", "ended"}]
  BY <1>2 DEF TransportInv, TypeOK
<1>5. s \in Calls /\ s.op # "interrupt" /\ s.on = i /\ s.pc \in {"prompt", "restoring"}
  BY <1>2 DEF Calls
<1>6. /\ b \in Brokers /\ b.interrupting = broker[i].interrupting /\ b.heard = broker[i].heard
      /\ b.subscribed = broker[i].subscribed /\ b.freeing = broker[i].freeing /\ b.fresh = broker[i].fresh
  BY <1>4 DEF Brokers
<1>7. broker' = [broker EXCEPT ![i] = b]
  BY <1>1, <1>2, <1>4
<1>8. PICK m \in {"criu", "start", "failed"}, l \in {"live", "ended"} :
         /\ proc' = [proc EXCEPT ![i] = [proc[i] EXCEPT !.mode = m]] /\ life' = [life EXCEPT ![i] = l]
         /\ m \in UpModes => l = "live"
  <2>1. \/ /\ proc' = [proc EXCEPT ![i].mode = IF restoring THEN "criu" ELSE "start"]
           /\ life' = [life EXCEPT ![i] = "live"]
        \/ /\ proc' = [proc EXCEPT ![i].mode = "failed"]
           /\ life' = [life EXCEPT ![i] = "ended"]
    BY DEF Launch
  <2> HIDE DEF i
  <2>2. CASE /\ proc' = [proc EXCEPT ![i].mode = IF restoring THEN "criu" ELSE "start"]
             /\ life' = [life EXCEPT ![i] = "live"]
    <3>1. proc' = [proc EXCEPT ![i] = [proc[i] EXCEPT !.mode = IF restoring THEN "criu" ELSE "start"]]
      BY <1>2, <1>4, <2>2
    <3> QED BY <2>2, <3>1 DEF UpModes
  <2>3. CASE /\ proc' = [proc EXCEPT ![i].mode = "failed"]
             /\ life' = [life EXCEPT ![i] = "ended"]
    <3>1. proc' = [proc EXCEPT ![i] = [proc[i] EXCEPT !.mode = "failed"]]
      BY <1>2, <1>4, <2>3
    <3> QED BY <2>3, <3>1 DEF UpModes
  <2> QED BY <2>1, <2>2, <2>3
<1> DEFINE p == [proc[i] EXCEPT !.mode = m]
<1>9. p \in Processes /\ p.mode = m /\ p.line = proc[i].line
  BY <1>4 DEF Processes, Modes
<1>10. proc' = [proc EXCEPT ![i] = p]
  BY <1>8
<1> HIDE DEF s, b, p, i
<1>11. /\ broker' \in [Runtimes -> Brokers] /\ broker'[i] = b
       /\ \A j \in Runtimes \ {i} : broker'[j] = broker[j]
  BY <1>2, <1>4, <1>6, <1>7
<1>12. /\ proc' \in [Runtimes -> Processes] /\ proc'[i] = p
       /\ \A j \in Runtimes \ {i} : proc'[j] = proc[j]
  BY <1>2, <1>4, <1>9, <1>10
<1>13. /\ life' \in [Runtimes -> {"unborn", "live", "ended"}] /\ life'[i] = l
       /\ \A j \in Runtimes \ {i} : life'[j] = life[j]
  BY <1>2, <1>4, <1>8
<1>14. /\ call' \in [Callers -> Calls] /\ call'[c] = s
       /\ \A d \in Callers \ {c} : call'[d] = call[d]
  BY <1>1, <1>4, <1>5
<1>15. TypeOK'
  <2>1. entry' \in 0..MaxLaunches /\ launched' \in 0..MaxLaunches
    BY <1>1, <1>2
  <2>2. \A j \in Runtimes : IsFiniteSet(proc'[j].line)
    BY <1>4, <1>9, <1>12 DEF TransportInv, TypeOK
  <2>3. kind' \in Kinds /\ past' \in BOOLEAN /\ unhandled' \in BOOLEAN /\ told' \in [Runtimes -> BOOLEAN]
        /\ terminal' \in [Runtimes -> {"none", "exit", "memory", "stdin", "error"}]
        /\ pipe' \in [Runtimes -> Seq(Tokens)]
    BY <1>1 DEF TransportInv, TypeOK
  <2> QED BY <1>11, <1>12, <1>13, <1>14, <2>1, <2>2, <2>3 DEF TypeOK
<1>16. \A j \in Runtimes : (j > launched' <=> j > launched /\ j # i)
  BY <1>1, <1>2 DEF Runtimes, i
<1>17. LifeInv'
  <2>1. entry' =< launched'
    BY <1>1, <1>2
  <2>2. ASSUME NEW j \in Runtimes
        PROVE  /\ life'[j] = "unborn" <=> j > launched'
               /\ life'[j] = "live" => j = entry'
               /\ life'[j] = "unborn" => terminal'[j] = "none"
               /\ told'[j] => terminal'[j] # "none"
    <3>1. CASE j = i
      BY <1>1, <1>3, <1>8, <1>13, <1>16, <3>1
    <3>2. CASE j # i
      <4>1. life[j] # "live"
        BY <1>2 DEF TransportInv, LifeInv
      <4>2. life'[j] = life[j]
        BY <1>13, <3>2
      <4> QED BY <1>16, <3>2, <4>1, <4>2 DEF TransportInv, LifeInv
    <3> QED BY <3>1, <3>2
  <2> QED BY <2>1, <2>2 DEF LifeInv
<1>18. ProcInv'
  <2>1. ASSUME NEW j \in Runtimes
        PROVE  /\ proc'[j].mode = "none" <=> life'[j] = "unborn"
               /\ proc'[j].mode \in UpModes => life'[j] = "live"
               /\ broker'[j].freeing \/ terminal'[j] \in {"exit", "memory"} =>
                     life'[j] = "ended" /\ OnlyOthers(j)
               /\ life'[j] # "live" /\ broker'[j].fresh => OnlyOthers(j)
    <3>1. CASE j = i
      BY <1>3, <1>6, <1>8, <1>9, <1>11, <1>12, <1>13, <3>1
    <3>2. CASE j # i
      BY <1>11, <1>12, <1>13, <3>2 DEF TransportInv, ProcInv
    <3> QED BY <3>1, <3>2
  <2> QED BY <2>1 DEF ProcInv, OnlyOthers
<1>19. CallInv'
  <2>1. ASSUME NEW d \in Callers
        PROVE  /\ call'[d].on =< launched'
               /\ call'[d].pc \notin Early => call'[d].on # 0
               /\ call'[d].pc = "dumped" => entry' \in {0, call'[d].on}
               /\ call'[d].op = "interrupt" => /\ call'[d].pc \in Interrupting
                                               /\ call'[d].stage \in {"ctrlC", "prompt", "probe"}
    <3>1. CASE d = c
      BY <1>1, <1>2, <1>5, <1>14, <3>1 DEF i
    <3>2. CASE d # c
      <4>1. call'[d] = call[d] /\ call[d] \in Calls
        BY <1>4, <1>14, <3>2
      <4>2. call[d].on =< launched /\ launched' = launched + 1 /\ call[d].on \in Nat
        BY <1>1, <1>2, <4>1 DEF TransportInv, CallInv, Calls, i
      <4>3. call[d].pc # "dumped"
        <5>1. SUFFICES ASSUME call[d].pc = "dumped" PROVE FALSE
          OBVIOUS
        <5>2. call[d].on # 0 /\ life[call[d].on] # "ended"
          BY <5>1 DEF TransportInv, CallInv, Early, Ending
        <5>3. call[d].on \in Runtimes /\ ~(call[d].on > launched)
          BY <1>2, <4>1, <4>2, <5>2 DEF Calls, Runtimes
        <5>4. life[call[d].on] = "live"
          BY <1>4, <5>2, <5>3 DEF TransportInv, LifeInv
        <5> QED BY <5>2, <5>3, <5>4 DEF TransportInv, LifeInv
      <4>4. call'[d].on =< launched'
        BY <1>2, <4>1, <4>2
      <4> QED BY <4>1, <4>3, <4>4 DEF TransportInv, CallInv
    <3> QED BY <3>1, <3>2
  <2>2. ASSUME NEW d \in Callers, NEW e \in Callers,
               call'[d].pc \in Ending, life'[call'[d].on] = "ended", call'[e].pc = "advanced"
        PROVE  FALSE
    <3>1. d # c /\ call'[d] = call[d] /\ call[d] \in Calls
      BY <1>4, <1>5, <1>14, <2>2 DEF Ending
    <3>2. call[d].on # 0 /\ call[d].on =< launched /\ call[d].on \in 0..MaxLaunches
      BY <2>2, <3>1 DEF TransportInv, CallInv, Early, Ending, Calls
    <3>3. call[d].on \in Runtimes /\ call[d].on # i
      BY <1>2, <3>2 DEF Runtimes, i
    <3>4. life'[call[d].on] = life[call[d].on]
      BY <1>13, <3>3
    <3> QED BY <2>2, <3>1, <3>4
  <2> QED BY <2>1, <2>2 DEF CallInv
<1>20. HeardInv'
  <2>1. \A j \in Runtimes : /\ broker'[j].interrupting => broker[j].interrupting
                            /\ broker[j].heard => broker'[j].heard
                            /\ broker'[j].subscribed => broker[j].subscribed
    BY <1>6, <1>11
  <2>2. \A d \in Callers : call[d].op = "interrupt" =>
                               call'[d].op = "interrupt" /\ call'[d].on = call[d].on
    BY <1>14
  <2> QED BY <2>1, <2>2, HeardKeeps DEF TransportInv
<1> QED BY <1>15, <1>17, <1>18, <1>19, <1>20 DEF TransportInv

\* Nothing is left to run on, so no caller is at the end of a runtime that ended.
LEMMA SettledFacts ==
  ASSUME TransportInv, Settled
  PROVE  /\ \A d \in Callers : call[d].pc \in Ending => life[call[d].on] # "ended"
         /\ \A d \in Callers : call[d].pc # "advanced"
BY DEF Settled, Ending

LEMMA StartStep == ASSUME TransportInv, NEW c \in Callers, Start(c) PROVE TransportInv'
<1> DEFINE s == [Quiet EXCEPT !.op = "start", !.pc = "prepare"]
<1>1. /\ Begins(c) /\ call' = [call EXCEPT ![c] = s]
      /\ UNCHANGED <<kind, slotState, launched, terminal, broker, proc, pipe, floorVars, unhandled>>
  BY DEF Start
<1>2. ops' \in 0..MaxOps /\ call[c].op # "interrupt"
  BY <1>1, BeginsFacts DEF TransportInv
<1>3. past' \in BOOLEAN /\ advancing' \in BOOLEAN /\ unhandled' \in BOOLEAN
  BY <1>1 DEF floorVars, TransportInv, TypeOK
<1>4. s \in Calls /\ s.op = "start" /\ s.pc = "prepare" /\ s.on = 0
  BY NothingFacts DEF Quiet, Calls, Pcs
<1> HIDE DEF s
<1>5. Plain(s)
  BY <1>4 DEF Plain, Early, Ending, TransportInv, TypeOK
<1> QED BY <1>1, <1>2, <1>3, <1>4, <1>5, WaiterKeeps

LEMMA RestoreStep == ASSUME TransportInv, NEW c \in Callers, Restore(c) PROVE TransportInv'
<1> DEFINE s == [Quiet EXCEPT !.op = "restore", !.pc = "restoring"]
<1>1. /\ Begins(c) /\ entry = 0 /\ Launch(c, TRUE, s)
      /\ UNCHANGED <<kind, told, terminal, pipe, advancing, unhandled>>
  BY DEF Restore
<1>2. ops' \in 0..MaxOps /\ call[c].op # "interrupt" /\ Settled
  BY <1>1, BeginsFacts DEF TransportInv
<1>3. advancing' \in BOOLEAN
  BY <1>1 DEF TransportInv, TypeOK
<1>4. s \in Calls /\ s.op # "interrupt" /\ s.pc = "restoring"
  BY NothingFacts DEF Quiet, Calls, Pcs
<1> HIDE DEF s
<1> QED BY <1>1, <1>2, <1>3, <1>4, SettledFacts, LaunchStep

\* A start goes on to launch, to advance the counter, or fails.
LEMMA StartsOn ==
  ASSUME TransportInv, NEW c \in Callers, call[c].pc \in {"prepare", "advanced"},
         \A d \in Callers : call[d].pc \in Ending => life[call[d].on] # "ended",
         UNCHANGED <<kind, told, terminal, pipe, unhandled, ops>>,
         \/ /\ advancing' = TRUE /\ call' = [call EXCEPT ![c].pc = "advance"]
            /\ UNCHANGED <<entry, life, launched, broker, proc, past>>
         \/ /\ entry = 0 /\ Launch(c, FALSE, [call[c] EXCEPT !.pc = "prompt", !.stage = "prompt"])
            /\ UNCHANGED advancing
         \/ /\ call' = [call EXCEPT ![c] = End(c, "failed")]
            /\ UNCHANGED <<advancing, entry, life, launched, broker, proc, past>>
  PROVE  TransportInv'
<1>1. /\ call[c] \in Calls /\ call[c].op # "interrupt" /\ call[c].on =< launched /\ ops' \in 0..MaxOps
      /\ past \in BOOLEAN /\ advancing \in BOOLEAN /\ unhandled' \in BOOLEAN
      /\ call \in [Callers -> Calls]
  BY DEF TransportInv, TypeOK, CallInv, Interrupting
<1>2. CASE /\ advancing' = TRUE /\ call' = [call EXCEPT ![c].pc = "advance"]
           /\ UNCHANGED <<entry, life, launched, broker, proc, past>>
  <2> DEFINE s == [call[c] EXCEPT !.pc = "advance"]
  <2>1. s \in Calls /\ s.op = call[c].op /\ s.on = call[c].on /\ s.pc = "advance"
    BY <1>1 DEF Calls, Pcs
  <2>2. call' = [call EXCEPT ![c] = s]
    BY <1>1, <1>2
  <2> HIDE DEF s
  <2>3. Plain(s)
    BY <1>1, <2>1 DEF Plain, Early, Ending
  <2> QED BY <1>1, <1>2, <2>1, <2>2, <2>3, WaiterKeeps DEF slotState
<1>3. CASE entry = 0 /\ Launch(c, FALSE, [call[c] EXCEPT !.pc = "prompt", !.stage = "prompt"])
           /\ UNCHANGED advancing
  <2> DEFINE s == [call[c] EXCEPT !.pc = "prompt", !.stage = "prompt"]
  <2>1. s \in Calls /\ s.op # "interrupt" /\ s.pc = "prompt"
    BY <1>1 DEF Calls, Pcs
  <2>2. Launch(c, FALSE, s)
    BY <1>3
  <2> HIDE DEF s
  <2> QED BY <1>1, <1>3, <2>1, <2>2, LaunchStep
<1>4. CASE /\ call' = [call EXCEPT ![c] = End(c, "failed")]
           /\ UNCHANGED <<advancing, entry, life, launched, broker, proc, past>>
  BY <1>1, <1>4, EndsStep DEF slotState
<1> QED BY <1>2, <1>3, <1>4

LEMMA PreparedStep == ASSUME TransportInv, NEW c \in Callers, Prepared(c) PROVE TransportInv'
<1>1. \/ /\ advancing' = TRUE /\ call' = [call EXCEPT ![c].pc = "advance"]
         /\ UNCHANGED <<entry, life, launched, broker, proc, past>>
      \/ /\ entry = 0 /\ Launch(c, FALSE, [call[c] EXCEPT !.pc = "prompt", !.stage = "prompt"])
         /\ UNCHANGED advancing
      \/ /\ call' = [call EXCEPT ![c] = End(c, "failed")]
         /\ UNCHANGED <<advancing, entry, life, launched, broker, proc, past>>
  BY Zenon DEF Prepared
<1>2. call[c].pc = "prepare" /\ Settled /\ UNCHANGED <<kind, told, terminal, pipe, unhandled, ops>>
  BY DEF Prepared
<1> QED BY <1>1, <1>2, SettledFacts, StartsOn

LEMMA AdvancedStep == ASSUME TransportInv, NEW c \in Callers, Advanced(c) PROVE TransportInv'
<1>1. \/ /\ advancing' = TRUE /\ call' = [call EXCEPT ![c].pc = "advance"]
         /\ UNCHANGED <<entry, life, launched, broker, proc, past>>
      \/ /\ entry = 0 /\ Launch(c, FALSE, [call[c] EXCEPT !.pc = "prompt", !.stage = "prompt"])
         /\ UNCHANGED advancing
      \/ /\ call' = [call EXCEPT ![c] = End(c, "failed")]
         /\ UNCHANGED <<advancing, entry, life, launched, broker, proc, past>>
  BY Zenon DEF Advanced
<1>2. call[c].pc = "advanced" /\ UNCHANGED <<kind, told, terminal, pipe, unhandled, ops>>
  BY DEF Advanced
<1>3. \A d \in Callers : call[d].pc \in Ending => life[call[d].on] # "ended"
  BY <1>2 DEF TransportInv, CallInv
<1> QED BY <1>1, <1>2, <1>3, StartsOn

\* The advance ends for every start that waits for it, and no other caller is ending.
LEMMA AdvanceStep == ASSUME TransportInv, AdvanceEnds PROVE TransportInv'
<1>1. PICK ok \in BOOLEAN :
        /\ past' = (past \/ ok)
        /\ call' = [c \in Callers |-> IF call[c].pc = "advance"
                                      THEN [call[c] EXCEPT !.pc = "advanced", !.floored = ok]
                                      ELSE call[c]]
  BY DEF AdvanceEnds
<1>2. /\ Settled /\ advancing' = FALSE /\ past' \in BOOLEAN
      /\ UNCHANGED <<kind, slotState, launched, terminal, broker, proc, pipe, unhandled, ops>>
  BY <1>1 DEF AdvanceEnds
<1>3. ASSUME NEW c \in Callers
      PROVE  /\ call'[c] \in Calls /\ call'[c].op = call[c].op /\ call'[c].on = call[c].on
             /\ call'[c].stage = call[c].stage
             /\ call'[c].pc = call[c].pc \/ (call[c].pc = "advance" /\ call'[c].pc = "advanced")
  <2>1. call[c] \in Calls
    BY DEF TransportInv, TypeOK
  <2>2. CASE call[c].pc = "advance"
    <3>1. call'[c] = [call[c] EXCEPT !.pc = "advanced", !.floored = ok]
      BY <1>1, <2>2
    <3> QED BY <2>1, <2>2, <3>1 DEF Calls, Pcs
  <2>3. CASE call[c].pc # "advance"
    <3>1. call'[c] = call[c]
      BY <1>1, <2>3
    <3> QED BY <2>1, <3>1
  <2> QED BY <2>2, <2>3
<1>4. call' \in [Callers -> Calls]
  BY <1>1, <1>3
<1>5. TypeOK'
  BY <1>2, <1>4 DEF TransportInv, TypeOK, slotState
<1>6. LifeInv' /\ ProcInv'
  BY <1>2 DEF TransportInv, LifeInv, ProcInv, OnlyOthers, slotState
<1>7. CallInv'
  <2>1. ASSUME NEW c \in Callers
        PROVE  /\ call'[c].on =< launched
               /\ call'[c].pc \notin Early => call'[c].on # 0
               /\ call'[c].pc = "dumped" => entry \in {0, call'[c].on}
               /\ call'[c].op = "interrupt" => /\ call'[c].pc \in Interrupting
                                               /\ call'[c].stage \in {"ctrlC", "prompt", "probe"}
    BY <1>3 DEF TransportInv, CallInv, Early, Interrupting
  <2>2. \A c \in Callers : call'[c].pc \in Ending => life[call'[c].on] # "ended"
    BY <1>2, <1>3, SettledFacts DEF Ending
  <2> QED BY <1>2, <2>1, <2>2 DEF CallInv, slotState
<1>8. HeardInv'
  BY <1>2, <1>3, HeardKeeps DEF TransportInv, slotState
<1> QED BY <1>5, <1>6, <1>7, <1>8 DEF TransportInv

LEMMA WrapsStep == ASSUME TransportInv, Wraps PROVE TransportInv'
<1>1. /\ past' = FALSE /\ ops' = ops + 1 /\ ops < MaxOps
      /\ UNCHANGED <<kind, slotState, launched, terminal, broker, proc, pipe, call, advancing, unhandled>>
  BY DEF Wraps
<1>2. ops' \in 0..MaxOps
  BY <1>1, TransportAssumption DEF TransportInv, TypeOK
<1>3. TypeOK'
  BY <1>1, <1>2 DEF TransportInv, TypeOK, slotState
<1>4. LifeInv' /\ ProcInv' /\ CallInv'
  BY <1>1 DEF TransportInv, LifeInv, ProcInv, CallInv, OnlyOthers, slotState
<1>5. HeardInv'
  BY <1>1, HeardKeeps DEF TransportInv, slotState
<1> QED BY <1>3, <1>4, <1>5 DEF TransportInv

-----------------------------------------------------------------------------
(* What holds of every behaviour.                                          *)

LEMMA TransportStart == Init => TransportInv
<1> SUFFICES ASSUME Init PROVE TransportInv
  OBVIOUS
<1>1. TypeOK
  <2>1. /\ broker \in [Runtimes -> Brokers] /\ proc \in [Runtimes -> Processes]
        /\ call \in [Callers -> Calls] /\ \A i \in Runtimes : IsFiniteSet(proc[i].line)
    BY NothingFacts, FS_EmptySet DEF Init
  <2>2. pipe \in [Runtimes -> Seq(Tokens)]
    BY DEF Init
  <2>3. 0 \in 0..MaxLaunches /\ 0 \in 0..MaxOps
    BY TransportAssumption
  <2>4. /\ kind \in Kinds /\ entry = 0 /\ launched = 0 /\ ops = 0
        /\ past \in BOOLEAN /\ advancing \in BOOLEAN /\ unhandled \in BOOLEAN
    BY DEF Init
  <2>5. /\ life \in [Runtimes -> {"unborn", "live", "ended"}]
        /\ terminal \in [Runtimes -> {"none", "exit", "memory", "stdin", "error"}]
        /\ told \in [Runtimes -> BOOLEAN]
    BY DEF Init
  <2> QED BY <2>1, <2>2, <2>3, <2>4, <2>5 DEF TypeOK
<1>2. LifeInv
  BY TransportAssumption DEF Init, LifeInv, Runtimes
<1>3. ProcInv
  BY NothingFacts DEF Init, ProcInv, UpModes
<1>4. CallInv
  BY NothingFacts DEF Init, CallInv, Early, Ending
<1>5. HeardInv
  BY NothingFacts DEF Init, HeardInv, NoSilentEnd
<1> QED BY <1>1, <1>2, <1>3, <1>4, <1>5 DEF TransportInv

LEMMA TransportStep == TransportInv /\ [Next]_vars => TransportInv'
<1> SUFFICES ASSUME TransportInv, [Next]_vars PROVE TransportInv'
  OBVIOUS
<1>1. CASE UNCHANGED vars
  <2>1. TypeOK' /\ LifeInv' /\ ProcInv' /\ CallInv'
    BY <1>1 DEF vars, slotState, floorVars, TransportInv, TypeOK, LifeInv, ProcInv, OnlyOthers, CallInv
  <2>2. HeardInv'
    BY <1>1, HeardKeeps DEF vars, slotState, TransportInv
  <2> QED BY <2>1, <2>2 DEF TransportInv
<1>2. ASSUME NEW i \in 1..launched, ProcessRuns(i) \/ Events(i) PROVE TransportInv'
  BY <1>2, ProcessStep, EventStep
<1>3. ASSUME NEW c \in Callers, Start(c) \/ Restore(c) PROVE TransportInv'
  BY <1>3, StartStep, RestoreStep
<1>4. ASSUME NEW c \in Callers, Continues(c) PROVE TransportInv'
  BY <1>4, PreparedStep, AdvancedStep, SubscribeStep, WriteStep, GoesOnStep, FailsStep, GraceStep,
     ForcedStep, DumpStep, PollStep DEF Continues
<1>5. ASSUME NEW c \in Callers, NEW i \in 1..launched, Operations(c, i) PROVE TransportInv'
  BY <1>5, WriteStep, InterruptsNoneStep, InterruptStep, TerminateStep, SnapshotStep DEF Operations
<1>6. CASE AdvanceEnds \/ Wraps
  BY <1>6, AdvanceStep, WrapsStep
<1> QED BY <1>1, <1>2, <1>3, <1>4, <1>5, <1>6 DEF Next

\* The invariant the transport's proofs rest on holds throughout.
THEOREM TransportKeeps == Spec => []TransportInv
BY TransportStart, TransportStep, PTL DEF Spec

\* Every variable keeps its type, whatever callers, processes and events do.
THEOREM TypeCorrect == Spec => []TypeOK
<1>1. TransportInv => TypeOK
  BY DEF TransportInv
<1> QED BY <1>1, TransportKeeps, PTL

\* No runtime whose session listens ends in silence: the session was told, or an interrupt
\* answers, or answered, that it is to be recycled (process-transport.ts, notifyExit).
THEOREM NoEndIsSilent == Spec => []NoSilentEnd
<1>1. TransportInv => NoSilentEnd
  BY DEF TransportInv, HeardInv
<1> QED BY <1>1, TransportKeeps, PTL

\* An exit, or a kill for memory, is told only once all that the runtime itself wrote was read.
THEOREM OutputComesFirst == Spec => []ToldAfterOutput
<1>1. TransportInv => ToldAfterOutput
  BY DEF TransportInv, ProcInv, OnlyOthers, ToldAfterOutput
<1> QED BY <1>1, TransportKeeps, PTL

-----------------------------------------------------------------------------
(* What the transport promises: each step is one of RuntimeSlot's, or none *)
(* of its business.                                                        *)

LEMMA ForgetMaps ==
  ASSUME TransportInv, NEW c \in Callers, NEW i \in 1..launched, Forget(c, i), UNCHANGED <<life, told>>
  PROVE  Slot!Forget \/ UNCHANGED slotState
<1>1. i \in Runtimes /\ i # 0 /\ life[i] \in {"live", "ended"}
  BY TransportAssumption DEF TransportInv, TypeOK, LifeInv, Runtimes
<1>2. CASE life[i] = "live"
  BY <1>2 DEF Forget, slotState
<1>3. CASE life[i] # "live" /\ entry = i
  BY <1>1, <1>3 DEF Forget, Slot!Forget
<1>4. CASE life[i] # "live" /\ entry # i
  BY <1>1, <1>4 DEF Forget, slotState
<1> QED BY <1>2, <1>3, <1>4

LEMMA TerminatesMaps ==
  ASSUME TransportInv, NEW c \in Callers, NEW i \in 1..launched, NEW op, Terminates(c, i, op),
         UNCHANGED <<life, told>>
  PROVE  Slot!Forget \/ UNCHANGED slotState
<1>1. CASE life[i] = "live"
  BY <1>1 DEF Terminates, slotState
<1>2. CASE life[i] # "live"
  BY <1>2, ForgetMaps DEF Terminates
<1> QED BY <1>1, <1>2

LEMMA LaunchMaps ==
  ASSUME TransportInv, NEW c, NEW restoring, NEW then, Launch(c, restoring, then), entry = 0, told' = told
  PROVE  \E i \in Runtimes : Slot!Begin(i)
<1> DEFINE i == launched + 1
<1>1. i \in Runtimes /\ i > launched
  BY TransportAssumption DEF Launch, TransportInv, TypeOK, Runtimes
<1>2. life[i] = "unborn"
  BY <1>1 DEF TransportInv, LifeInv
<1>3. entry' = i /\ \E how \in {"live", "ended"} : life' = [life EXCEPT ![i] = how]
  BY DEF Launch
<1>4. Slot!Begin(i)
  BY <1>2, <1>3 DEF Slot!Begin
<1> QED BY <1>1, <1>4

\* An end is told of once, as what waits on the runtime is failed, and to those that listen.
LEMMA NotifyMaps ==
  ASSUME TransportInv, NEW i \in 1..launched, NEW why, Notify(i, why), UNCHANGED <<entry, life>>
  PROVE  (\E j \in Runtimes : Slot!Tell(j)) \/ UNCHANGED slotState
<1>1. i \in Runtimes /\ life[i] # "unborn" /\ told \in [Runtimes -> BOOLEAN]
      /\ (told[i] => terminal[i] # "none")
  BY TransportAssumption DEF TransportInv, TypeOK, LifeInv, Runtimes
<1>2. CASE terminal[i] # "none"
  BY <1>2 DEF Notify, slotState
<1>3. CASE terminal[i] = "none"
  <2>1. told' = [told EXCEPT ![i] = broker[i].subscribed /\ ~broker[i].interrupting]
    BY <1>3 DEF Notify
  <2>2. ~told[i]
    BY <1>1, <1>3
  <2>3. CASE broker[i].subscribed /\ ~broker[i].interrupting
    <3>1. told' = [told EXCEPT ![i] = TRUE]
      BY <2>1, <2>3
    <3> QED BY <1>1, <2>2, <3>1 DEF Slot!Tell
  <2>4. CASE ~(broker[i].subscribed /\ ~broker[i].interrupting)
    <3>1. told' = [told EXCEPT ![i] = FALSE]
      BY <2>1, <2>4
    <3>2. told' = told
      BY <1>1, <2>2, <3>1
    <3> QED BY <3>2 DEF slotState
  <2> QED BY <2>3, <2>4
<1> QED BY <1>2, <1>3

LEMMA EventMaps ==
  ASSUME TransportInv, NEW i \in 1..launched, Events(i)
  PROVE  (\E j \in Runtimes : Slot!EndOf(j) \/ Slot!Tell(j)) \/ UNCHANGED slotState
<1>1. i \in Runtimes
  BY TransportAssumption DEF TransportInv, TypeOK, Runtimes
<1>2. CASE Read(i)
  BY <1>2 DEF Read
<1>3. CASE Exit(i)
  BY <1>1, <1>3 DEF Exit, Slot!EndOf
<1>4. CASE Close(i) \/ Drain(i) \/ Freed(i) \/ StdinFails(i) \/ SpawnFails(i)
  <2>1. UNCHANGED <<entry, life>>
    BY <1>4 DEF Close, Drain, Freed, StdinFails, SpawnFails
  <2>2. told' = told \/ \E why \in {"exit", "memory", "stdin", "error"} : Notify(i, why)
    BY <1>4 DEF Close, Drain, Freed, StdinFails, SpawnFails, Ended
  <2>3. CASE told' = told
    BY <2>1, <2>3 DEF slotState
  <2>4. CASE \E why \in {"exit", "memory", "stdin", "error"} : Notify(i, why)
    <3>1. PICK why \in {"exit", "memory", "stdin", "error"} : Notify(i, why)
      BY <2>4
    <3> QED BY <2>1, <3>1, NotifyMaps
  <2> QED BY <2>2, <2>3, <2>4
<1> QED BY <1>2, <1>3, <1>4 DEF Events

LEMMA ContinueMaps ==
  ASSUME TransportInv, NEW c \in Callers, Continues(c)
  PROVE  Slot!SlotNext \/ UNCHANGED slotState
<1>1. CASE Subscribe(c) \/ Submit(c) \/ Drains(c) \/ GoesOn(c) \/ TimesOut(c)
  BY <1>1 DEF Subscribe, Submit, Drains, GoesOn, TimesOut
<1>2. CASE Prepared(c) \/ Advanced(c)
  <2>1. told' = told
    BY <1>2 DEF Prepared, Advanced
  <2>2. \/ entry = 0 /\ Launch(c, FALSE, [call[c] EXCEPT !.pc = "prompt", !.stage = "prompt"])
        \/ UNCHANGED <<entry, life>>
    BY <1>2, Zenon DEF Prepared, Advanced
  <2>3. CASE entry = 0 /\ Launch(c, FALSE, [call[c] EXCEPT !.pc = "prompt", !.stage = "prompt"])
    <3>1. \E i \in Runtimes : Slot!Begin(i)
      BY <2>1, <2>3, LaunchMaps
    <3> QED BY <3>1 DEF Slot!SlotNext, Runtimes, Slot!Runtimes
  <2> QED BY <2>1, <2>2, <2>3 DEF slotState
<1>3. CASE Fails(c)
  <2> DEFINE i == call[c].on
  <2>1. UNCHANGED <<life, told>> /\ (Terminates(c, i, "failing") \/ UNCHANGED entry)
    BY <1>3 DEF Fails
  <2>2. i \in 1..launched
    <3>1. call[c].pc = "fail"
      BY <1>3 DEF Fails
    <3>2. call[c] \in Calls /\ launched \in 0..MaxLaunches /\ i # 0 /\ i =< launched
      BY <3>1 DEF TransportInv, TypeOK, CallInv, Early
    <3> QED BY <3>2, TransportAssumption DEF Calls
  <2> QED BY <2>1, <2>2, TerminatesMaps DEF slotState, Slot!SlotNext
<1>4. CASE GraceEnds(c) \/ ForcedEnds(c)
  <2> DEFINE i == call[c].on
  <2>1. UNCHANGED <<life, told>> /\ (Forget(c, i) \/ UNCHANGED entry)
    BY <1>4 DEF GraceEnds, ForcedEnds
  <2>2. i \in 1..launched
    <3>1. call[c].pc \in Ending
      BY <1>4 DEF GraceEnds, ForcedEnds, Ending
    <3> QED BY <3>1, EndingOn
  <2> QED BY <2>1, <2>2, ForgetMaps DEF slotState, Slot!SlotNext
<1>5. CASE DumpEnds(c)
  <2> DEFINE i == call[c].on
  <2>1. call[c].pc = "dumped" /\ UNCHANGED <<life, told>>
        /\ (entry' = entry \/ (entry' = 0 /\ life[i] # "live"))
    BY <1>5 DEF DumpEnds
  <2>2. i \in Runtimes /\ i # 0 /\ life[i] \in {"live", "ended"} /\ entry \in {0, i}
    <3>1. i \in 1..launched /\ i \in Runtimes
      BY <2>1, EndingOn DEF Ending
    <3> QED BY <2>1, <3>1, TransportAssumption DEF TransportInv, TypeOK, LifeInv, CallInv
  <2>3. CASE entry' = entry
    BY <2>1, <2>3 DEF slotState
  <2>4. CASE entry' = 0 /\ life[i] # "live" /\ entry = i
    BY <2>1, <2>2, <2>4 DEF Slot!Forget, Slot!SlotNext
  <2> QED BY <2>1, <2>2, <2>3, <2>4
<1>6. CASE RestorePolls(c)
  <2> DEFINE i == call[c].on
  <2>1. call[c].pc = "restoring" /\ UNCHANGED <<life, told>>
        /\ (Terminates(c, i, "failing") \/ UNCHANGED entry)
    BY <1>6 DEF RestorePolls
  <2>2. i \in 1..launched
    BY <2>1, EndingOn
  <2> QED BY <2>1, <2>2, TerminatesMaps DEF slotState, Slot!SlotNext
<1> QED BY <1>1, <1>2, <1>3, <1>4, <1>5, <1>6 DEF Continues

LEMMA TransportMaps == TransportInv /\ [Next]_vars => [Slot!SlotNext]_slotState
<1> SUFFICES ASSUME TransportInv, [Next]_vars PROVE Slot!SlotNext \/ UNCHANGED slotState
  OBVIOUS
<1>1. CASE UNCHANGED vars
  BY <1>1 DEF vars, slotState
<1>2. ASSUME NEW i \in 1..launched, ProcessRuns(i) PROVE UNCHANGED slotState
  BY <1>2 DEF ProcessRuns, Prompts, Restored, Reads, CellDone, CellPrints, Forks, HolderWrites, HolderEnds, Dies
<1>3. ASSUME NEW i \in 1..launched, Events(i) PROVE Slot!SlotNext \/ UNCHANGED slotState
  BY <1>3, EventMaps DEF Slot!SlotNext, Runtimes, Slot!Runtimes
<1>4. ASSUME NEW c \in Callers, Start(c) PROVE UNCHANGED slotState
  BY <1>4 DEF Start
<1>5. ASSUME NEW c \in Callers, Restore(c) PROVE Slot!SlotNext
  <2>1. \E i \in Runtimes : Slot!Begin(i)
    BY <1>5, LaunchMaps DEF Restore
  <2> QED BY <2>1 DEF Slot!SlotNext, Runtimes, Slot!Runtimes
<1>6. ASSUME NEW c \in Callers, Continues(c) PROVE Slot!SlotNext \/ UNCHANGED slotState
  BY <1>6, ContinueMaps
<1>7. ASSUME NEW c \in Callers, NEW i \in 1..launched, Operations(c, i)
      PROVE  Slot!SlotNext \/ UNCHANGED slotState
  <2>1. CASE Terminate(c, i)
    <3>1. Terminates(c, i, "terminate") /\ UNCHANGED <<life, told>>
      BY <2>1 DEF Terminate
    <3> QED BY <3>1, TerminatesMaps DEF Slot!SlotNext
  <2>2. CASE ~Terminate(c, i)
    BY <1>7, <2>2 DEF Operations, WriteCell, CollectGarbage, InterruptsNone, Interrupt, Snapshot
  <2> QED BY <2>1, <2>2
<1>8. CASE AdvanceEnds \/ Wraps
  BY <1>8 DEF AdvanceEnds, Wraps
<1> QED BY <1>1, <1>2, <1>3, <1>4, <1>5, <1>6, <1>7, <1>8 DEF Next

\* The transport implements RuntimeSlot: a session's runtimes come one after the other, each
\* forgotten only once it ended and told of at most once.
THEOREM ImplementsSlot == Spec => SlotSpec
<1>1. Init => Slot!SlotInit
  BY DEF Init, Slot!SlotInit, Runtimes, Slot!Runtimes
<1>2. TransportInv /\ [Next]_vars => [Slot!SlotNext]_(Slot!slotVars)
  BY TransportMaps DEF slotState, Slot!slotVars
<1> QED BY <1>1, <1>2, TransportKeeps, PTL DEF Spec, SlotSpec, Slot!SlotSpec

\* A runtime that is live is the one the transport holds: none is out of terminate's reach.
THEOREM OneIsHeld == Spec => []Slot!OneRuntime
<1>1. TransportInv => Slot!OneRuntime
  BY DEF TransportInv, LifeInv, Slot!OneRuntime, Runtimes, Slot!Runtimes
<1> QED BY <1>1, TransportKeeps, PTL

-----------------------------------------------------------------------------
(* What an interrupt still has to see end.                                 *)

\* The cells a line stands for, and those of a line that is not yet submitted.
Weight(item) == IF item.what = "cell" THEN 1 ELSE IF item.what = "merged" THEN item.nonce ELSE 0
CellsIn(line) == Cardinality({item \in line : item.what = "cell"})
Running(p) == IF p.mode = "busy" THEN 1 ELSE 0

\* Of a process, f[k] cells run or are in the first k lines of its inbox.
Ahead(f, p) ==
    /\ f \in [0..Len(p.inbox) -> Nat]
    /\ f[0] = Running(p)
    /\ \A k \in 1..Len(p.inbox) : f[k] = f[k - 1] + Weight(p.inbox[k])
    /\ \A j, k \in 0..Len(p.inbox) : j =< k => f[j] =< f[k]
    /\ p.cells = f[Len(p.inbox)] + CellsIn(p.line)

\* What an interrupt s waits for is ahead of its probe, wherever that is.
Behind(s, p, q, f) ==
    /\ p.mode \in UpModes => s.owe =< p.cells
    /\ \A k \in 1..Len(p.inbox) : p.inbox[k] = Item("probe", s.nonce) => s.owe =< f[k - 1]
    /\ (\E k \in DOMAIN q : q[k] = Item("ack", s.nonce)) => s.owe = 0
    /\ s.probe = "answered" => s.owe = 0

\* Nothing that was written or answered has a number that is still to be given.
Numbered(p, q, m) ==
    /\ \A item \in p.line : item.what \in {"cell", "probe"} /\ item.nonce =< m
    /\ \A k \in DOMAIN p.inbox : p.inbox[k].what = "probe" => p.inbox[k].nonce =< m
    /\ \A k \in DOMAIN q : q[k].what = "ack" => q[k].nonce =< m

Interrupts(s, i) == s.op = "interrupt" /\ s.on = i
AllBehind(i, p, q, calls, f) == \A c \in Callers : Interrupts(calls[c], i) => Behind(calls[c], p, q, f)
SoftAt(i, p, q, calls, m) ==
    Numbered(p, q, m) /\ \E f : Ahead(f, p) /\ AllBehind(i, p, q, calls, f)

SoftCalls(calls, m) == \A c \in Callers :
    calls[c].nonce =< m /\ calls[c].owe >= 0 /\ (calls[c].answer = "soft" => calls[c].owe = 0)

SoftInv == SoftCalls(call, ops) /\ \A i \in Runtimes : SoftAt(i, proc[i], pipe[i], call, ops)

\* A caller's step: an interrupt under way goes on, and waits for no more than it did.
Owes(s, t) ==
    t.op = "interrupt" => /\ s.op = "interrupt" /\ t.on = s.on /\ t.nonce = s.nonce /\ t.owe =< s.owe
                          /\ t.probe = "answered" => s.probe = "answered" \/ t.owe = 0
\* Or one begins, with a number of its own.
Asks(t, p, m, n) == m < n /\ t.nonce = n /\ t.owe =< p.cells /\ t.probe = "none"

OldAcks(q, r) == \A k \in DOMAIN r : r[k].what = "ack" => \E j \in DOMAIN q : q[j] = r[k]

LEMMA SeqFacts ==
  ASSUME NEW p \in Processes
  PROVE  /\ p.inbox \in Seq(Items) /\ Len(p.inbox) \in Nat /\ DOMAIN p.inbox = 1..Len(p.inbox)
         /\ \A k \in 1..Len(p.inbox) : p.inbox[k] \in Items /\ p.inbox[k].nonce \in Nat
         /\ p.cells \in Int /\ p.line \subseteq Items
<1>1. p.inbox \in Seq(Items) /\ p.cells \in Int /\ p.line \subseteq Items
  BY DEF Processes
<1>2. \A item \in Items : item.nonce \in Nat
  BY DEF Items
<1> HIDE DEF Items
<1> QED BY <1>1, <1>2

LEMMA ItemIs ==
  ASSUME NEW w, NEW n
  PROVE  Item(w, n).what = w /\ Item(w, n).nonce = n
BY DEF Item

\* A call that asks finds nothing of its number.
LEMMA AsksBehind ==
  ASSUME NEW p \in Processes, NEW q \in Seq(Tokens), NEW m \in Nat, NEW n \in Nat,
         Numbered(p, q, m), NEW t, Asks(t, p, m, n), NEW f
  PROVE  Behind(t, p, q, f)
<1>1. t.owe =< p.cells /\ t.probe = "none" /\ t.nonce = n /\ m < n
  BY DEF Asks
<1>2. ASSUME NEW k \in 1..Len(p.inbox), p.inbox[k] = Item("probe", n) PROVE FALSE
  <2>1. p.inbox[k].what = "probe" /\ p.inbox[k].nonce = n
    BY <1>2, ItemIs
  <2>2. n =< m
    BY <2>1, SeqFacts DEF Numbered
  <2> QED BY <1>1, <2>2
<1>3. ASSUME NEW k \in DOMAIN q, q[k] = Item("ack", n) PROVE FALSE
  <2>1. q[k].what = "ack" /\ q[k].nonce = n
    BY <1>3, ItemIs
  <2>2. n =< m
    BY <2>1 DEF Numbered
  <2> QED BY <1>1, <2>2
<1> QED BY <1>1, <1>2, <1>3 DEF Behind

LEMMA TokenFacts ==
  ASSUME NEW q \in Seq(Tokens), NEW k \in DOMAIN q
  PROVE  q[k].nonce \in Nat
<1>1. \A tok \in Tokens : tok.nonce \in Nat
  BY DEF Tokens
<1> HIDE DEF Tokens
<1> QED BY <1>1

LEMMA OweFacts ==
  ASSUME NEW s \in Calls
  PROVE  s.owe \in Int /\ s.nonce \in Nat
BY DEF Calls

\* Numbers given since, and answers since read, change nothing of what was numbered.
LEMMA NumberedStill ==
  ASSUME NEW p \in Processes, NEW q \in Seq(Tokens), NEW m \in Nat, Numbered(p, q, m),
         NEW r \in Processes, NEW s \in Seq(Tokens), NEW n \in Nat, m =< n,
         r.line \subseteq p.line, \A k \in DOMAIN r.inbox : \E j \in DOMAIN p.inbox : r.inbox[k] = p.inbox[j],
         OldAcks(q, s)
  PROVE  Numbered(r, s, n)
<1>1. ASSUME NEW item \in r.line PROVE item.what \in {"cell", "probe"} /\ item.nonce =< n
  <2>1. item \in p.line /\ item.nonce \in Nat
    BY DEF Processes, Items
  <2> QED BY <2>1 DEF Numbered
<1>2. ASSUME NEW k \in DOMAIN r.inbox, r.inbox[k].what = "probe" PROVE r.inbox[k].nonce =< n
  <2>1. PICK j \in DOMAIN p.inbox : r.inbox[k] = p.inbox[j]
    OBVIOUS
  <2>2. p.inbox[j].nonce \in Nat
    BY SeqFacts
  <2>3. p.inbox[j].nonce =< m
    BY <1>2, <2>1 DEF Numbered
  <2> QED BY <2>1, <2>2, <2>3
<1>3. ASSUME NEW k \in DOMAIN s, s[k].what = "ack" PROVE s[k].nonce =< n
  <2>1. PICK j \in DOMAIN q : q[j] = s[k]
    BY <1>3 DEF OldAcks
  <2>2. q[j].nonce \in Nat
    BY TokenFacts
  <2>3. q[j].nonce =< m
    BY <1>3, <2>1 DEF Numbered
  <2> QED BY <2>1, <2>2, <2>3
<1> QED BY <1>1, <1>2, <1>3 DEF Numbered

LEMMA AheadFacts ==
  ASSUME NEW p \in Processes, NEW f, Ahead(f, p)
  PROVE  /\ \A k \in 0..Len(p.inbox) : f[k] \in Nat /\ f[k] >= Running(p) /\ f[Len(p.inbox)] >= f[k]
         /\ \A k \in 1..Len(p.inbox) : k - 1 \in 0..Len(p.inbox) /\ f[k - 1] \in Nat
<1> DEFINE n == Len(p.inbox)
<1>1. n \in Nat /\ f \in [0..n -> Nat] /\ f[0] = Running(p)
  BY SeqFacts DEF Ahead
<1>2. \A j, k \in 0..n : j =< k => f[j] =< f[k]
  BY DEF Ahead
<1> HIDE DEF n
<1>3. \A k \in 0..n : 0 \in 0..n /\ n \in 0..n /\ 0 =< k /\ k =< n
  BY <1>1
<1>4. \A k \in 0..n : f[k] \in Nat /\ f[k] >= f[0] /\ f[n] >= f[k]
  BY <1>1, <1>2, <1>3
<1>5. \A k \in 1..n : k - 1 \in 0..n
  BY <1>1
<1> QED BY <1>1, <1>4, <1>5 DEF n

\* An interrupt that goes on, as its queue is read on.
LEMMA OwesKeeps ==
  ASSUME NEW s \in Calls, NEW t \in Calls, Owes(s, t), t.op = "interrupt", t.owe >= 0,
         NEW p, NEW q, NEW f, Behind(s, p, q, f), NEW r, OldAcks(q, r)
  PROVE  /\ s.owe \in Int /\ t.owe \in Int /\ t.owe =< s.owe /\ t.nonce = s.nonce
         /\ (\E k \in DOMAIN r : r[k] = Item("ack", t.nonce)) => t.owe = 0
         /\ t.probe = "answered" => t.owe = 0
<1>1. s.owe \in Int /\ t.owe \in Int
  BY OweFacts
<1>2. t.owe =< s.owe /\ t.nonce = s.nonce /\ (t.probe = "answered" => s.probe = "answered" \/ t.owe = 0)
  BY DEF Owes
<1>3. s.owe = 0 => t.owe = 0
  BY <1>1, <1>2
<1>4. s.probe = "answered" => s.owe = 0
  BY DEF Behind
<1>5. ASSUME NEW k \in DOMAIN r, r[k] = Item("ack", t.nonce) PROVE t.owe = 0
  <2>1. \E j \in DOMAIN q : q[j] = Item("ack", s.nonce)
    BY <1>2, <1>5, ItemIs DEF OldAcks
  <2>2. s.owe = 0
    BY <2>1 DEF Behind
  <2> QED BY <1>3, <2>2
<1> QED BY <1>1, <1>2, <1>3, <1>4, <1>5

\* A step that leaves the queue as it is.
LEMMA SoftStill ==
  ASSUME NEW i, NEW p \in Processes, NEW q \in Seq(Tokens), NEW calls, NEW m \in Nat,
         SoftAt(i, p, q, calls, m), SoftCalls(calls, m),
         NEW r \in Processes, NEW s \in Seq(Tokens), NEW news, NEW n \in Nat, m =< n, SoftCalls(news, n),
         r.line = p.line, r.inbox = p.inbox, r.cells = p.cells, r.mode = "busy" <=> p.mode = "busy",
         OldAcks(q, s), \A c \in Callers : calls[c] \in Calls /\ news[c] \in Calls,
         \A c \in Callers : Interrupts(news[c], i) =>
            \/ Owes(calls[c], news[c]) /\ (r.mode \in UpModes => p.mode \in UpModes)
            \/ Asks(news[c], r, m, n)
  PROVE  SoftAt(i, r, s, news, n)
<1>1. Numbered(p, q, m)
  BY DEF SoftAt
<1>2. Numbered(r, s, n) /\ Numbered(r, s, m)
  BY <1>1, NumberedStill
<1>3. PICK f : Ahead(f, p) /\ AllBehind(i, p, q, calls, f)
  BY DEF SoftAt
<1>4. Ahead(f, r)
  BY <1>3 DEF Ahead, Running
<1>5. ASSUME NEW c \in Callers, Interrupts(news[c], i)
      PROVE  Behind(news[c], r, s, f)
  <2>1. CASE Owes(calls[c], news[c]) /\ (r.mode \in UpModes => p.mode \in UpModes)
    <3>1. Behind(calls[c], p, q, f) /\ news[c].op = "interrupt" /\ news[c].owe >= 0
      BY <1>3, <1>5, <2>1 DEF AllBehind, Interrupts, Owes, SoftCalls
    <3>2. /\ calls[c].owe \in Int /\ news[c].owe \in Int /\ news[c].owe =< calls[c].owe
          /\ news[c].nonce = calls[c].nonce
          /\ (\E k \in DOMAIN s : s[k] = Item("ack", news[c].nonce)) => news[c].owe = 0
          /\ news[c].probe = "answered" => news[c].owe = 0
      BY <2>1, <3>1, OwesKeeps
    <3>3. r.mode \in UpModes => news[c].owe =< r.cells
      BY <2>1, <3>1, <3>2, SeqFacts DEF Behind
    <3>4. ASSUME NEW k \in 1..Len(r.inbox), r.inbox[k] = Item("probe", news[c].nonce)
          PROVE  news[c].owe =< f[k - 1]
      <4>1. calls[c].owe =< f[k - 1]
        BY <3>1, <3>2, <3>4 DEF Behind
      <4>2. f[k - 1] \in Nat
        BY <1>4, <3>4, AheadFacts
      <4> QED BY <3>2, <4>1, <4>2
    <3> QED BY <3>2, <3>3, <3>4 DEF Behind
  <2>2. CASE Asks(news[c], r, m, n)
    BY <1>2, <2>2, AsksBehind
  <2> QED BY <1>5, <2>1, <2>2
<1> QED BY <1>2, <1>4, <1>5 DEF SoftAt, AllBehind

\* A runtime that is gone has nothing more to run.
LEMMA SoftOver ==
  ASSUME NEW i, NEW p \in Processes, NEW q \in Seq(Tokens), NEW calls, NEW m \in Nat,
         SoftAt(i, p, q, calls, m), SoftCalls(calls, m),
         NEW r \in Processes, NEW s \in Seq(Tokens), NEW news, NEW n \in Nat, m =< n, SoftCalls(news, n),
         r.line = {}, r.inbox = <<>>, r.cells = 0, r.mode \notin UpModes,
         OldAcks(q, s), \A c \in Callers : calls[c] \in Calls /\ news[c] \in Calls,
         \A c \in Callers : Interrupts(news[c], i) => Owes(calls[c], news[c]) \/ Asks(news[c], r, m, n)
  PROVE  SoftAt(i, r, s, news, n)
<1>1. Numbered(p, q, m)
  BY DEF SoftAt
<1>2. Numbered(r, s, n) /\ Numbered(r, s, m)
  BY <1>1, NumberedStill
<1>3. PICK f : Ahead(f, p) /\ AllBehind(i, p, q, calls, f)
  BY DEF SoftAt
<1> DEFINE g == [k \in 0..0 |-> 0]
<1>4. Ahead(g, r)
  <2>1. CellsIn(r.line) = 0
    <3>1. {item \in r.line : item.what = "cell"} = {}
      OBVIOUS
    <3> QED BY <3>1, FS_EmptySet DEF CellsIn
  <2>2. Running(r) = 0 /\ Len(r.inbox) = 0
    BY DEF Running, UpModes
  <2>3. 0..0 = {0} /\ 1..0 = {}
    OBVIOUS
  <2> QED BY <2>1, <2>2, <2>3 DEF Ahead
<1>5. ASSUME NEW c \in Callers, Interrupts(news[c], i)
      PROVE  Behind(news[c], r, s, g)
  <2>1. CASE Owes(calls[c], news[c])
    <3>1. Behind(calls[c], p, q, f) /\ news[c].op = "interrupt" /\ news[c].owe >= 0
      BY <1>3, <1>5, <2>1 DEF AllBehind, Interrupts, Owes, SoftCalls
    <3>2. /\ (\E k \in DOMAIN s : s[k] = Item("ack", news[c].nonce)) => news[c].owe = 0
          /\ news[c].probe = "answered" => news[c].owe = 0
      BY <2>1, <3>1, OwesKeeps
    <3>3. \A k \in 1..Len(r.inbox) : FALSE
      OBVIOUS
    <3> QED BY <3>2, <3>3 DEF Behind
  <2>2. CASE Asks(news[c], r, m, n)
    BY <1>2, <2>2, AsksBehind
  <2> QED BY <1>5, <2>1, <2>2
<1> HIDE DEF g
<1> QED BY <1>2, <1>4, <1>5 DEF SoftAt, AllBehind

LEMMA CellsFact ==
  ASSUME NEW line, IsFiniteSet(line)
  PROVE  CellsIn(line) \in Nat
BY FS_Subset, FS_CardinalityType DEF CellsIn

LEMMA WeightFacts ==
  ASSUME NEW p \in Processes
  PROVE  \A k \in 1..Len(p.inbox) : Weight(p.inbox[k]) \in Nat
<1>1. \A item \in Items : Weight(item) \in Nat
  BY DEF Weight, Items
<1> QED BY <1>1, SeqFacts

\* What d cells that ended leave of what an interrupt waits for.
Less(s, t, d) == Owes(s, t) /\ t.owe = IF s.owe > d THEN s.owe - d ELSE 0

\* The cell that runs ends, or is interrupted.
LEMMA SoftDone ==
  ASSUME NEW i, NEW p \in Processes, NEW q \in Seq(Tokens), NEW calls, NEW m \in Nat,
         SoftAt(i, p, q, calls, m), SoftCalls(calls, m), p.mode = "busy", IsFiniteSet(p.line),
         NEW r \in Processes, NEW s \in Seq(Tokens), NEW news, NEW n \in Nat, m =< n, SoftCalls(news, n),
         r.line = p.line, r.inbox = p.inbox, r.cells = p.cells - 1, r.mode = "idle",
         OldAcks(q, s), \A c \in Callers : calls[c] \in Calls /\ news[c] \in Calls,
         \A c \in Callers : Interrupts(news[c], i) =>
            Less(calls[c], news[c], 1) \/ Asks(news[c], r, m, n)
  PROVE  SoftAt(i, r, s, news, n)
<1>1. Numbered(p, q, m)
  BY DEF SoftAt
<1>2. Numbered(r, s, n) /\ Numbered(r, s, m)
  BY <1>1, NumberedStill
<1>3. PICK f : Ahead(f, p) /\ AllBehind(i, p, q, calls, f)
  BY DEF SoftAt
<1> DEFINE l == Len(p.inbox)
           g == [k \in 0..l |-> f[k] - 1]
<1>4. /\ l \in Nat /\ Len(r.inbox) = l /\ Running(p) = 1 /\ Running(r) = 0
      /\ \A k \in 0..l : f[k] \in Nat /\ f[k] >= 1 /\ g[k] = f[k] - 1 /\ g[k] \in Nat
      /\ \A k \in 1..l : k - 1 \in 0..l /\ k \in 0..l
      /\ 0 \in 0..l /\ l \in 0..l
  <2>1. l \in Nat /\ Running(p) = 1 /\ Running(r) = 0
    BY SeqFacts DEF Running
  <2>2. \A k \in 0..l : f[k] \in Nat /\ f[k] >= 1
    BY <1>3, <2>1, AheadFacts
  <2> HIDE DEF l
  <2>3. \A k \in 0..l : g[k] = f[k] - 1 /\ g[k] \in Nat
    BY <2>2
  <2>4. \A k \in 1..l : k - 1 \in 0..l /\ k \in 0..l
    BY <2>1
  <2>5. 0 \in 0..l /\ l \in 0..l
    BY <2>1
  <2> QED BY <2>1, <2>2, <2>3, <2>4, <2>5 DEF l
<1>5. Ahead(g, r)
  <2>1. /\ f[0] = 1
        /\ \A k \in 1..l : f[k] = f[k - 1] + Weight(p.inbox[k])
        /\ \A j, k \in 0..l : j =< k => f[j] =< f[k]
        /\ p.cells = f[l] + CellsIn(p.line)
    BY <1>3, <1>4 DEF Ahead
  <2> HIDE DEF l
  <2>2. g \in [0..l -> Nat] /\ g[0] = 0
    BY <1>4, <2>1
  <2>3. ASSUME NEW k \in 1..l PROVE g[k] = g[k - 1] + Weight(p.inbox[k])
    <3>1. Weight(p.inbox[k]) \in Nat
      BY WeightFacts DEF l
    <3>2. f[k] = f[k - 1] + Weight(p.inbox[k])
      BY <2>1
    <3>3. g[k] = f[k] - 1 /\ g[k - 1] = f[k - 1] - 1 /\ f[k] \in Nat /\ f[k - 1] \in Nat
      BY <1>4
    <3> HIDE DEF g
    <3> QED BY <3>1, <3>2, <3>3
  <2>4. \A j, k \in 0..l : j =< k => g[j] =< g[k]
    BY <1>4, <2>1, SMTT(20)
  <2>5. r.cells = g[l] + CellsIn(r.line)
    <3>1. CellsIn(p.line) \in Nat
      BY CellsFact
    <3> QED BY <1>4, <2>1, <3>1
  <2> QED BY <1>4, <2>2, <2>3, <2>4, <2>5 DEF Ahead
<1> HIDE DEF g
<1>6. ASSUME NEW c \in Callers, Interrupts(news[c], i)
      PROVE  Behind(news[c], r, s, g)
  <2>1. CASE Less(calls[c], news[c], 1)
    <3>1. /\ Behind(calls[c], p, q, f) /\ news[c].op = "interrupt" /\ news[c].owe >= 0
          /\ Owes(calls[c], news[c])
      BY <1>3, <1>6, <2>1 DEF AllBehind, Interrupts, Owes, SoftCalls, Less
    <3>2. /\ calls[c].owe \in Int /\ news[c].owe \in Int /\ news[c].nonce = calls[c].nonce
          /\ (\E k \in DOMAIN s : s[k] = Item("ack", news[c].nonce)) => news[c].owe = 0
          /\ news[c].probe = "answered" => news[c].owe = 0
      BY <3>1, OwesKeeps
    <3>3. news[c].owe = IF calls[c].owe > 1 THEN calls[c].owe - 1 ELSE 0
      BY <2>1 DEF Less
    <3>4. news[c].owe =< r.cells
      <4>1. calls[c].owe =< p.cells
        BY <3>1 DEF Behind, UpModes
      <4>2. p.cells >= 1
        <5>1. f[l] >= 1 /\ f[l] \in Nat /\ p.cells = f[l] + CellsIn(p.line)
          BY <1>3, <1>4 DEF Ahead
        <5>2. CellsIn(p.line) \in Nat
          BY CellsFact
        <5> QED BY <5>1, <5>2, SeqFacts
      <4> QED BY <3>2, <3>3, <4>1, <4>2, SeqFacts
    <3>5. ASSUME NEW k \in 1..Len(r.inbox), r.inbox[k] = Item("probe", news[c].nonce)
          PROVE  news[c].owe =< g[k - 1]
      <4>1. calls[c].owe =< f[k - 1]
        BY <3>1, <3>2, <3>5 DEF Behind
      <4>2. f[k - 1] \in Nat /\ f[k - 1] >= 1 /\ g[k - 1] = f[k - 1] - 1
        BY <1>4, <3>5
      <4> QED BY <3>2, <3>3, <4>1, <4>2
    <3> QED BY <3>2, <3>4, <3>5 DEF Behind
  <2>2. CASE Asks(news[c], r, m, n)
    BY <1>2, <2>2, AsksBehind
  <2> QED BY <1>6, <2>1, <2>2
<1> QED BY <1>2, <1>5, <1>6 DEF SoftAt, AllBehind

\* A line is read: a cell of it now runs, a probe is answered, or d cells will not run.
LEMMA SoftShift ==
  ASSUME NEW i, NEW p \in Processes, NEW q \in Seq(Tokens), NEW calls, NEW m \in Nat,
         SoftAt(i, p, q, calls, m), SoftCalls(calls, m), p.mode = "idle", p.inbox # <<>>,
         IsFiniteSet(p.line), NEW d \in Nat,
         NEW r \in Processes, NEW s \in Seq(Tokens), NEW news, SoftCalls(news, m),
         r.line = p.line, r.inbox = Tail(p.inbox), r.cells = p.cells - d, r.mode \in {"idle", "busy"},
         Weight(Head(p.inbox)) = d + Running(r),
         \A k \in DOMAIN s : s[k].what = "ack" =>
            \/ \E j \in DOMAIN q : q[j] = s[k]
            \/ s[k].nonce = Head(p.inbox).nonce /\ Head(p.inbox).what = "probe",
         \A c \in Callers : calls[c] \in Calls /\ news[c] \in Calls,
         \A c \in Callers : Interrupts(news[c], i) => Less(calls[c], news[c], d)
  PROVE  SoftAt(i, r, s, news, m)
<1> DEFINE l == Len(r.inbox)
           head == Head(p.inbox)
<1>1. /\ l \in Nat /\ Len(p.inbox) = l + 1 /\ head = p.inbox[1] /\ head \in Items
      /\ \A k \in 1..l : r.inbox[k] = p.inbox[k + 1]
      /\ DOMAIN r.inbox = 1..l /\ DOMAIN p.inbox = 1..(l + 1)
  <2>1. p.inbox \in Seq(Items) /\ r.inbox \in Seq(Items) /\ p.inbox # <<>> /\ r.inbox = Tail(p.inbox)
    BY DEF Processes
  <2> HIDE DEF Items
  <2> QED BY <2>1
<1>2. Numbered(p, q, m)
  BY DEF SoftAt
<1>3. Numbered(r, s, m)
  <2>1. Numbered(r, <<>>, m)
    <3>1. \A k \in DOMAIN r.inbox : k + 1 \in DOMAIN p.inbox /\ r.inbox[k] = p.inbox[k + 1]
      BY <1>1
    <3>2. <<>> \in Seq(Tokens) /\ OldAcks(q, <<>>)
      BY DEF OldAcks
    <3>3. m =< m /\ r.line \subseteq p.line
      OBVIOUS
    <3>4. \A k \in DOMAIN r.inbox : \E j \in DOMAIN p.inbox : r.inbox[k] = p.inbox[j]
      BY <3>1
    <3> QED BY <1>2, <3>2, <3>3, <3>4, NumberedStill
  <2>2. ASSUME NEW k \in DOMAIN s, s[k].what = "ack" PROVE s[k].nonce =< m
    <3>1. CASE \E j \in DOMAIN q : q[j] = s[k]
      BY <1>2, <2>2, <3>1 DEF Numbered
    <3>2. CASE s[k].nonce = head.nonce /\ head.what = "probe"
      <4>1. 1 \in DOMAIN p.inbox /\ p.inbox[1] = head
        BY <1>1
      <4> QED BY <1>2, <3>2, <4>1 DEF Numbered
    <3> QED BY <2>2, <3>1, <3>2
  <2> QED BY <2>1, <2>2 DEF Numbered
<1>4. PICK f : Ahead(f, p) /\ AllBehind(i, p, q, calls, f)
  BY DEF SoftAt
<1> DEFINE g == [k \in 0..l |-> f[k + 1] - d]
<1>5. f[0] = 0 /\ f[1] = d + Running(r) /\ Running(r) \in {0, 1}
  <2>1. f[0] = Running(p) /\ f[1] = f[1 - 1] + Weight(p.inbox[1])
    BY <1>1, <1>4 DEF Ahead
  <2>2. Running(p) = 0 /\ Running(r) \in {0, 1}
    BY DEF Running
  <2> QED BY <1>1, <2>1, <2>2
<1>6. /\ \A k \in 0..l : /\ k + 1 \in 0..(l + 1) /\ f[k + 1] \in Nat /\ f[k + 1] >= d + Running(r)
                         /\ g[k] = f[k + 1] - d /\ g[k] \in Nat
      /\ \A k \in 1..l : k - 1 \in 0..l /\ k \in 0..l /\ k + 1 \in 1..(l + 1)
      /\ \A k \in 1..l : g[k - 1] = f[k] - d /\ f[k] \in Nat
      /\ 0 \in 0..l /\ l \in 0..l /\ f[l + 1] \in Nat /\ f[l + 1] >= d
  <2>1. l \in Nat /\ Len(p.inbox) = l + 1
    BY <1>1
  <2> HIDE DEF l
  <2>2. ASSUME NEW k \in 0..l
        PROVE  k + 1 \in 0..(l + 1) /\ f[k + 1] \in Nat /\ f[k + 1] >= d + Running(r)
    <3>1. k + 1 \in 0..(l + 1) /\ 1 \in 0..(l + 1) /\ 1 =< k + 1
      BY <2>1
    <3>2. f[1] =< f[k + 1]
      BY <1>4, <2>1, <3>1 DEF Ahead
    <3>3. f[1] \in Nat /\ f[k + 1] \in Nat
      BY <1>4, <2>1, <3>1, AheadFacts
    <3> QED BY <1>5, <3>1, <3>2, <3>3
  <2>3. \A k \in 0..l : g[k] = f[k + 1] - d /\ g[k] \in Nat
    BY <1>5, <2>2
  <2>4. \A k \in 1..l : k - 1 \in 0..l /\ k \in 0..l /\ k + 1 \in 1..(l + 1)
    BY <2>1
  <2>5. 0 \in 0..l /\ l \in 0..l
    BY <2>1
  <2>6. ASSUME NEW k \in 1..l PROVE g[k - 1] = f[k] - d /\ f[k] \in Nat
    <3>1. PICK j \in 0..l : j = k - 1 /\ j + 1 = k
      BY <2>1, <2>4
    <3>2. g[j] = f[j + 1] - d /\ f[j + 1] \in Nat
      BY <2>2, <2>3
    <3> QED BY <3>1, <3>2
  <2>7. f[l + 1] \in Nat /\ f[l + 1] >= d
    BY <1>5, <2>2, <2>5
  <2> HIDE DEF g
  <2> QED BY <2>2, <2>3, <2>4, <2>5, <2>6, <2>7
<1>7. Ahead(g, r)
  <2>1. /\ \A k \in 1..(l + 1) : f[k] = f[k - 1] + Weight(p.inbox[k])
        /\ \A j, k \in 0..(l + 1) : j =< k => f[j] =< f[k]
        /\ p.cells = f[l + 1] + CellsIn(p.line)
    BY <1>1, <1>4 DEF Ahead
  <2>2. \A k \in 1..l : r.inbox[k] = p.inbox[k + 1] /\ Weight(r.inbox[k]) \in Nat
    BY <1>1, WeightFacts
  <2>3. l \in Nat
    BY <1>1
  <2> HIDE DEF l
  <2>4. g \in [0..l -> Nat] /\ g[0] = Running(r)
    <3>1. g[0] = f[0 + 1] - d
      BY <1>6
    <3>2. g[0] = Running(r)
      BY <1>5, <3>1
    <3> QED BY <1>6, <3>2
  <2>5. ASSUME NEW k \in 1..l PROVE g[k] = g[k - 1] + Weight(r.inbox[k])
    <3>1. PICK j \in 1..(l + 1) : j = k + 1 /\ j - 1 = k
      BY <1>6, <2>3
    <3>2. f[j] = f[j - 1] + Weight(p.inbox[j])
      BY <2>1
    <3>3. f[k + 1] = f[k] + Weight(r.inbox[k])
      BY <2>2, <3>1, <3>2
    <3>4. g[k] = f[k + 1] - d /\ g[k - 1] = f[k] - d /\ f[k + 1] \in Nat /\ f[k] \in Nat
      BY <1>6
    <3>5. PICK w \in Nat : w = Weight(r.inbox[k])
      BY <2>2
    <3>6. f[k + 1] = f[k] + w
      BY <3>3, <3>5
    <3>7. f[k + 1] - d = (f[k] - d) + w
      BY <3>4, <3>6
    <3> HIDE DEF g
    <3> QED BY <3>4, <3>5, <3>7
  <2>6. ASSUME NEW j \in 0..l, NEW k \in 0..l, j =< k PROVE g[j] =< g[k]
    <3>1. f[j + 1] =< f[k + 1] /\ f[j + 1] \in Nat /\ f[k + 1] \in Nat
      BY <1>6, <2>1, <2>3, <2>6, SMTT(20)
    <3> QED BY <1>6, <3>1, SMTT(20)
  <2>7. r.cells = g[l] + CellsIn(r.line)
    <3>1. CellsIn(p.line) \in Nat
      BY CellsFact
    <3>2. g[l] = f[l + 1] - d /\ f[l + 1] \in Nat
      BY <1>6
    <3> QED BY <2>1, <3>1, <3>2
  <2> QED BY <2>4, <2>5, <2>6, <2>7 DEF Ahead, l
<1> HIDE DEF g
<1>8. ASSUME NEW c \in Callers, Interrupts(news[c], i)
      PROVE  Behind(news[c], r, s, g)
  <2>1. /\ Behind(calls[c], p, q, f) /\ news[c].op = "interrupt" /\ news[c].owe >= 0
        /\ Owes(calls[c], news[c]) /\ Less(calls[c], news[c], d)
    BY <1>4, <1>8 DEF AllBehind, Interrupts, Owes, SoftCalls, Less
  <2>2. OldAcks(q, q)
    BY DEF OldAcks
  <2>3. /\ calls[c].owe \in Int /\ news[c].owe \in Int /\ news[c].owe =< calls[c].owe
        /\ news[c].nonce = calls[c].nonce /\ (news[c].probe = "answered" => news[c].owe = 0)
        /\ (\E k \in DOMAIN q : q[k] = Item("ack", news[c].nonce)) => news[c].owe = 0
    BY <2>1, <2>2, OwesKeeps
  <2>4. news[c].owe = IF calls[c].owe > d THEN calls[c].owe - d ELSE 0
    BY <2>1 DEF Less
  <2>5. news[c].owe =< r.cells
    <3>1. calls[c].owe =< p.cells
      BY <2>1 DEF Behind, UpModes
    <3>2. p.cells >= d
      <4>1. p.cells = f[l + 1] + CellsIn(p.line) /\ CellsIn(p.line) \in Nat
        BY <1>1, <1>4, CellsFact DEF Ahead
      <4>2. f[l + 1] \in Nat /\ f[l + 1] >= d
        BY <1>6
      <4> HIDE DEF l
      <4> QED BY <4>1, <4>2
    <3> QED BY <2>3, <2>4, <3>1, <3>2, SeqFacts
  <2>6. ASSUME NEW k \in 1..l, r.inbox[k] = Item("probe", news[c].nonce)
        PROVE  news[c].owe =< g[k - 1]
    <3>1. k + 1 \in 1..Len(p.inbox) /\ p.inbox[k + 1] = Item("probe", calls[c].nonce)
          /\ (k + 1) - 1 = k
      BY <1>1, <2>3, <2>6
    <3>2. calls[c].owe =< f[(k + 1) - 1]
      BY <2>1, <3>1 DEF Behind
    <3>3. g[k - 1] = f[k] - d /\ f[k] \in Nat /\ k - 1 \in 0..l
      BY <1>6
    <3>4. g[k - 1] \in Nat
      BY <1>6, <3>3
    <3> QED BY <2>3, <2>4, <3>1, <3>2, <3>3, <3>4, SMTT(20)
  <2>7. ASSUME NEW k \in DOMAIN s, s[k] = Item("ack", news[c].nonce) PROVE news[c].owe = 0
    <3>1. s[k].what = "ack" /\ s[k].nonce = news[c].nonce
      BY <2>7, ItemIs
    <3>2. CASE \E j \in DOMAIN q : q[j] = s[k]
      BY <2>3, <2>7, <3>2
    <3>3. CASE s[k].nonce = head.nonce /\ head.what = "probe"
      <4>1. head = Item("probe", calls[c].nonce)
        BY <1>1, <2>3, <3>1, <3>3 DEF Items, Item
      <4>2. 1 \in 1..Len(p.inbox) /\ p.inbox[1] = head
        BY <1>1
      <4>3. calls[c].owe =< f[1 - 1]
        BY <2>1, <4>1, <4>2 DEF Behind
      <4> QED BY <1>5, <2>1, <2>3, <4>3
    <3> QED BY <3>1, <3>2, <3>3
  <2> QED BY <2>3, <2>5, <2>6, <2>7 DEF Behind
<1> HIDE DEF l
<1> QED BY <1>3, <1>7, <1>8 DEF SoftAt, AllBehind

\* What is typed for a line waits behind all that is written.
LEMMA SoftTyped ==
  ASSUME NEW i, NEW p \in Processes, NEW q \in Seq(Tokens), NEW calls, NEW m \in Nat,
         SoftAt(i, p, q, calls, m), SoftCalls(calls, m), IsFiniteSet(p.line),
         NEW r \in Processes, NEW news, NEW n \in Nat, m =< n, SoftCalls(news, n),
         NEW item \in Items, item.nonce =< n, item.what \in {"cell", "probe"},
         item.what = "cell" => item.nonce > m,
         r.line = p.line \cup {item}, r.inbox = p.inbox, r.mode = p.mode,
         r.cells = IF item.what = "cell" THEN p.cells + 1 ELSE p.cells,
         \A c \in Callers : calls[c] \in Calls /\ news[c] \in Calls,
         \A c \in Callers : Interrupts(news[c], i) => Owes(calls[c], news[c])
  PROVE  SoftAt(i, r, q, news, n)
<1>1. Numbered(p, q, m)
  BY DEF SoftAt
<1>2. OldAcks(q, q)
  BY DEF OldAcks
<1>3. Numbered(r, q, n)
  <2>1. Numbered(p, q, n)
    BY <1>1, <1>2, NumberedStill
  <2> QED BY <2>1 DEF Numbered
<1>4. PICK f : Ahead(f, p) /\ AllBehind(i, p, q, calls, f)
  BY DEF SoftAt
<1>5. Ahead(f, r)
  <2>1. CellsIn(p.line) \in Nat
    BY CellsFact
  <2>2. f[Len(p.inbox)] \in Nat /\ p.cells = f[Len(p.inbox)] + CellsIn(p.line)
    <3>1. Len(p.inbox) \in 0..Len(p.inbox)
      BY SeqFacts
    <3> QED BY <1>4, <3>1, AheadFacts DEF Ahead
  <2>3. CASE item.what = "cell"
    <3>1. item \notin p.line
      <4>1. \A x \in p.line : x.nonce =< m
        BY <1>1 DEF Numbered
      <4>2. item.nonce \in Nat
        BY DEF Items
      <4> QED BY <2>3, <4>1, <4>2
    <3> DEFINE cells == {x \in p.line : x.what = "cell"}
    <3>2. {x \in r.line : x.what = "cell"} = cells \cup {item} /\ item \notin cells
      BY <2>3, <3>1
    <3>3. IsFiniteSet(cells)
      BY FS_Subset
    <3>4. Cardinality(cells \cup {item}) = Cardinality(cells) + 1
      BY <3>2, <3>3, FS_AddElement
    <3>5. CellsIn(r.line) = CellsIn(p.line) + 1
      BY <3>2, <3>4 DEF CellsIn
    <3>6. r.cells = f[Len(r.inbox)] + CellsIn(r.line)
      BY <2>1, <2>2, <2>3, <3>5
    <3> QED BY <1>4, <3>6 DEF Ahead, Running
  <2>4. CASE item.what # "cell"
    <3>1. {x \in r.line : x.what = "cell"} = {x \in p.line : x.what = "cell"}
      BY <2>4
    <3>2. CellsIn(r.line) = CellsIn(p.line)
      BY <3>1 DEF CellsIn
    <3> QED BY <1>4, <2>4, <3>2 DEF Ahead, Running
  <2> QED BY <2>3, <2>4
<1>6. ASSUME NEW c \in Callers, Interrupts(news[c], i)
      PROVE  Behind(news[c], r, q, f)
  <2>1. /\ Behind(calls[c], p, q, f) /\ news[c].op = "interrupt" /\ news[c].owe >= 0
        /\ Owes(calls[c], news[c])
    BY <1>4, <1>6 DEF AllBehind, Interrupts, Owes, SoftCalls
  <2>2. /\ calls[c].owe \in Int /\ news[c].owe \in Int /\ news[c].owe =< calls[c].owe
        /\ news[c].nonce = calls[c].nonce
        /\ (\E k \in DOMAIN q : q[k] = Item("ack", news[c].nonce)) => news[c].owe = 0
        /\ news[c].probe = "answered" => news[c].owe = 0
    BY <1>2, <2>1, OwesKeeps
  <2>3. r.mode \in UpModes => news[c].owe =< r.cells
    <3>1. p.cells \in Int /\ r.cells >= p.cells
      BY SeqFacts
    <3>2. p.mode \in UpModes => calls[c].owe =< p.cells
      BY <2>1 DEF Behind
    <3> QED BY <2>2, <3>1, <3>2, SeqFacts
  <2>4. ASSUME NEW k \in 1..Len(r.inbox), r.inbox[k] = Item("probe", news[c].nonce)
        PROVE  news[c].owe =< f[k - 1]
    <3>1. calls[c].owe =< f[k - 1]
      BY <2>1, <2>2, <2>4 DEF Behind
    <3>2. f[k - 1] \in Nat
      BY <1>4, <2>4, AheadFacts
    <3> QED BY <2>2, <3>1, <3>2
  <2> QED BY <2>2, <2>3, <2>4 DEF Behind
<1> QED BY <1>3, <1>5, <1>6 DEF SoftAt, AllBehind

\* What the newline makes of a line.
LEMMA SubmittedIs ==
  ASSUME NEW p \in Processes, IsFiniteSet(p.line),
         \A item \in p.line : item.what \in {"cell", "probe"}
  PROVE  \E item \in Items :
            /\ Submitted(p).inbox = Append(p.inbox, item) /\ Submitted(p).cells = p.cells
            /\ Weight(item) = CellsIn(p.line)
            /\ item.what = "probe" => item \in p.line
<1>1. p.line \in SUBSET Items /\ p.inbox \in Seq(Items)
  BY DEF Processes
<1> DEFINE cells == {x \in p.line : x.what = "cell"}
           item == IF Cardinality(p.line) = 1 THEN CHOOSE x \in p.line : TRUE
                   ELSE IF p.line = {} THEN Item("empty", 0)
                   ELSE Item("merged", Cardinality(cells))
<1>2. Submitted(p).inbox = Append(p.inbox, item) /\ Submitted(p).cells = p.cells
  BY DEF Submitted, Processes
<1>3. item \in Items /\ Weight(item) = CellsIn(p.line) /\ (item.what = "probe" => item \in p.line)
  <2>1. CASE Cardinality(p.line) = 1
    <3>1. p.line # {}
      BY <2>1, FS_EmptySet
    <3>2. item \in p.line
      BY <2>1, <3>1
    <3>3. p.line = {item}
      <4>1. PICK x : p.line = {x}
        BY <2>1, FS_Singleton
      <4> QED BY <3>2, <4>1
    <3>4. CASE item.what = "cell"
      <4>1. cells = {item}
        BY <3>3, <3>4
      <4>2. Cardinality({item}) = 1
        BY FS_Singleton
      <4>3. CellsIn(p.line) = 1 /\ Weight(item) = 1
        BY <3>4, <4>1, <4>2 DEF CellsIn, Weight
      <4> QED BY <1>1, <3>2, <4>3
    <3>5. CASE item.what = "probe"
      <4>1. cells = {}
        BY <3>3, <3>5
      <4>2. CellsIn(p.line) = 0 /\ Weight(item) = 0
        BY <3>5, <4>1, FS_EmptySet DEF CellsIn, Weight
      <4> QED BY <1>1, <3>2, <4>2
    <3> QED BY <3>2, <3>4, <3>5
  <2>2. CASE Cardinality(p.line) # 1 /\ p.line = {}
    <3>1. item = Item("empty", 0)
      BY <2>2
    <3>2. cells = {}
      BY <2>2
    <3>3. CellsIn(p.line) = 0
      BY <3>2, FS_EmptySet DEF CellsIn
    <3>4. item.what = "empty" /\ item \in Items
      BY <3>1 DEF Item, Items
    <3> QED BY <3>3, <3>4 DEF Weight
  <2>3. CASE Cardinality(p.line) # 1 /\ p.line # {}
    <3>1. item = Item("merged", CellsIn(p.line))
      BY <2>3 DEF CellsIn
    <3>2. CellsIn(p.line) \in Nat
      BY CellsFact
    <3>3. item.what = "merged" /\ item.nonce = CellsIn(p.line) /\ item \in Items
      BY <3>1, <3>2, ItemIs, ItemFacts
    <3> QED BY <3>3 DEF Weight
  <2> QED BY <2>1, <2>2, <2>3
<1> HIDE DEF item
<1> QED BY <1>2, <1>3

\* A line that is submitted is the last of what is to be read.
LEMMA SoftSubmitted ==
  ASSUME NEW i, NEW p \in Processes, NEW q \in Seq(Tokens), NEW calls, NEW m \in Nat,
         SoftAt(i, p, q, calls, m), SoftCalls(calls, m), IsFiniteSet(p.line), p.mode \in UpModes,
         NEW news, SoftCalls(news, m),
         \A c \in Callers : calls[c] \in Calls /\ news[c] \in Calls,
         \A c \in Callers : Interrupts(news[c], i) => Owes(calls[c], news[c])
  PROVE  SoftAt(i, Submitted(p), q, news, m)
<1> DEFINE r == Submitted(p)
           l == Len(p.inbox)
<1>1. Numbered(p, q, m) /\ r \in Processes /\ r.line = {} /\ r.mode = p.mode
  BY SubmittedFacts DEF SoftAt
<1>2. PICK item \in Items : /\ r.inbox = Append(p.inbox, item) /\ r.cells = p.cells
                            /\ Weight(item) = CellsIn(p.line)
                            /\ item.what = "probe" => item \in p.line
  BY <1>1, SubmittedIs DEF Numbered
<1>3. PICK f : Ahead(f, p) /\ AllBehind(i, p, q, calls, f)
  BY DEF SoftAt
<1> HIDE DEF r
<1>4. /\ l \in Nat /\ Len(r.inbox) = l + 1 /\ r.inbox[l + 1] = item
      /\ \A k \in 1..l : r.inbox[k] = p.inbox[k]
      /\ DOMAIN r.inbox = 1..(l + 1) /\ DOMAIN p.inbox = 1..l
  <2>1. p.inbox \in Seq(Items)
    BY DEF Processes
  <2> HIDE DEF Items
  <2> QED BY <1>2, <2>1
<1>5. Numbered(r, q, m)
  <2>1. ASSUME NEW k \in DOMAIN r.inbox, r.inbox[k].what = "probe" PROVE r.inbox[k].nonce =< m
    <3>1. CASE k \in 1..l
      BY <1>1, <1>4, <2>1, <3>1 DEF Numbered
    <3>2. CASE k = l + 1
      BY <1>1, <1>2, <1>4, <2>1, <3>2 DEF Numbered
    <3> QED BY <1>4, <3>1, <3>2
  <2> QED BY <1>1, <2>1 DEF Numbered
<1> DEFINE g == [k \in 0..(l + 1) |-> IF k = l + 1 THEN p.cells ELSE f[k]]
<1>6. /\ \A k \in 0..l : k \in 0..(l + 1) /\ f[k] \in Nat /\ g[k] = f[k]
      /\ \A k \in 1..l : k - 1 \in 0..l /\ k \in 0..l /\ g[k - 1] = f[k - 1]
      /\ 0 \in 0..l /\ l \in 0..l /\ l + 1 \in 0..(l + 1) /\ g[l + 1] = p.cells
      /\ f[l] =< p.cells /\ p.cells \in Nat /\ p.cells = f[l] + CellsIn(p.line)
      /\ \A k \in 0..l : f[k] =< p.cells
  <2>1. l \in Nat /\ \A k \in 0..l : f[k] \in Nat /\ f[k] =< f[l]
    BY <1>3, <1>4, AheadFacts
  <2>2. p.cells = f[l] + CellsIn(p.line) /\ CellsIn(p.line) \in Nat
    BY <1>3, CellsFact DEF Ahead
  <2> HIDE DEF l
  <2>3. 0 \in 0..l /\ l \in 0..l /\ l + 1 \in 0..(l + 1) /\ g[l + 1] = p.cells
    BY <2>1
  <2>4. \A k \in 0..l : k \in 0..(l + 1) /\ g[k] = f[k]
    BY <2>1
  <2>5. f[l] =< p.cells /\ p.cells \in Nat /\ \A k \in 0..l : f[k] =< p.cells
    BY <2>1, <2>2, <2>3
  <2> HIDE DEF g
  <2>6. ASSUME NEW k \in 1..l PROVE k - 1 \in 0..l /\ k \in 0..l /\ g[k - 1] = f[k - 1]
    <3>1. k - 1 \in 0..l /\ k \in 0..l
      BY <2>1
    <3> QED BY <2>4, <3>1
  <2> QED BY <2>1, <2>2, <2>3, <2>4, <2>5, <2>6
<1>7. Ahead(g, r)
  <2>1. /\ f[0] = Running(p) /\ Running(p) = Running(r)
        /\ \A k \in 1..l : f[k] = f[k - 1] + Weight(p.inbox[k])
        /\ \A j, k \in 0..l : j =< k => f[j] =< f[k]
    BY <1>1, <1>3 DEF Ahead, Running
  <2>2. l \in Nat
    BY <1>4
  <2>3. CellsIn(r.line) = 0
    <3>1. {x \in r.line : x.what = "cell"} = {}
      BY <1>1
    <3> QED BY <3>1, FS_EmptySet DEF CellsIn
  <2> HIDE DEF l
  <2>4. g \in [0..(l + 1) -> Nat]
    <3>1. \A k \in 0..(l + 1) : k = l + 1 \/ k \in 0..l
      BY <2>2
    <3> QED BY <1>6, <3>1
  <2> HIDE DEF g
  <2>5. g[0] = Running(r)
    BY <1>6, <2>1
  <2>6. ASSUME NEW k \in 1..(l + 1) PROVE g[k] = g[k - 1] + Weight(r.inbox[k])
    <3>1. CASE k \in 1..l
      BY <1>4, <1>6, <2>1, <3>1
    <3>2. CASE k = l + 1
      <4>1. k - 1 = l /\ g[l] = f[l] /\ g[k] = p.cells
        BY <1>6, <2>2, <3>2
      <4>2. Weight(r.inbox[k]) = CellsIn(p.line)
        BY <1>2, <1>4, <3>2
      <4> QED BY <1>6, <4>1, <4>2
    <3> QED BY <2>2, <3>1, <3>2
  <2>7. ASSUME NEW j \in 0..(l + 1), NEW k \in 0..(l + 1), j =< k PROVE g[j] =< g[k]
    <3>1. CASE k = l + 1
      <4>1. j = l + 1 \/ j \in 0..l
        BY <2>2
      <4> QED BY <1>6, <3>1, <4>1
    <3>2. CASE k # l + 1
      <4>1. j \in 0..l /\ k \in 0..l
        BY <2>2, <2>7, <3>2
      <4> QED BY <1>6, <2>1, <2>7, <4>1
    <3> QED BY <3>1, <3>2
  <2>8. r.cells = g[l + 1] + CellsIn(r.line)
    BY <1>2, <1>6, <2>3
  <2> QED BY <1>4, <2>4, <2>5, <2>6, <2>7, <2>8 DEF Ahead
<1> HIDE DEF g
<1>8. ASSUME NEW c \in Callers, Interrupts(news[c], i)
      PROVE  Behind(news[c], r, q, g)
  <2>1. /\ Behind(calls[c], p, q, f) /\ news[c].op = "interrupt" /\ news[c].owe >= 0
        /\ Owes(calls[c], news[c])
    BY <1>3, <1>8 DEF AllBehind, Interrupts, Owes, SoftCalls
  <2>2. OldAcks(q, q)
    BY DEF OldAcks
  <2>3. /\ calls[c].owe \in Int /\ news[c].owe \in Int /\ news[c].owe =< calls[c].owe
        /\ news[c].nonce = calls[c].nonce
        /\ (\E k \in DOMAIN q : q[k] = Item("ack", news[c].nonce)) => news[c].owe = 0
        /\ news[c].probe = "answered" => news[c].owe = 0
    BY <2>1, <2>2, OwesKeeps
  <2>4. calls[c].owe =< p.cells /\ news[c].owe =< p.cells
    <3>1. calls[c].owe =< p.cells
      BY <2>1 DEF Behind
    <3> QED BY <1>6, <2>3, <3>1
  <2>5. ASSUME NEW k \in 1..Len(r.inbox), r.inbox[k] = Item("probe", news[c].nonce)
        PROVE  news[c].owe =< g[k - 1]
    <3>1. CASE k \in 1..l
      <4>1. p.inbox[k] = Item("probe", calls[c].nonce)
        BY <1>4, <2>3, <2>5, <3>1
      <4>2. calls[c].owe =< f[k - 1]
        BY <2>1, <3>1, <4>1 DEF Behind
      <4>3. g[k - 1] = f[k - 1] /\ f[k - 1] \in Nat
        BY <1>6, <3>1
      <4> QED BY <2>3, <4>2, <4>3
    <3>2. CASE k = l + 1
      <4>1. item.what = "probe"
        BY <1>4, <2>5, <3>2, ItemIs
      <4>2. CellsIn(p.line) = 0
        BY <1>2, <4>1 DEF Weight
      <4>3. k - 1 = l /\ g[l] = p.cells
        BY <1>4, <1>6, <3>2, <4>2
      <4> QED BY <2>4, <4>3
    <3> QED BY <1>4, <2>5, <3>1, <3>2
  <2> QED BY <1>2, <2>3, <2>4, <2>5 DEF Behind
<1> QED BY <1>5, <1>7, <1>8 DEF SoftAt, AllBehind, r

\* What the steps do to a call: it goes on, or it ended, or another began that is no interrupt.
Onward(s, t) ==
    /\ t.nonce = s.nonce /\ t.answer = s.answer /\ t.owe >= 0 /\ t.owe =< s.owe
    /\ t.op = "interrupt" => /\ s.op = "interrupt" /\ t.on = s.on
                             /\ t.probe = "answered" => s.probe = "answered" \/ t.owe = 0
Anew(t, n) == t.op # "interrupt" /\ t.nonce =< n /\ t.owe >= 0 /\ (t.answer = "soft" => t.owe = 0)

\* And to a runtime's queue: nothing, or it is gone.
Kept(i) ==
    /\ proc'[i].line = proc[i].line /\ proc'[i].inbox = proc[i].inbox /\ proc'[i].cells = proc[i].cells
    /\ proc'[i].mode = "busy" <=> proc[i].mode = "busy"
    /\ proc'[i].mode \in UpModes => proc[i].mode \in UpModes
    /\ OldAcks(pipe[i], pipe'[i])
Over(i) ==
    /\ proc'[i].line = {} /\ proc'[i].inbox = <<>> /\ proc'[i].cells = 0 /\ proc'[i].mode \notin UpModes
    /\ OldAcks(pipe[i], pipe'[i])

LEMMA CallsGoOn ==
  ASSUME TypeOK, TypeOK', SoftCalls(call, ops), ops =< ops',
         \A c \in Callers : Onward(call[c], call'[c]) \/ Anew(call'[c], ops')
  PROVE  SoftCalls(call', ops') /\ \A c \in Callers : Owes(call[c], call'[c])
<1>1. ops \in Nat /\ ops' \in Nat
  BY TransportAssumption DEF TypeOK
<1>2. ASSUME NEW c \in Callers
      PROVE  /\ call'[c].nonce =< ops' /\ call'[c].owe >= 0
             /\ call'[c].answer = "soft" => call'[c].owe = 0
             /\ Owes(call[c], call'[c])
  <2>1. call[c] \in Calls /\ call'[c] \in Calls
    BY DEF TypeOK
  <2>2. /\ call[c].owe \in Int /\ call'[c].owe \in Int /\ call[c].nonce \in Nat /\ call'[c].nonce \in Nat
    BY <2>1, OweFacts
  <2>3. CASE Onward(call[c], call'[c])
    <3>1. call[c].nonce =< ops /\ (call[c].answer = "soft" => call[c].owe = 0)
      BY DEF SoftCalls
    <3> QED BY <1>1, <2>2, <2>3, <3>1 DEF Onward, Owes
  <2>4. CASE Anew(call'[c], ops')
    BY <2>4 DEF Anew, Owes
  <2> QED BY <2>3, <2>4
<1> QED BY <1>2 DEF SoftCalls

LEMMA SoftKeeps ==
  ASSUME TransportInv, TransportInv', SoftInv, ops =< ops', SoftCalls(call', ops'),
         \A i \in Runtimes : \/ SoftAt(i, proc'[i], pipe'[i], call', ops')
                             \/ /\ Kept(i) \/ Over(i)
                                /\ \A c \in Callers : Interrupts(call'[c], i) => Owes(call[c], call'[c])
  PROVE  SoftInv'
<1>1. ASSUME NEW i \in Runtimes
      PROVE  SoftAt(i, proc'[i], pipe'[i], call', ops')
  <2>1. /\ proc[i] \in Processes /\ proc'[i] \in Processes /\ pipe[i] \in Seq(Tokens)
        /\ pipe'[i] \in Seq(Tokens) /\ ops \in Nat /\ ops' \in Nat
        /\ \A c \in Callers : call[c] \in Calls /\ call'[c] \in Calls
    BY TransportAssumption DEF TransportInv, TypeOK
  <2>2. SoftAt(i, proc[i], pipe[i], call, ops) /\ SoftCalls(call, ops)
    BY DEF SoftInv
  <2>3. CASE Kept(i) /\ \A c \in Callers : Interrupts(call'[c], i) => Owes(call[c], call'[c])
    <3>1. /\ proc'[i].line = proc[i].line /\ proc'[i].inbox = proc[i].inbox
          /\ proc'[i].cells = proc[i].cells
          /\ proc'[i].mode = "busy" <=> proc[i].mode = "busy"
          /\ OldAcks(pipe[i], pipe'[i])
      BY <2>3 DEF Kept
    <3>2. \A c \in Callers : Interrupts(call'[c], i) =>
             \/ Owes(call[c], call'[c]) /\ (proc'[i].mode \in UpModes => proc[i].mode \in UpModes)
             \/ Asks(call'[c], proc'[i], ops, ops')
      BY <2>3 DEF Kept
    <3> QED BY <2>1, <2>2, <3>1, <3>2, SoftStill
  <2>4. CASE Over(i) /\ \A c \in Callers : Interrupts(call'[c], i) => Owes(call[c], call'[c])
    <3>1. /\ proc'[i].line = {} /\ proc'[i].inbox = <<>> /\ proc'[i].cells = 0
          /\ proc'[i].mode \notin UpModes /\ OldAcks(pipe[i], pipe'[i])
      BY <2>4 DEF Over
    <3>2. \A c \in Callers : Interrupts(call'[c], i) =>
             Owes(call[c], call'[c]) \/ Asks(call'[c], proc'[i], ops, ops')
      BY <2>4
    <3> QED BY <2>1, <2>2, <3>1, <3>2, SoftOver
  <2> QED BY <2>3, <2>4
<1> QED BY <1>1 DEF SoftInv

\* Where no process does anything, and the calls go on.
LEMMA SoftUnmoved ==
  ASSUME TransportInv, TransportInv', SoftInv, ops =< ops', UNCHANGED proc,
         \A i \in Runtimes : pipe'[i] \in {pipe[i], <<>>},
         \A c \in Callers : Onward(call[c], call'[c]) \/ Anew(call'[c], ops')
  PROVE  SoftInv'
<1>1. SoftCalls(call', ops') /\ \A c \in Callers : Owes(call[c], call'[c])
  BY CallsGoOn DEF TransportInv, SoftInv
<1>2. \A i \in Runtimes : Kept(i)
  BY DEF Kept, OldAcks
<1> QED BY <1>1, <1>2, SoftKeeps

\* A call that one step leaves alone, and one as it ends.
LEMMA OnwardFacts ==
  ASSUME TypeOK, SoftInv, NEW c \in Callers
  PROVE  /\ Onward(call[c], call[c])
         /\ \A answer, n : n \in Nat => Anew(End(c, answer), n)
         /\ \A n : n \in Nat => Anew(Quiet, n)
<1>1. call[c] \in Calls /\ call[c].owe \in Int /\ call[c].owe >= 0
  BY OweFacts DEF TypeOK, SoftInv, SoftCalls
<1>2. Onward(call[c], call[c])
  BY <1>1 DEF Onward
<1>3. ASSUME NEW n \in Nat PROVE Anew(Quiet, n) /\ \A a : Anew([Quiet EXCEPT !.answer = a], n)
  BY DEF Anew, Quiet
<1>4. ASSUME NEW n \in Nat, NEW answer PROVE Anew(End(c, answer), n)
  BY <1>3 DEF End
<1> QED BY <1>2, <1>3, <1>4

LEMMA LessFacts ==
  ASSUME TypeOK, SoftInv, NEW i, NEW n \in Nat, NEW c \in Callers
  PROVE  /\ Onward(call[c], CellsEnd(i, n)[c]) /\ Onward(call[c], OverFor(i)[c])
         /\ call[c].on = i => Less(call[c], CellsEnd(i, n)[c], n)
<1>1. call[c] \in Calls /\ call[c].owe \in Int /\ call[c].owe >= 0
  BY OweFacts DEF TypeOK, SoftInv, SoftCalls
<1>2. ASSUME NEW d \in Int
      PROVE  LET t == [call[c] EXCEPT !.owe = d]
             IN  /\ t.owe = d /\ t.op = call[c].op /\ t.on = call[c].on /\ t.nonce = call[c].nonce
                 /\ t.probe = call[c].probe /\ t.answer = call[c].answer
  BY <1>1 DEF Calls
<1> DEFINE d == IF call[c].owe > n THEN call[c].owe - n ELSE 0
           t == [call[c] EXCEPT !.owe = d]
           u == [call[c] EXCEPT !.owe = 0]
<1>3. d \in Int /\ d >= 0 /\ d =< call[c].owe /\ 0 \in Int
  BY <1>1
<1>4. /\ CellsEnd(i, n)[c] = IF call[c].on = i THEN t ELSE call[c]
      /\ OverFor(i)[c] = IF call[c].on = i THEN u ELSE call[c]
  BY DEF CellsEnd, OverFor
<1> HIDE DEF d
<1>5. /\ t.owe = d /\ t.op = call[c].op /\ t.on = call[c].on /\ t.nonce = call[c].nonce
      /\ t.probe = call[c].probe /\ t.answer = call[c].answer
  BY <1>2, <1>3
<1>6. /\ u.owe = 0 /\ u.op = call[c].op /\ u.on = call[c].on /\ u.nonce = call[c].nonce
      /\ u.probe = call[c].probe /\ u.answer = call[c].answer
  BY <1>2, <1>3
<1> HIDE DEF t, u
<1>7. Onward(call[c], t) /\ Onward(call[c], u) /\ Onward(call[c], call[c])
  BY <1>1, <1>3, <1>5, <1>6 DEF Onward
<1>8. Less(call[c], t, n)
  BY <1>3, <1>5 DEF Less, Owes, d
<1> QED BY <1>4, <1>7, <1>8

LEMMA DyingIs ==
  ASSUME NEW p \in Processes
  PROVE  /\ Dying(p).line = {} /\ Dying(p).inbox = <<>> /\ Dying(p).cells = 0
         /\ Dying(p).mode \notin UpModes
BY DEF Dying, Processes, UpModes

\* What a runtime prints beside the answers to probes.
LEMMA PrintedAcks ==
  ASSUME NEW q \in Seq(Tokens), NEW tok \in Tokens, tok.what # "ack"
  PROVE  OldAcks(q, Append(q, tok)) /\ OldAcks(q, <<tok>>) /\ OldAcks(q, q)
<1>1. OldAcks(q, q) /\ OldAcks(q, <<tok>>)
  BY DEF OldAcks
<1>2. ASSUME NEW k \in DOMAIN Append(q, tok), Append(q, tok)[k].what = "ack"
      PROVE  \E j \in DOMAIN q : q[j] = Append(q, tok)[k]
  <2>1. k \in DOMAIN q \/ Append(q, tok)[k] = tok
    <3> HIDE DEF Tokens
    <3> QED OBVIOUS
  <2>2. k \in DOMAIN q
    BY <1>2, <2>1
  <2>3. Append(q, tok)[k] = q[k]
    <3> HIDE DEF Tokens
    <3> QED BY <2>2
  <2> QED BY <2>2, <2>3
<1> QED BY <1>1, <1>2 DEF OldAcks

LEMMA AnswersAcks ==
  ASSUME NEW q \in Seq(Tokens), NEW a \in Tokens, NEW b \in Tokens, b.what # "ack",
         NEW k \in DOMAIN (q \o <<a, b>>), (q \o <<a, b>>)[k].what = "ack"
  PROVE  (\E j \in DOMAIN q : q[j] = (q \o <<a, b>>)[k]) \/ (q \o <<a, b>>)[k] = a
<1>1. /\ k \in 1..(Len(q) + 2) /\ Len(q) \in Nat /\ DOMAIN q = 1..Len(q)
      /\ k \in 1..Len(q) => (q \o <<a, b>>)[k] = q[k]
      /\ k = Len(q) + 1 => (q \o <<a, b>>)[k] = a
      /\ k = Len(q) + 2 => (q \o <<a, b>>)[k] = b
  <2> HIDE DEF Tokens
  <2> QED OBVIOUS
<1>2. k \in 1..Len(q) \/ k = Len(q) + 1 \/ k = Len(q) + 2
  BY <1>1
<1> QED BY <1>1, <1>2

LEMMA OthersKept ==
  ASSUME NEW i, NEW p, NEW q, proc' = [proc EXCEPT ![i] = p], pipe' = [pipe EXCEPT ![i] = q], TypeOK,
         NEW j \in Runtimes, j # i
  PROVE  Kept(j)
<1>1. proc'[j] = proc[j] /\ pipe'[j] = pipe[j]
  BY DEF TypeOK
<1> QED BY <1>1 DEF Kept, OldAcks

\* A process that does nothing to its queue.
LEMMA SoftIdles ==
  ASSUME TransportInv, TransportInv', SoftInv, NEW i \in Runtimes,
         \/ Prompts(i) \/ Restored(i) \/ CellPrints(i) \/ Forks(i) \/ HolderWrites(i) \/ HolderEnds(i)
  PROVE  SoftInv'
<1>1. proc[i] \in Processes /\ pipe[i] \in Seq(Tokens)
      /\ proc \in [Runtimes -> Processes] /\ pipe \in [Runtimes -> Seq(Tokens)]
  BY DEF TransportInv, TypeOK
<1>2. UNCHANGED <<call, ops>>
  BY DEF Prompts, Restored, CellPrints, Forks, HolderWrites, HolderEnds
<1>3. Prompt \in Tokens /\ Prompt.what # "ack" /\ Item("other", 0) \in Tokens /\ Item("other", 0).what # "ack"
  BY DEF Prompt, Item, Tokens
<1>4. PICK p, q : /\ proc' = [proc EXCEPT ![i] = p] /\ pipe' = [pipe EXCEPT ![i] = q]
                  /\ p.line = proc[i].line /\ p.inbox = proc[i].inbox /\ p.cells = proc[i].cells
                  /\ p.mode = "busy" <=> proc[i].mode = "busy"
                  /\ p.mode \in UpModes => proc[i].mode \in UpModes
                  /\ q \in {pipe[i], Append(pipe[i], Prompt), <<Prompt>>, <<Item("other", 0)>>}
  <2>1. proc = [proc EXCEPT ![i] = proc[i]] /\ pipe = [pipe EXCEPT ![i] = pipe[i]]
    BY <1>1
  <2>2. CASE Prompts(i) \/ Restored(i)
    <3> DEFINE p == [proc[i] EXCEPT !.mode = "idle"]
    <3>1. p.line = proc[i].line /\ p.inbox = proc[i].inbox /\ p.cells = proc[i].cells /\ p.mode = "idle"
      BY <1>1 DEF Processes
    <3>2. proc' = [proc EXCEPT ![i] = p] /\ proc[i].mode \in {"start", "criu"}
      BY <1>1, <2>2 DEF Prompts, Restored
    <3>3. pipe' = [pipe EXCEPT ![i] = Append(pipe[i], Prompt)] \/ pipe' = [pipe EXCEPT ![i] = pipe[i]]
      BY <2>1, <2>2 DEF Prompts, Restored
    <3> HIDE DEF p
    <3> QED BY <3>1, <3>2, <3>3 DEF UpModes
  <2>3. CASE CellPrints(i) \/ HolderWrites(i)
    <3>1. pipe' = [pipe EXCEPT ![i] = <<Prompt>>] \/ pipe' = [pipe EXCEPT ![i] = <<Item("other", 0)>>]
      BY <2>3 DEF CellPrints, HolderWrites
    <3>2. proc' = [proc EXCEPT ![i] = proc[i]]
      BY <2>1, <2>3 DEF CellPrints, HolderWrites
    <3> QED BY <3>1, <3>2
  <2>4. CASE Forks(i) \/ HolderEnds(i)
    <3>1. PICK h : proc' = [proc EXCEPT ![i] = [proc[i] EXCEPT !.holder = h]]
      BY <1>1, <2>4 DEF Forks, HolderEnds
    <3> DEFINE p == [proc[i] EXCEPT !.holder = h]
    <3>2. p.line = proc[i].line /\ p.inbox = proc[i].inbox /\ p.cells = proc[i].cells
          /\ p.mode = proc[i].mode
      BY <1>1 DEF Processes
    <3>3. pipe' = [pipe EXCEPT ![i] = pipe[i]] /\ proc' = [proc EXCEPT ![i] = p]
      BY <2>1, <2>4, <3>1 DEF Forks, HolderEnds
    <3> HIDE DEF p
    <3> QED BY <3>2, <3>3
  <2> QED BY <2>2, <2>3, <2>4
<1>5. proc'[i] = p /\ pipe'[i] = q
  BY <1>1, <1>4
<1>6. OldAcks(pipe[i], q)
  BY <1>1, <1>3, <1>4, PrintedAcks
<1>7. Kept(i)
  BY <1>4, <1>5, <1>6 DEF Kept
<1>8. \A j \in Runtimes : Kept(j)
  BY <1>4, <1>7, OthersKept DEF TransportInv
<1>9. ops =< ops'
  BY <1>2, TransportAssumption DEF TransportInv, TypeOK
<1>10. \A c \in Callers : Onward(call[c], call'[c])
  BY <1>2, OnwardFacts DEF TransportInv
<1>11. SoftCalls(call', ops') /\ \A c \in Callers : Owes(call[c], call'[c])
  BY <1>9, <1>10, CallsGoOn DEF TransportInv, SoftInv
<1> QED BY <1>8, <1>9, <1>11, SoftKeeps

\* A process that reads a line.
LEMMA SoftReads == ASSUME TransportInv, TransportInv', SoftInv, NEW i \in Runtimes, Reads(i) PROVE SoftInv'
<1>1. proc[i] \in Processes /\ pipe[i] \in Seq(Tokens) /\ IsFiniteSet(proc[i].line)
      /\ proc \in [Runtimes -> Processes] /\ pipe \in [Runtimes -> Seq(Tokens)]
      /\ proc'[i] \in Processes /\ pipe'[i] \in Seq(Tokens) /\ ops \in Nat /\ ops' \in Nat
      /\ \A c \in Callers : call[c] \in Calls /\ call'[c] \in Calls
  BY TransportAssumption DEF TransportInv, TypeOK
<1>2. ops' = ops /\ proc[i].mode = "idle" /\ proc[i].inbox # <<>> /\ proc[i].inbox \in Seq(Items)
  BY <1>1 DEF Reads, Processes
<1> DEFINE item == Head(proc[i].inbox)
           rest == [proc[i] EXCEPT !.inbox = Tail(proc[i].inbox)]
<1>3. item \in Items /\ Tail(proc[i].inbox) \in Seq(Items)
  <2> HIDE DEF Items
  <2> QED BY <1>2
<1>4. /\ rest.line = proc[i].line /\ rest.inbox = Tail(proc[i].inbox) /\ rest.cells = proc[i].cells
      /\ rest.mode = "idle" /\ rest \in Processes /\ proc[i].cells \in Int
  BY <1>1, <1>2, <1>3 DEF Processes
<1>5. /\ item.nonce \in Nat /\ Prompt \in Tokens /\ Prompt.what # "ack"
      /\ Item("ack", item.nonce) \in Tokens /\ Item("ack", item.nonce).nonce = item.nonce
  BY <1>3 DEF Items, Tokens, Prompt, Item
<1> DEFINE R(p, q, d) ==
         /\ proc' = [proc EXCEPT ![i] = p] /\ pipe' = [pipe EXCEPT ![i] = q]
         /\ p.line = proc[i].line /\ p.inbox = Tail(proc[i].inbox) /\ p.cells = proc[i].cells - d
         /\ p.mode \in {"idle", "busy"} /\ Weight(item) = d + Running(p)
         /\ \A k \in DOMAIN q : q[k].what = "ack" =>
               \/ \E j \in DOMAIN pipe[i] : pipe[i][j] = q[k]
               \/ q[k].nonce = item.nonce /\ item.what = "probe"
         /\ call' = CellsEnd(i, d) \/ (d = 0 /\ call' = call)
<1>6. \E p, q : \E d \in Nat : R(p, q, d)
  <2>1. CASE item.what = "cell" /\ proc' = [proc EXCEPT ![i] = [rest EXCEPT !.mode = "busy"]]
             /\ UNCHANGED <<pipe, call>>
    <3> DEFINE p == [rest EXCEPT !.mode = "busy"]
    <3>1. p.line = rest.line /\ p.inbox = rest.inbox /\ p.cells = rest.cells /\ p.mode = "busy"
      BY <1>4
    <3>2. Weight(item) = 1
      BY <2>1 DEF Weight
    <3>3. proc' = [proc EXCEPT ![i] = p] /\ pipe' = [pipe EXCEPT ![i] = pipe[i]] /\ call' = call
      BY <1>1, <2>1
    <3>4. proc[i].cells = proc[i].cells - 0 /\ 1 = 0 + 1 /\ 0 \in Nat
      BY <1>4
    <3>5. \A k \in DOMAIN pipe[i] : \E j \in DOMAIN pipe[i] : pipe[i][j] = pipe[i][k]
      OBVIOUS
    <3> HIDE DEF p, rest, item
    <3>6. Running(p) = 1
      BY <3>1 DEF Running
    <3>7. R(p, pipe[i], 0)
      BY <1>4, <3>1, <3>2, <3>3, <3>4, <3>5, <3>6
    <3> HIDE DEF R
    <3> QED BY <3>4, <3>7
  <2>2. CASE /\ item.what = "probe"
             /\ pipe' = [pipe EXCEPT ![i] = @ \o <<Item("ack", item.nonce), Prompt>>]
             /\ proc' = [proc EXCEPT ![i] = rest] /\ UNCHANGED call
    <3> DEFINE q == pipe[i] \o <<Item("ack", item.nonce), Prompt>>
    <3>1. pipe' = [pipe EXCEPT ![i] = q]
      BY <1>1, <2>2
    <3>2. \A k \in DOMAIN q : q[k].what = "ack" =>
             \/ \E j \in DOMAIN pipe[i] : pipe[i][j] = q[k]
             \/ q[k].nonce = item.nonce
      BY <1>1, <1>5, AnswersAcks
    <3>3. Weight(item) = 0 /\ proc[i].cells = proc[i].cells - 0 /\ 0 = 0 + 0 /\ 0 \in Nat
      BY <1>4, <2>2 DEF Weight
    <3> HIDE DEF q, rest, item
    <3>4. Running(rest) = 0
      BY <1>4 DEF Running
    <3>5. R(rest, q, 0)
      BY <1>4, <2>2, <3>1, <3>2, <3>3, <3>4
    <3> HIDE DEF R
    <3> QED BY <3>3, <3>5
  <2>3. CASE /\ item.what \in {"empty", "merged"}
             /\ pipe' = [pipe EXCEPT ![i] = Append(@, Prompt)]
             /\ proc' = [proc EXCEPT ![i] =
                  [rest EXCEPT !.cells = IF item.what = "merged" THEN @ - item.nonce ELSE @]]
             /\ call' = IF item.what = "merged" THEN CellsEnd(i, item.nonce) ELSE call
    <3> DEFINE d == IF item.what = "merged" THEN item.nonce ELSE 0
               q == Append(pipe[i], Prompt)
               cells == IF item.what = "merged" THEN rest.cells - item.nonce ELSE rest.cells
               p == [rest EXCEPT !.cells = cells]
    <3>1. proc' = [proc EXCEPT ![i] = p] /\ pipe' = [pipe EXCEPT ![i] = q]
      BY <1>1, <2>3
    <3>2. d \in Nat /\ cells = proc[i].cells - d /\ cells \in Int
      <4> HIDE DEF rest, item
      <4> QED BY <1>4, <1>5
    <3>3. Weight(item) = d + 0
      BY <1>5, <2>3 DEF Weight
    <3>4. call' = CellsEnd(i, d) \/ (d = 0 /\ call' = call)
      BY <2>3
    <3>5. OldAcks(pipe[i], q)
      BY <1>1, <1>5, PrintedAcks
    <3> HIDE DEF cells
    <3>6. p.line = rest.line /\ p.inbox = rest.inbox /\ p.cells = cells /\ p.mode = "idle"
      BY <1>4, <3>2 DEF Processes
    <3> HIDE DEF d, q, p, rest, item
    <3>7. Running(p) = 0
      BY <3>6 DEF Running
    <3>8. R(p, q, d)
      BY <1>4, <3>1, <3>2, <3>3, <3>4, <3>5, <3>6, <3>7 DEF OldAcks
    <3> HIDE DEF R
    <3> QED BY <3>2, <3>8
  <2> QED BY <2>1, <2>2, <2>3 DEF Reads
<1> HIDE DEF R
<1>a. PICK p, q : \E d \in Nat : R(p, q, d)
  BY <1>6
<1>b. PICK d \in Nat : R(p, q, d)
  BY <1>a
<1>7. proc'[i] = p /\ pipe'[i] = q
  BY <1>1, <1>b DEF R
<1> HIDE DEF rest
<1>8. ASSUME NEW c \in Callers
      PROVE  Onward(call[c], call'[c]) /\ (Interrupts(call'[c], i) => Less(call[c], call'[c], d))
  <2>1. CASE call' = CellsEnd(i, d)
    <3>1. Onward(call[c], call'[c]) /\ (call[c].on = i => Less(call[c], call'[c], d))
      BY <2>1, LessFacts DEF TransportInv
    <3> QED BY <3>1 DEF Interrupts, Onward
  <2>2. CASE d = 0 /\ call' = call
    <3>1. Onward(call[c], call'[c])
      BY <2>2, OnwardFacts DEF TransportInv
    <3>2. call[c].owe \in Int /\ call[c].owe >= 0
      BY <1>1, OweFacts DEF SoftInv, SoftCalls
    <3> QED BY <2>2, <3>1, <3>2 DEF Less, Owes, Onward
  <2> QED BY <1>b, <2>1, <2>2 DEF R
<1>9. ops =< ops'
  BY <1>1, <1>2
<1>10. SoftCalls(call', ops') /\ \A c \in Callers : Owes(call[c], call'[c])
  BY <1>8, <1>9, CallsGoOn DEF TransportInv, SoftInv
<1>11. SoftAt(i, proc'[i], pipe'[i], call', ops')
  <2>1. SoftAt(i, proc[i], pipe[i], call, ops) /\ SoftCalls(call, ops) /\ SoftCalls(call', ops)
    BY <1>2, <1>10 DEF SoftInv
  <2>2. p \in Processes /\ q \in Seq(Tokens)
    BY <1>1, <1>7
  <2> HIDE DEF item
  <2>3. SoftAt(i, p, q, call', ops)
    BY <1>1, <1>2, <1>b, <1>8, <2>1, <2>2, SoftShift DEF item, R
  <2> QED BY <1>2, <1>7, <2>3
<1>12. \A j \in Runtimes : j # i => Kept(j)
  BY <1>b, OthersKept DEF TransportInv, R
<1> QED BY <1>9, <1>10, <1>11, <1>12, SoftKeeps

\* A cell that ends, and a process that dies.
LEMMA SoftEnds ==
  ASSUME TransportInv, TransportInv', SoftInv, NEW i \in Runtimes, CellDone(i) \/ Dies(i)
  PROVE  SoftInv'
<1>1. proc[i] \in Processes /\ pipe[i] \in Seq(Tokens) /\ IsFiniteSet(proc[i].line)
      /\ proc \in [Runtimes -> Processes] /\ pipe \in [Runtimes -> Seq(Tokens)]
      /\ proc'[i] \in Processes /\ pipe'[i] \in Seq(Tokens) /\ ops \in Nat /\ ops' \in Nat
      /\ \A c \in Callers : call[c] \in Calls /\ call'[c] \in Calls
  BY TransportAssumption DEF TransportInv, TypeOK
<1>2. ops' = ops /\ ops =< ops'
  BY <1>1 DEF CellDone, Dies
<1>3. \A c \in Callers : Onward(call[c], call'[c])
  BY LessFacts DEF TransportInv, CellDone, Dies
<1>4. SoftCalls(call', ops') /\ \A c \in Callers : Owes(call[c], call'[c])
  BY <1>2, <1>3, CallsGoOn DEF TransportInv, SoftInv
<1>5. CASE CellDone(i)
  <2> DEFINE p == [proc[i] EXCEPT !.mode = "idle", !.cells = proc[i].cells - 1]
             q == Append(pipe[i], Prompt)
  <2>1. proc' = [proc EXCEPT ![i] = p] /\ pipe' = [pipe EXCEPT ![i] = q] /\ call' = CellsEnd(i, 1)
        /\ proc[i].mode = "busy"
    BY <1>1, <1>5 DEF CellDone
  <2>2. /\ p.line = proc[i].line /\ p.inbox = proc[i].inbox /\ p.cells = proc[i].cells - 1
        /\ p.mode = "idle"
    BY <1>1 DEF Processes
  <2>3. OldAcks(pipe[i], q)
    <3>1. Prompt \in Tokens /\ Prompt.what # "ack"
      BY DEF Prompt, Tokens, Item
    <3> QED BY <1>1, <3>1, PrintedAcks
  <2> HIDE DEF p, q
  <2>4. proc'[i] = p /\ pipe'[i] = q /\ p \in Processes /\ q \in Seq(Tokens)
    BY <1>1, <2>1
  <2>5. \A c \in Callers : Interrupts(call'[c], i) => Less(call[c], call'[c], 1)
    <3>1. \A c \in Callers : call[c].on = i => Less(call[c], call'[c], 1)
      BY <2>1, LessFacts DEF TransportInv
    <3> QED BY <1>3, <3>1 DEF Interrupts, Onward
  <2>6. SoftAt(i, proc[i], pipe[i], call, ops) /\ SoftCalls(call, ops) /\ SoftCalls(call', ops)
    BY <1>2, <1>4 DEF SoftInv
  <2>7. SoftAt(i, p, q, call', ops)
    BY <1>1, <1>2, <2>1, <2>2, <2>3, <2>4, <2>5, <2>6, SoftDone
  <2>8. \A j \in Runtimes : j # i => Kept(j)
    BY <2>1, OthersKept DEF TransportInv
  <2> QED BY <1>2, <1>4, <2>4, <2>7, <2>8, SoftKeeps
<1>6. CASE Dies(i)
  <2>1. proc' = [proc EXCEPT ![i] = Dying(proc[i])] /\ pipe' = [pipe EXCEPT ![i] = pipe[i]]
    BY <1>1, <1>6 DEF Dies
  <2>2. Over(i)
    <3>1. proc'[i] = Dying(proc[i]) /\ pipe'[i] = pipe[i]
      BY <1>1, <2>1
    <3>2. OldAcks(pipe[i], pipe'[i])
      BY <3>1 DEF OldAcks
    <3>3. /\ Dying(proc[i]).line = {} /\ Dying(proc[i]).inbox = <<>> /\ Dying(proc[i]).cells = 0
          /\ Dying(proc[i]).mode \notin UpModes
      BY <1>1, DyingIs
    <3> QED BY <3>1, <3>2, <3>3 DEF Over
  <2>3. \A j \in Runtimes : j # i => Kept(j)
    BY <2>1, OthersKept DEF TransportInv
  <2> QED BY <1>2, <1>4, <2>2, <2>3, SoftKeeps
<1> QED BY <1>5, <1>6

LEMMA SoftRuns ==
  ASSUME TransportInv, TransportInv', SoftInv, NEW i \in Runtimes, ProcessRuns(i)
  PROVE  SoftInv'
BY SoftIdles, SoftReads, SoftEnds DEF ProcessRuns

\* What a chunk read, and an end notified, do to a call.
LEMMA SoftReadFor ==
  ASSUME TransportInv, SoftInv, NEW i \in Runtimes, NEW c \in Callers, NEW prompts
  PROVE  Onward(call[c], ReadFor(i, call[c], prompts))
<1> DEFINE s == call[c]
           t == [s EXCEPT !.pc = "go"]
           u == [s EXCEPT !.probe = "answered", !.pc = IF s.pc = "answer" THEN "go" ELSE s.pc]
<1>1. s \in Calls /\ s.owe \in Int /\ s.owe >= 0
  BY OweFacts DEF TransportInv, TypeOK, SoftInv, SoftCalls
<1>2. t.nonce = s.nonce /\ t.answer = s.answer /\ t.owe = s.owe /\ t.op = s.op /\ t.on = s.on /\ t.probe = s.probe
  BY <1>1 DEF Calls
<1>3. u.nonce = s.nonce /\ u.answer = s.answer /\ u.owe = s.owe /\ u.op = s.op /\ u.on = s.on
  BY <1>1 DEF Calls
<1>4. ASSUME s.on = i, Answered(i, s), s.op = "interrupt" PROVE s.owe = 0
  <2>1. \E k \in DOMAIN pipe[i] : pipe[i][k] = Item("ack", s.nonce)
    BY <1>4 DEF Answered, AckAt
  <2>2. SoftAt(i, proc[i], pipe[i], call, ops)
    BY DEF SoftInv
  <2>3. PICK f : AllBehind(i, proc[i], pipe[i], call, f)
    BY <2>2 DEF SoftAt
  <2>4. Behind(s, proc[i], pipe[i], f)
    BY <1>4, <2>3 DEF AllBehind, Interrupts
  <2> QED BY <2>1, <2>4 DEF Behind
<1>5. \/ ReadFor(i, s, prompts) = s
      \/ ReadFor(i, s, prompts) = t
      \/ ReadFor(i, s, prompts) = u /\ s.on = i /\ Answered(i, s)
  BY DEF ReadFor
<1> HIDE DEF t, u, s
<1> QED BY <1>1, <1>2, <1>3, <1>4, <1>5 DEF Onward, s

LEMMA SoftNotified ==
  ASSUME TransportInv, SoftInv, NEW i, NEW c \in Callers, NEW why
  PROVE  Onward(call[c], NotifyWaiters(i, why, call[c]))
<1> DEFINE s == call[c]
           t == [s EXCEPT !.pc = "fail", !.probe = IF s.probe = "sent" THEN "failed" ELSE s.probe]
           u == [s EXCEPT !.probe = "failed"]
<1>1. s \in Calls /\ s.owe \in Int /\ s.owe >= 0
  BY OweFacts DEF TransportInv, TypeOK, SoftInv, SoftCalls
<1>2. /\ t.nonce = s.nonce /\ t.answer = s.answer /\ t.owe = s.owe /\ t.op = s.op /\ t.on = s.on
      /\ t.probe \in {"failed", s.probe}
  BY <1>1 DEF Calls
<1>3. /\ u.nonce = s.nonce /\ u.answer = s.answer /\ u.owe = s.owe /\ u.op = s.op /\ u.on = s.on
      /\ u.probe = "failed"
  BY <1>1 DEF Calls
<1>4. NotifyWaiters(i, why, s) \in {s, t, u}
  BY DEF NotifyWaiters
<1> HIDE DEF t, u, s
<1> QED BY <1>1, <1>2, <1>3, <1>4 DEF Onward, s

\* What the server reads and sees.
LEMMA SoftEvents ==
  ASSUME TransportInv, TransportInv', SoftInv, NEW i \in Runtimes, Events(i)
  PROVE  SoftInv'
<1>1. UNCHANGED <<proc, ops>> /\ ops =< ops'
  BY TransportAssumption DEF TransportInv, TypeOK, Events, Read, Exit, Close, Drain, Freed, StdinFails, SpawnFails
<1>2. \A j \in Runtimes : pipe'[j] \in {pipe[j], <<>>}
  <2>1. pipe' = pipe \/ pipe' = [pipe EXCEPT ![i] = <<>>]
    BY DEF Events, Read, Exit, Close, Drain, Freed, StdinFails, SpawnFails
  <2> QED BY <2>1 DEF TransportInv, TypeOK
<1>3. ASSUME NEW c \in Callers PROVE Onward(call[c], call'[c])
  <2>1. CASE Read(i)
    <3>1. PICK prompts : call' = [d \in Callers |-> ReadFor(i, call[d], prompts)]
      BY <2>1 DEF Read
    <3> QED BY <3>1, SoftReadFor
  <2>2. CASE ~Read(i)
    <3>1. UNCHANGED call \/ \E why : Notify(i, why)
      BY <2>2 DEF Events, Exit, Close, Drain, Freed, StdinFails, SpawnFails, Ended
    <3>2. call' = call \/ \E why : call' = [d \in Callers |-> NotifyWaiters(i, why, call[d])]
      BY <3>1 DEF Notify
    <3> QED BY <3>2, SoftNotified, OnwardFacts DEF TransportInv
  <2> QED BY <2>1, <2>2
<1> QED BY <1>1, <1>2, <1>3, SoftUnmoved

\* A caller's step that leaves the processes alone.
LEMMA SoftCaller ==
  ASSUME TransportInv, TransportInv', SoftInv, UNCHANGED <<proc, pipe>>, ops =< ops',
         NEW c \in Callers, NEW s, call' = [call EXCEPT ![c] = s],
         Onward(call[c], s) \/ Anew(s, ops')
  PROVE  SoftInv'
<1>1. call'[c] = s /\ \A d \in Callers : d # c => call'[d] = call[d]
  BY DEF TransportInv, TypeOK
<1>2. \A d \in Callers : Onward(call[d], call'[d]) \/ Anew(call'[d], ops')
  BY <1>1, OnwardFacts DEF TransportInv
<1> QED BY <1>2, SoftUnmoved

LEMMA PcFacts ==
  ASSUME TransportInv, SoftInv, NEW c \in Callers, NEW pc
  PROVE  /\ Onward(call[c], [call[c] EXCEPT !.pc = pc])
         /\ \A floored : Onward(call[c], [call[c] EXCEPT !.pc = pc, !.floored = floored])
         /\ \A stage : Onward(call[c], [call[c] EXCEPT !.pc = pc, !.stage = stage])
         /\ \A probe : probe # "answered" => Onward(call[c], [call[c] EXCEPT !.probe = probe])
         /\ \A probe : probe # "answered" => Onward(call[c], [call[c] EXCEPT !.pc = pc, !.probe = probe])
<1> DEFINE s == call[c]
<1>1. s \in Calls /\ s.owe \in Int /\ s.owe >= 0
  BY OweFacts DEF TransportInv, TypeOK, SoftInv, SoftCalls
<1> HIDE DEF s
<1>2. Onward(s, [s EXCEPT !.pc = pc])
  BY <1>1 DEF Onward, Calls
<1>3. \A floored : Onward(s, [s EXCEPT !.pc = pc, !.floored = floored])
  BY <1>1 DEF Onward, Calls
<1>4. \A stage : Onward(s, [s EXCEPT !.pc = pc, !.stage = stage])
  BY <1>1 DEF Onward, Calls
<1>5. \A probe : probe # "answered" => Onward(s, [s EXCEPT !.probe = probe])
  BY <1>1 DEF Onward, Calls
<1>6. \A probe : probe # "answered" => Onward(s, [s EXCEPT !.pc = pc, !.probe = probe])
  BY <1>1 DEF Onward, Calls
<1> QED BY <1>2, <1>3, <1>4, <1>5, <1>6 DEF s

LEMMA OpsFacts ==
  ASSUME TransportInv
  PROVE  /\ ops \in Nat /\ (UNCHANGED ops => ops' \in Nat /\ ops =< ops')
         /\ ops' = ops + 1 => ops' \in Nat /\ ops =< ops'
BY TransportAssumption DEF TransportInv, TypeOK

\* Those who wait, or whose runtime is gone, and those who begin with neither.
LEMMA SoftWaits ==
  ASSUME TransportInv, TransportInv', SoftInv, NEW c \in Callers,
         Subscribe(c) \/ Drains(c) \/ TimesOut(c) \/ ForcedEnds(c) \/ DumpEnds(c) \/ Start(c)
           \/ \E i \in Runtimes : InterruptsNone(c, i)
  PROVE  SoftInv'
<1>1. CASE Subscribe(c) \/ Drains(c) \/ TimesOut(c)
  <2>1. UNCHANGED <<proc, pipe>> /\ UNCHANGED ops
    BY <1>1 DEF Subscribe, Drains, TimesOut
  <2>2. call \in [Callers -> Calls] /\ ops' \in Nat /\ ops =< ops'
    BY <2>1, OpsFacts DEF TransportInv, TypeOK
  <2>3. Anew(End(c, "done"), ops')
    BY <2>2, OnwardFacts DEF TransportInv
  <2>4. /\ Onward(call[c], [call[c] EXCEPT !.pc = "fail"]) /\ Onward(call[c], [call[c] EXCEPT !.pc = "go"])
        /\ Onward(call[c], [call[c] EXCEPT !.probe = "failed"])
    BY PcFacts
  <2>5. \/ call' = [call EXCEPT ![c] = End(c, "done")]
        \/ call' = [call EXCEPT ![c] = [call[c] EXCEPT !.pc = "fail"]]
        \/ call' = [call EXCEPT ![c] = [call[c] EXCEPT !.pc = "go"]]
        \/ call' = [call EXCEPT ![c] = [call[c] EXCEPT !.probe = "failed"]]
    <3>1. CASE Subscribe(c)
      BY <2>2, <3>1 DEF Subscribe
    <3>2. CASE Drains(c)
      BY <2>2, <3>2 DEF Drains
    <3>3. CASE TimesOut(c)
      BY <2>2, <3>3 DEF TimesOut, Rejected
    <3> QED BY <1>1, <3>1, <3>2, <3>3
  <2> QED BY <2>1, <2>2, <2>3, <2>4, <2>5, SoftCaller
<1>2. CASE ForcedEnds(c) \/ DumpEnds(c)
  <2>1. UNCHANGED <<proc, pipe>> /\ UNCHANGED ops
    BY <1>2 DEF ForcedEnds, DumpEnds
  <2>2. \E answer : call' = [call EXCEPT ![c] = End(c, answer)]
    BY <1>2 DEF ForcedEnds, DumpEnds, Forget
  <2> QED BY <2>1, <2>2, OnwardFacts, OpsFacts, SoftCaller DEF TransportInv
<1>3. CASE Start(c)
  <2> DEFINE s == [Quiet EXCEPT !.op = "start", !.pc = "prepare"]
  <2>1. UNCHANGED <<proc, pipe>> /\ ops' = ops + 1 /\ call' = [call EXCEPT ![c] = s]
    BY <1>3 DEF Start, Begins
  <2>2. ops' \in Nat /\ ops =< ops'
    BY <2>1, OpsFacts
  <2>3. Anew(s, ops')
    BY <2>2 DEF Anew, Quiet
  <2> HIDE DEF s
  <2> QED BY <2>1, <2>2, <2>3, SoftCaller
<1>4. CASE \E i \in Runtimes : InterruptsNone(c, i)
  <2>1. UNCHANGED <<proc, pipe>> /\ ops' = ops + 1 /\ call' = [call EXCEPT ![c] = End(c, "recycle")]
    BY <1>4 DEF InterruptsNone, Begins
  <2> QED BY <2>1, OnwardFacts, OpsFacts, SoftCaller DEF TransportInv
<1> QED BY <1>1, <1>2, <1>3, <1>4

\* The advance of the PID counter, and its wrap.
LEMMA SoftAdvances ==
  ASSUME TransportInv, TransportInv', SoftInv, AdvanceEnds \/ Wraps
  PROVE  SoftInv'
<1>1. UNCHANGED <<proc, pipe>> /\ ops =< ops'
  BY OpsFacts DEF AdvanceEnds, Wraps
<1>2. ASSUME NEW c \in Callers PROVE Onward(call[c], call'[c])
  <2>1. \/ call'[c] = call[c]
        \/ \E ok : call'[c] = [call[c] EXCEPT !.pc = "advanced", !.floored = ok]
    BY DEF AdvanceEnds, Wraps
  <2>2. Onward(call[c], call[c])
    BY OnwardFacts DEF TransportInv
  <2>3. ASSUME NEW ok PROVE Onward(call[c], [call[c] EXCEPT !.pc = "advanced", !.floored = ok])
    BY PcFacts
  <2> QED BY <2>1, <2>2, <2>3
<1> QED BY <1>1, <1>2, SoftUnmoved

\* A step that writes nothing to runtime i: its queue stays, or it is gone.
StillHas(p, r) ==
    /\ r.line = p.line /\ r.inbox = p.inbox /\ r.cells = p.cells /\ r.mode = p.mode
Gone(r) == r.line = {} /\ r.inbox = <<>> /\ r.cells = 0 /\ r.mode \notin UpModes

LEMMA SoftOne ==
  ASSUME TransportInv, TransportInv', SoftInv, ops =< ops', UNCHANGED pipe, NEW i \in Runtimes, NEW p,
         proc' = [proc EXCEPT ![i] = p], StillHas(proc[i], p) \/ Gone(p),
         \A c \in Callers : Onward(call[c], call'[c]) \/ Anew(call'[c], ops')
  PROVE  SoftInv'
<1>1. SoftCalls(call', ops') /\ \A c \in Callers : Owes(call[c], call'[c])
  BY CallsGoOn DEF TransportInv, SoftInv
<1>2. proc'[i] = p /\ \A j \in Runtimes : j # i => proc'[j] = proc[j]
  BY DEF TransportInv, TypeOK
<1>3. \A j \in Runtimes : OldAcks(pipe[j], pipe'[j])
  BY DEF OldAcks
<1>4. Kept(i) \/ Over(i)
  BY <1>2, <1>3 DEF Kept, Over, StillHas, Gone
<1>5. \A j \in Runtimes : j # i => Kept(j)
  BY <1>2, <1>3 DEF Kept
<1> QED BY <1>1, <1>4, <1>5, SoftKeeps

LEMMA StillFacts ==
  ASSUME NEW p \in Processes
  PROVE  /\ StillHas(p, p) /\ Gone(Dying(p))
         /\ \A h : StillHas(p, [p EXCEPT !.holder = h])
         /\ \A h : Gone([Dying(p) EXCEPT !.holder = h])
<1>1. StillHas(p, p) /\ \A h : StillHas(p, [p EXCEPT !.holder = h])
  BY DEF StillHas, Processes
<1>2. Gone(Dying(p)) /\ \A h : Gone([Dying(p) EXCEPT !.holder = h])
  BY DEF Gone, Dying, Processes, UpModes
<1> QED BY <1>1, <1>2

\* Of one that is being ended, nobody waits for anything more.
LEMMA OverOnward ==
  ASSUME TransportInv, SoftInv, NEW i, NEW c \in Callers, NEW s, NEW n,
         call' = [OverFor(i) EXCEPT ![c] = s], Onward(call[c], s) \/ Anew(s, n)
  PROVE  \A d \in Callers : Onward(call[d], call'[d]) \/ Anew(call'[d], n)
<1>1. call'[c] = s /\ \A d \in Callers : d # c => call'[d] = OverFor(i)[d]
  BY DEF OverFor
<1>2. \A d \in Callers : Onward(call[d], OverFor(i)[d])
  BY LessFacts DEF TransportInv
<1> QED BY <1>1, <1>2

LEMMA CallOnward ==
  ASSUME TransportInv, SoftInv, NEW c \in Callers, NEW s, NEW n,
         call' = [call EXCEPT ![c] = s], Onward(call[c], s) \/ Anew(s, n)
  PROVE  \A d \in Callers : Onward(call[d], call'[d]) \/ Anew(call'[d], n)
<1>1. call'[c] = s /\ \A d \in Callers : d # c => call'[d] = call[d]
  BY DEF TransportInv, TypeOK
<1> QED BY <1>1, OnwardFacts DEF TransportInv

LEMMA SoftTerminates ==
  ASSUME TransportInv, TransportInv', SoftInv, NEW c \in Callers, NEW i \in Runtimes, NEW op,
         op # "interrupt", Terminates(c, i, op), ops =< ops', UNCHANGED pipe
  PROVE  SoftInv'
<1>1. proc[i] \in Processes /\ proc \in [Runtimes -> Processes] /\ ops' \in Nat
  BY TransportAssumption DEF TransportInv, TypeOK
<1>2. CASE life[i] = "live"
  <2> DEFINE s == [Quiet EXCEPT !.op = op, !.on = i, !.pc = "grace"]
  <2>1. call' = [OverFor(i) EXCEPT ![c] = s]
    BY <1>2 DEF Terminates
  <2>2. Anew(s, ops')
    BY <1>1 DEF Anew, Quiet
  <2> HIDE DEF s
  <2>3. \A d \in Callers : Onward(call[d], call'[d]) \/ Anew(call'[d], ops')
    BY <2>1, <2>2, OverOnward
  <2>4. proc' = [proc EXCEPT ![i] = proc[i]] \/ proc' = [proc EXCEPT ![i] = Dying(proc[i])]
    BY <1>1, <1>2 DEF Terminates
  <2>5. StillHas(proc[i], proc[i]) /\ Gone(Dying(proc[i]))
    BY <1>1, StillFacts
  <2> QED BY <2>3, <2>4, <2>5, SoftOne
<1>3. CASE life[i] # "live"
  <2>1. PICK h : proc' = [proc EXCEPT ![i] = [proc[i] EXCEPT !.holder = h]]
    BY <1>1, <1>3 DEF Terminates
  <2>2. \E answer : call' = [call EXCEPT ![c] = End(c, answer)]
    BY <1>3 DEF Terminates, Forget
  <2>3. \A answer : Anew(End(c, answer), ops')
    BY <1>1, OnwardFacts DEF TransportInv
  <2>4. \A d \in Callers : Onward(call[d], call'[d]) \/ Anew(call'[d], ops')
    BY <2>2, <2>3, CallOnward
  <2>5. StillHas(proc[i], [proc[i] EXCEPT !.holder = h])
    BY <1>1, StillFacts
  <2> QED BY <2>1, <2>4, <2>5, SoftOne
<1> QED BY <1>2, <1>3

\* A runtime that is terminated, or whose grace ends, or that is dumped.
LEMMA SoftEnding ==
  ASSUME TransportInv, TransportInv', SoftInv, NEW c \in Callers,
         GraceEnds(c) \/ RestorePolls(c) \/ \E i \in Runtimes : Terminate(c, i) \/ Snapshot(c, i)
  PROVE  SoftInv'
<1>1. /\ proc \in [Runtimes -> Processes] /\ \A i \in Runtimes : proc[i] \in Processes
      /\ proc'\in [Runtimes -> Processes] /\ launched \in Nat /\ ops' \in Nat /\ ops =< ops'
      /\ call \in [Callers -> Calls] /\ 1..launched \subseteq Runtimes
  <2>1. ops' = ops \/ ops' = ops + 1
    BY DEF GraceEnds, RestorePolls, Terminate, Snapshot, Begins
  <2>2. /\ proc \in [Runtimes -> Processes] /\ \A i \in Runtimes : proc[i] \in Processes
        /\ proc'\in [Runtimes -> Processes] /\ launched \in 0..MaxLaunches /\ MaxLaunches \in Nat
        /\ call \in [Callers -> Calls]
    BY TransportAssumption DEF TransportInv, TypeOK
  <2>3. launched \in Nat /\ 1..launched \subseteq Runtimes
    BY <2>2 DEF Runtimes
  <2> QED BY <2>1, <2>2, <2>3, OpsFacts
<1>2. CASE GraceEnds(c)
  <2> DEFINE i == call[c].on
  <2>1. call[c].pc \notin Early /\ call[c].on \in 0..MaxLaunches /\ call[c].on # 0
    BY <1>1, <1>2 DEF GraceEnds, Early, Calls, TransportInv, CallInv
  <2>2. i \in Runtimes
    BY <2>1, TransportAssumption DEF Runtimes
  <2>3. proc' = [proc EXCEPT ![i] = GroupKilled(i)] /\ UNCHANGED pipe
    BY <1>2 DEF GraceEnds
  <2>4. StillHas(proc[i], GroupKilled(i)) \/ Gone(GroupKilled(i))
    <3>1. \E h : \/ GroupKilled(i) = [Dying(proc[i]) EXCEPT !.holder = h]
                 \/ GroupKilled(i) = [proc[i] EXCEPT !.holder = h]
      BY DEF GroupKilled
    <3> QED BY <1>1, <2>2, <3>1, StillFacts
  <2>5. \A d \in Callers : Onward(call[d], call'[d]) \/ Anew(call'[d], ops')
    <3>1. CASE life[i] = "live"
      <4> DEFINE s == [OverFor(i)[c] EXCEPT !.pc = "forced"]
      <4>1. call' = [OverFor(i) EXCEPT ![c] = s]
        BY <1>2, <3>1 DEF GraceEnds, OverFor
      <4>2. Onward(call[c], OverFor(i)[c]) /\ OverFor(i)[c] \in Calls
        BY LessFacts, OwedFacts DEF TransportInv
      <4>3. Onward(call[c], s)
        <5>1. PICK t \in Calls : t = OverFor(i)[c]
          BY <4>2
        <5>2. Onward(call[c], [t EXCEPT !.pc = "forced"])
          BY <4>2, <5>1 DEF Onward, Calls
        <5> QED BY <5>1, <5>2
      <4> HIDE DEF s
      <4> QED BY <4>1, <4>3, OverOnward
    <3>2. CASE life[i] # "live"
      <4>1. \E answer : call' = [call EXCEPT ![c] = End(c, answer)]
        BY <1>2, <3>2 DEF GraceEnds, Forget
      <4>2. \A answer : Anew(End(c, answer), ops')
        BY <1>1, OnwardFacts DEF TransportInv
      <4> QED BY <4>1, <4>2, CallOnward
    <3> QED BY <3>1, <3>2
  <2> HIDE DEF i
  <2> QED BY <1>1, <2>2, <2>3, <2>4, <2>5, SoftOne
<1>3. CASE RestorePolls(c)
  <2> DEFINE i == call[c].on
  <2>1. call[c].pc = "restoring" /\ UNCHANGED pipe
    BY <1>3 DEF RestorePolls
  <2>2. call[c].pc \notin Early /\ call[c].on \in 0..MaxLaunches /\ call[c].on # 0
    BY <1>1, <2>1 DEF Early, Calls, TransportInv, CallInv
  <2>3. i \in Runtimes
    BY <2>2, TransportAssumption DEF Runtimes
  <2>4. CASE Terminates(c, i, "failing")
    BY <1>1, <2>1, <2>3, <2>4, SoftTerminates
  <2>5. CASE /\ UNCHANGED proc
             /\ \/ call' = [call EXCEPT ![c].pc = "prompted"]
                \/ call' = [call EXCEPT ![c] = End(c, "failed")]
    <3>1. Onward(call[c], [call[c] EXCEPT !.pc = "prompted"])
      BY PcFacts
    <3>2. Anew(End(c, "failed"), ops')
      BY <1>1, OnwardFacts DEF TransportInv
    <3>3. \/ call' = [call EXCEPT ![c] = [call[c] EXCEPT !.pc = "prompted"]]
          \/ call' = [call EXCEPT ![c] = End(c, "failed")]
      BY <1>1, <2>5
    <3> QED BY <1>1, <2>1, <2>5, <3>1, <3>2, <3>3, SoftCaller
  <2> QED BY <1>3, <2>4, <2>5 DEF RestorePolls
<1>4. CASE \E i \in Runtimes : Terminate(c, i)
  BY <1>1, <1>4, SoftTerminates DEF Terminate
<1>5. ASSUME NEW i \in Runtimes, Snapshot(c, i) PROVE SoftInv'
  <2> DEFINE s == [Quiet EXCEPT !.op = "snapshot", !.on = i, !.pc = "dumped"]
  <2>1. \/ /\ proc' = [proc EXCEPT ![i] = [Dying(proc[i]) EXCEPT !.holder = "none"]]
           /\ call' = [OverFor(i) EXCEPT ![c] = s]
        \/ /\ call' = [call EXCEPT ![c] = End(c, "failed")] /\ UNCHANGED proc
    BY <1>1, <1>5 DEF Snapshot
  <2>2. UNCHANGED pipe
    BY <1>5 DEF Snapshot
  <2>3. Anew(s, ops') /\ Anew(End(c, "failed"), ops')
    <3>1. Anew(s, ops')
      BY <1>1 DEF Anew, Quiet
    <3> QED BY <1>1, <3>1, OnwardFacts DEF TransportInv
  <2> HIDE DEF s
  <2>4. CASE /\ proc' = [proc EXCEPT ![i] = [Dying(proc[i]) EXCEPT !.holder = "none"]]
             /\ call' = [OverFor(i) EXCEPT ![c] = s]
    <3>1. \A d \in Callers : Onward(call[d], call'[d]) \/ Anew(call'[d], ops')
      BY <2>3, <2>4, OverOnward
    <3>2. Gone([Dying(proc[i]) EXCEPT !.holder = "none"])
      BY <1>1, StillFacts
    <3> QED BY <1>1, <2>2, <2>4, <3>1, <3>2, SoftOne
  <2>5. CASE call' = [call EXCEPT ![c] = End(c, "failed")] /\ UNCHANGED proc
    BY <1>1, <2>2, <2>3, <2>5, SoftCaller
  <2> QED BY <2>1, <2>4, <2>5
<1> QED BY <1>2, <1>3, <1>4, <1>5

\* A runtime that is launched, of which nobody waits for anything yet.
LEMMA SoftLaunch ==
  ASSUME TransportInv, TransportInv', SoftInv, NEW c \in Callers, NEW restoring, NEW then \in Calls,
         Launch(c, restoring, then), Anew(then, ops'), UNCHANGED pipe, ops =< ops'
  PROVE  SoftInv'
<1> DEFINE i == launched + 1
           s == [then EXCEPT !.on = i, !.floored = FALSE]
<1>1. /\ launched < MaxLaunches /\ call' = [call EXCEPT ![c] = s]
      /\ \E m : proc' = [proc EXCEPT ![i].mode = m] /\ m # "busy"
  <2>1. launched < MaxLaunches /\ call' = [call EXCEPT ![c] = s]
    BY DEF Launch
  <2>2. \/ proc' = [proc EXCEPT ![i].mode = IF restoring THEN "criu" ELSE "start"]
        \/ proc' = [proc EXCEPT ![i].mode = "failed"]
    BY DEF Launch
  <2>3. \A b : (IF b THEN "criu" ELSE "start") # "busy" /\ "failed" # "busy"
    OBVIOUS
  <2> QED BY <2>1, <2>2, <2>3
<1>2. /\ launched \in Nat /\ MaxLaunches \in Nat /\ i \in Runtimes
  BY <1>1, TransportAssumption DEF TransportInv, TypeOK, Runtimes
<1>3. /\ proc[i] \in Processes /\ proc \in [Runtimes -> Processes] /\ pipe[i] \in Seq(Tokens)
      /\ proc'[i] \in Processes /\ proc[i].mode = "none" /\ ops \in Nat /\ ops' \in Nat
      /\ call \in [Callers -> Calls] /\ \A d \in Callers : call[d] \in Calls /\ call'[d] \in Calls
  <2>1. proc[i].mode = "none"
    BY <1>2 DEF TransportInv, LifeInv, ProcInv
  <2> HIDE DEF i
  <2> QED BY <1>2, <2>1, TransportAssumption DEF TransportInv, TypeOK
<1>4. s.op = then.op /\ s.nonce = then.nonce /\ s.owe = then.owe /\ s.answer = then.answer
  BY DEF Calls
<1>5. \A d \in Callers : d # c => call[d].on # i
  <2>1. \A d \in Callers : call[d].on =< launched /\ call[d].on \in 0..MaxLaunches
    BY <1>3 DEF TransportInv, CallInv, Calls
  <2> QED BY <1>2, <2>1
<1>6. PICK m : proc' = [proc EXCEPT ![i].mode = m] /\ m # "busy"
  BY <1>1
<1> DEFINE p == [proc[i] EXCEPT !.mode = m]
<1>7. /\ proc' = [proc EXCEPT ![i] = p] /\ p.line = proc[i].line /\ p.inbox = proc[i].inbox
      /\ p.cells = proc[i].cells /\ p.mode = m
  <2> HIDE DEF i
  <2> QED BY <1>2, <1>3, <1>6 DEF Processes
<1> HIDE DEF i, p, s
<1>8. Anew(s, ops')
  BY <1>4 DEF Anew
<1>9. \A d \in Callers : Onward(call[d], call'[d]) \/ Anew(call'[d], ops')
  BY <1>1, <1>8, CallOnward
<1>10. SoftCalls(call', ops') /\ \A d \in Callers : Owes(call[d], call'[d])
  BY <1>9, CallsGoOn DEF TransportInv, SoftInv
<1>11. proc'[i] = p /\ \A j \in Runtimes : j # i => proc'[j] = proc[j]
  BY <1>2, <1>3, <1>7
<1>12. \A j \in Runtimes : OldAcks(pipe[j], pipe'[j])
  BY DEF OldAcks
<1>13. \A d \in Callers : ~Interrupts(call'[d], i)
  <2>1. call'[c] = s /\ \A d \in Callers : d # c => call'[d] = call[d]
    BY <1>1, <1>3
  <2> QED BY <1>5, <1>8, <2>1 DEF Interrupts, Anew
<1>14. SoftAt(i, proc'[i], pipe'[i], call', ops')
  <2>1. SoftAt(i, proc[i], pipe[i], call, ops) /\ SoftCalls(call, ops)
    BY <1>2 DEF SoftInv
  <2>2. p.mode = "busy" <=> proc[i].mode = "busy"
    BY <1>3, <1>6, <1>7
  <2>3. SoftAt(i, p, pipe[i], call', ops')
    BY <1>2, <1>3, <1>7, <1>10, <1>11, <1>12, <1>13, <2>1, <2>2, SoftStill
  <2> QED BY <1>11, <2>3
<1>15. \A j \in Runtimes : j # i => Kept(j)
  BY <1>11, <1>12 DEF Kept
<1> QED BY <1>10, <1>14, <1>15, SoftKeeps

LEMMA SoftStarts ==
  ASSUME TransportInv, TransportInv', SoftInv, NEW c \in Callers,
         Prepared(c) \/ Advanced(c) \/ Restore(c)
  PROVE  SoftInv'
<1>1. call[c] \in Calls /\ call \in [Callers -> Calls] /\ ops' \in Nat /\ ops \in Nat
  BY TransportAssumption DEF TransportInv, TypeOK
<1>2. CASE Prepared(c) \/ Advanced(c)
  <2> DEFINE then == [call[c] EXCEPT !.pc = "prompt", !.stage = "prompt"]
  <2>1. call[c].pc \in {"prepare", "advanced"} /\ UNCHANGED <<pipe, ops>> /\ ops =< ops'
    BY <1>1, <1>2, OpsFacts DEF Prepared, Advanced
  <2>2. call[c].op # "interrupt"
    BY <2>1 DEF TransportInv, CallInv, Interrupting
  <2>3. then \in Calls /\ Anew(then, ops')
    <3>1. /\ then \in Calls /\ then.op = call[c].op /\ then.nonce = call[c].nonce
          /\ then.owe = call[c].owe /\ then.answer = call[c].answer
      BY <1>1 DEF Calls, Pcs
    <3>2. /\ call[c].nonce =< ops /\ call[c].owe >= 0
          /\ call[c].answer = "soft" => call[c].owe = 0
      BY DEF SoftInv, SoftCalls
    <3> HIDE DEF then
    <3> QED BY <2>1, <2>2, <3>1, <3>2 DEF Anew
  <2>4. CASE Launch(c, FALSE, then)
    BY <2>1, <2>3, <2>4, SoftLaunch
  <2>5. CASE /\ UNCHANGED proc
             /\ \/ call' = [call EXCEPT ![c].pc = "advance"]
                \/ call' = [call EXCEPT ![c] = End(c, "failed")]
    <3>1. Onward(call[c], [call[c] EXCEPT !.pc = "advance"])
      BY PcFacts
    <3>2. Anew(End(c, "failed"), ops')
      BY <1>1, OnwardFacts DEF TransportInv
    <3>3. \/ call' = [call EXCEPT ![c] = [call[c] EXCEPT !.pc = "advance"]]
          \/ call' = [call EXCEPT ![c] = End(c, "failed")]
      BY <1>1, <2>5
    <3> QED BY <2>1, <2>5, <3>1, <3>2, <3>3, SoftCaller
  <2> HIDE DEF then
  <2> QED BY <1>2, <2>4, <2>5 DEF Prepared, Advanced, then
<1>3. CASE Restore(c)
  <2> DEFINE then == [Quiet EXCEPT !.op = "restore", !.pc = "restoring"]
  <2>1. Launch(c, TRUE, then) /\ UNCHANGED pipe /\ ops =< ops'
    BY <1>3, OpsFacts DEF Restore, Begins
  <2>2. then \in Calls /\ Anew(then, ops')
    <3>1. then \in Calls
      BY NothingFacts DEF Calls, Pcs
    <3>2. then.op = "restore" /\ then.nonce = 0 /\ then.owe = 0
      BY DEF Quiet
    <3> HIDE DEF then
    <3> QED BY <1>1, <3>1, <3>2 DEF Anew
  <2> HIDE DEF then
  <2> QED BY <2>1, <2>2, SoftLaunch
<1> QED BY <1>2, <1>3

LEMMA OwesSelf ==
  ASSUME NEW s \in Calls
  PROVE  Owes(s, s)
BY OweFacts DEF Owes

LEMMA OthersSame ==
  ASSUME TypeOK, UNCHANGED pipe, NEW i, NEW p, proc' = [proc EXCEPT ![i] = p], NEW j \in Runtimes, j # i
  PROVE  Kept(j)
<1>1. proc'[j] = proc[j] /\ pipe'[j] = pipe[j]
  BY DEF TypeOK
<1> QED BY <1>1 DEF Kept, OldAcks

\* A chunk that is written: typed, and submitted where its newline is.
LEMMA SoftSends ==
  ASSUME TransportInv, TransportInv', SoftInv, NEW c \in Callers, NEW i \in Runtimes, NEW item \in Items,
         NEW stage \in Calls, Sends(c, i, item, stage), item.what \in {"cell", "probe"},
         item.nonce =< ops', item.what = "cell" => item.nonce > ops, ops =< ops', UNCHANGED pipe,
         Onward(call[c], stage) \/ Anew(stage, ops')
  PROVE  SoftInv'
<1>1. /\ proc[i] \in Processes /\ IsFiniteSet(proc[i].line) /\ proc \in [Runtimes -> Processes]
      /\ pipe[i] \in Seq(Tokens) /\ ops \in Nat /\ ops' \in Nat
      /\ call \in [Callers -> Calls] /\ \A d \in Callers : call[d] \in Calls /\ call'[d] \in Calls
  BY TransportAssumption DEF TransportInv, TypeOK
<1>2. \E pc : call' = [call EXCEPT ![c] = [stage EXCEPT !.pc = pc]]
  BY DEF Sends
<1>3. \A pc : Onward(call[c], [stage EXCEPT !.pc = pc]) \/ Anew([stage EXCEPT !.pc = pc], ops')
  BY DEF Onward, Anew, Calls
<1>4. \A d \in Callers : Onward(call[d], call'[d]) \/ Anew(call'[d], ops')
  <2>1. PICK s : call' = [call EXCEPT ![c] = s] /\ (Onward(call[c], s) \/ Anew(s, ops'))
    BY <1>2, <1>3
  <2> QED BY <2>1, CallOnward
<1>5. SoftCalls(call', ops') /\ \A d \in Callers : Owes(call[d], call'[d])
  BY <1>4, CallsGoOn DEF TransportInv, SoftInv
<1>6. SoftAt(i, proc[i], pipe[i], call, ops) /\ SoftCalls(call, ops)
  BY DEF SoftInv
<1> DEFINE n == IF item.what = "cell" THEN proc[i].cells + 1 ELSE proc[i].cells
           l == proc[i].line \cup {item}
           typed == [proc[i] EXCEPT !.line = l, !.cells = n]
<1>7. CASE ~Up(i)
  <2>1. proc' = proc
    BY <1>1, <1>7 DEF Sends
  <2>2. \A j \in Runtimes : pipe'[j] \in {pipe[j], <<>>}
    OBVIOUS
  <2> QED BY <1>4, <2>1, <2>2, SoftUnmoved
<1>8. CASE Up(i)
  <2>1. proc' = [proc EXCEPT ![i] = IF LineDelay THEN typed ELSE Submitted(typed)]
    BY <1>1, <1>8 DEF Sends
  <2>2. n \in Int /\ l \in SUBSET Items /\ IsFiniteSet(l)
    <3>1. proc[i].cells \in Int /\ proc[i].line \in SUBSET Items
      BY <1>1 DEF Processes
    <3>2. IsFiniteSet(l)
      BY <1>1, FS_AddElement
    <3> QED BY <3>1, <3>2
  <2>3. /\ typed \in Processes /\ typed.line = l /\ typed.inbox = proc[i].inbox /\ typed.cells = n
        /\ typed.mode = proc[i].mode
    <3> HIDE DEF Items, n, l
    <3> QED BY <1>1, <2>2 DEF Processes
  <2> HIDE DEF typed
  <2>4. SoftAt(i, typed, pipe[i], call', ops')
    <3>1. \A d \in Callers : Interrupts(call'[d], i) => Owes(call[d], call'[d])
      BY <1>5
    <3> QED BY <1>1, <1>5, <1>6, <2>3, <3>1, SoftTyped
  <2>5. SoftAt(i, Submitted(typed), pipe[i], call', ops')
    <3>1. typed.mode \in UpModes
      BY <1>8, <2>3 DEF Up, UpModes
    <3>2. \A d \in Callers : Interrupts(call'[d], i) => Owes(call'[d], call'[d])
      BY <1>1, OwesSelf
    <3>3. IsFiniteSet(typed.line)
      BY <2>2, <2>3
    <3> QED BY <1>1, <1>5, <2>3, <2>4, <3>1, <3>2, <3>3, SoftSubmitted
  <2>6. SoftAt(i, proc'[i], pipe'[i], call', ops')
    <3>1. proc'[i] = IF LineDelay THEN typed ELSE Submitted(typed)
      BY <1>1, <2>1
    <3> QED BY <2>4, <2>5, <3>1
  <2>7. \A j \in Runtimes : j # i => Kept(j)
    BY <2>1, OthersSame DEF TransportInv
  <2> QED BY <1>5, <2>6, <2>7, SoftKeeps
<1> QED BY <1>7, <1>8

\* A line's newline.
LEMMA SoftSubmits ==
  ASSUME TransportInv, TransportInv', SoftInv, NEW c \in Callers, Submit(c)
  PROVE  SoftInv'
<1> DEFINE i == call[c].on
<1>1. UNCHANGED <<pipe, ops>> /\ ops =< ops' /\ call[c].pc = "delay"
  BY OpsFacts DEF Submit
<1>2. i \in Runtimes
  <2>1. call[c].pc \notin Early /\ call[c].on \in 0..MaxLaunches /\ call[c].on # 0
    BY <1>1 DEF Early, Calls, TransportInv, CallInv, TypeOK
  <2> QED BY <2>1, TransportAssumption DEF Runtimes
<1> HIDE DEF i
<1>3. /\ proc[i] \in Processes /\ IsFiniteSet(proc[i].line) /\ proc \in [Runtimes -> Processes]
      /\ pipe[i] \in Seq(Tokens) /\ ops \in Nat
      /\ call \in [Callers -> Calls] /\ \A d \in Callers : call[d] \in Calls /\ call'[d] \in Calls
  BY <1>2, TransportAssumption DEF TransportInv, TypeOK
<1>4. \E pc : call' = [call EXCEPT ![c] = [call[c] EXCEPT !.pc = pc]]
  BY <1>3 DEF Submit
<1>5. \A d \in Callers : Onward(call[d], call'[d]) \/ Anew(call'[d], ops')
  BY <1>4, PcFacts, CallOnward
<1>6. SoftCalls(call', ops') /\ \A d \in Callers : Owes(call[d], call'[d])
  BY <1>1, <1>5, CallsGoOn DEF TransportInv, SoftInv
<1>7. CASE proc' = proc
  <2>1. \A j \in Runtimes : pipe'[j] \in {pipe[j], <<>>}
    BY <1>1
  <2> QED BY <1>1, <1>5, <1>7, <2>1, SoftUnmoved
<1>8. CASE Up(i) /\ proc' = [proc EXCEPT ![i] = Submitted(proc[i])]
  <2>1. SoftAt(i, proc[i], pipe[i], call, ops) /\ SoftCalls(call, ops) /\ SoftCalls(call', ops)
    BY <1>1, <1>2, <1>6 DEF SoftInv
  <2>2. SoftAt(i, Submitted(proc[i]), pipe[i], call', ops)
    <3>1. proc[i].mode \in UpModes
      BY <1>8 DEF Up, UpModes
    <3>2. \A d \in Callers : Interrupts(call'[d], i) => Owes(call[d], call'[d])
      BY <1>6
    <3> QED BY <1>3, <2>1, <3>1, <3>2, SoftSubmitted
  <2>3. SoftAt(i, proc'[i], pipe'[i], call', ops')
    BY <1>1, <1>2, <1>3, <1>8, <2>2
  <2>4. \A j \in Runtimes : j # i => Kept(j)
    BY <1>1, <1>8, OthersSame DEF TransportInv
  <2> QED BY <1>1, <1>6, <2>3, <2>4, SoftKeeps
<1>9. proc' = proc \/ (Up(i) /\ proc' = [proc EXCEPT ![i] = Submitted(proc[i])])
  BY <1>3 DEF Submit, i
<1> QED BY <1>7, <1>8, <1>9

\* A probe is sent, or fails.
LEMMA SoftProbes ==
  ASSUME TransportInv, TransportInv', SoftInv, NEW c \in Callers, NEW state \in Calls,
         state.on \in Runtimes, Probe(c, state), state.nonce =< ops', ops =< ops', UNCHANGED pipe,
         Onward(call[c], state) \/ Anew(state, ops')
  PROVE  SoftInv'
<1> DEFINE waiting == [state EXCEPT !.probe = "sent", !.stage = "probe"]
           failing == [state EXCEPT !.pc = "fail", !.probe = "none"]
<1>1. waiting \in Calls /\ (Onward(call[c], waiting) \/ Anew(waiting, ops'))
  BY DEF Calls, Onward, Anew
<1>2. Onward(call[c], failing) \/ Anew(failing, ops')
  BY DEF Calls, Onward, Anew
<1>3. \/ Sends(c, state.on, Item("probe", state.nonce), waiting)
      \/ call' = [call EXCEPT ![c] = failing] /\ UNCHANGED proc
  BY DEF Probe
<1> HIDE DEF waiting, failing
<1>4. CASE Sends(c, state.on, Item("probe", state.nonce), waiting)
  <2> DEFINE item == Item("probe", state.nonce)
  <2>1. item \in Items /\ item.what = "probe" /\ item.nonce = state.nonce
    BY DEF Item, Items, Calls
  <2> HIDE DEF item
  <2>2. Sends(c, state.on, item, waiting)
    BY <1>4 DEF item
  <2> QED BY <1>1, <2>1, <2>2, SoftSends
<1>5. CASE call' = [call EXCEPT ![c] = failing] /\ UNCHANGED proc
  BY <1>2, <1>5, SoftCaller
<1> QED BY <1>3, <1>4, <1>5

LEMMA SoftWrites ==
  ASSUME TransportInv, TransportInv', SoftInv, NEW c \in Callers, NEW i \in Runtimes,
         WriteCell(c, i) \/ CollectGarbage(c, i)
  PROVE  SoftInv'
<1>1. /\ ops' = ops + 1 /\ ops' \in Nat /\ ops \in Nat /\ ops =< ops' /\ UNCHANGED pipe
      /\ i \in 0..MaxLaunches
  <2>1. ops' = ops + 1 /\ UNCHANGED pipe
    BY DEF WriteCell, CollectGarbage, Begins
  <2> QED BY <2>1, OpsFacts, TransportAssumption DEF Runtimes
<1>2. CASE WriteCell(c, i)
  <2> DEFINE s == [Quiet EXCEPT !.op = "write", !.on = i, !.stage = "write"]
             item == Item("cell", ops')
  <2>1. Sends(c, i, item, s)
    BY <1>2 DEF WriteCell
  <2>2. s \in Calls /\ Anew(s, ops')
    <3>1. s.op = "write" /\ s.nonce = 0 /\ s.owe = 0
      BY DEF Quiet
    <3>2. s \in Calls
      BY <1>1, WritingFacts
    <3> HIDE DEF s
    <3> QED BY <1>1, <3>1, <3>2 DEF Anew
  <2>3. item \in Items /\ item.what = "cell" /\ item.nonce = ops' /\ ops' > ops /\ ops' =< ops'
    BY <1>1 DEF Item, Items
  <2> HIDE DEF s, item
  <2> QED BY <1>1, <2>1, <2>2, <2>3, SoftSends
<1>3. CASE CollectGarbage(c, i)
  <2> DEFINE s == [Quiet EXCEPT !.op = "collect", !.on = i, !.nonce = ops']
  <2>1. Probe(c, s)
    BY <1>3 DEF CollectGarbage
  <2>2. s \in Calls /\ Anew(s, ops') /\ s.on = i /\ s.nonce =< ops'
    <3>1. s.op = "collect" /\ s.nonce = ops' /\ s.owe = 0 /\ s.on = i
      BY DEF Quiet
    <3>2. s \in Calls
      BY <1>1, CollectingFacts
    <3> HIDE DEF s
    <3> QED BY <1>1, <3>1, <3>2 DEF Anew
  <2> HIDE DEF s
  <2> QED BY <1>1, <2>1, <2>2, SoftProbes
<1> QED BY <1>2, <1>3

\* An interrupt answers `soft` only as its probe was answered.
LEMMA SoftAnswers ==
  ASSUME TransportInv, TransportInv', SoftInv, NEW c \in Callers, NEW answer, Answer(c, answer),
         answer = "soft" => call[c].op = "interrupt" /\ call[c].probe = "answered" /\ call[c].on \in Runtimes,
         UNCHANGED <<proc, pipe, ops>>
  PROVE  SoftInv'
<1> DEFINE s == [End(c, answer) EXCEPT !.owe = call[c].owe]
<1>1. call[c].owe \in Int /\ call[c].owe >= 0 /\ ops' \in Nat /\ ops =< ops'
  BY OweFacts, OpsFacts DEF TransportInv, TypeOK, SoftInv, SoftCalls
<1>2. answer = "soft" => call[c].owe = 0
  <2>1. SUFFICES ASSUME answer = "soft" PROVE call[c].owe = 0
    OBVIOUS
  <2>2. PICK i \in Runtimes : call[c].on = i /\ Interrupts(call[c], i) /\ call[c].probe = "answered"
    BY <2>1 DEF Interrupts
  <2>3. PICK f : AllBehind(i, proc[i], pipe[i], call, f)
    BY DEF SoftInv, SoftAt
  <2> QED BY <2>2, <2>3 DEF AllBehind, Behind
<1>3. Anew(s, ops')
  <2>1. /\ s.op = "none" /\ s.nonce = 0 /\ s.owe = call[c].owe
        /\ s.answer = "soft" => answer = "soft"
    BY DEF End, Quiet
  <2> HIDE DEF s
  <2> QED BY <1>1, <1>2, <2>1 DEF Anew
<1>4. call' = [call EXCEPT ![c] = s]
  BY DEF Answer
<1> HIDE DEF s
<1> QED BY <1>1, <1>3, <1>4, SoftCaller

LEMMA SoftGoesOn ==
  ASSUME TransportInv, TransportInv', SoftInv, NEW c \in Callers, GoesOn(c) \/ Fails(c)
  PROVE  SoftInv'
<1> DEFINE i == call[c].on
<1>1. /\ UNCHANGED <<pipe, ops>> /\ ops \in Nat /\ ops' \in Nat /\ ops =< ops'
      /\ call[c].pc \in {"go", "fail"} /\ call[c] \in Calls /\ call \in [Callers -> Calls]
  <2>1. UNCHANGED <<pipe, ops>> /\ call[c].pc \in {"go", "fail"}
    BY DEF GoesOn, Fails
  <2> QED BY <2>1, OpsFacts DEF TransportInv, TypeOK
<1>2. i \in Runtimes
  <2>1. call[c].pc \notin Early /\ call[c].on \in 0..MaxLaunches /\ call[c].on # 0
    BY <1>1 DEF Early, Calls, TransportInv, CallInv
  <2> QED BY <2>1, TransportAssumption DEF Runtimes
<1>3. Onward(call[c], call[c]) /\ (\A answer : Anew(End(c, answer), ops')) /\ call[c].nonce =< ops'
  <2>1. Onward(call[c], call[c]) /\ \A answer : Anew(End(c, answer), ops')
    BY <1>1, OnwardFacts DEF TransportInv
  <2> QED BY <1>1, <2>1 DEF SoftInv, SoftCalls
<1> HIDE DEF i
<1>4. CASE GoesOn(c)
  <2>1. CASE Probe(c, call[c])
    BY <1>1, <1>2, <1>3, <2>1, SoftProbes DEF i
  <2>2. CASE UNCHANGED proc /\ \E answer : call' = [call EXCEPT ![c] = End(c, answer)]
    BY <1>1, <1>3, <2>2, SoftCaller
  <2>3. CASE UNCHANGED proc /\ \E pc : call' = [call EXCEPT ![c].pc = pc]
    <3>1. PICK pc : call' = [call EXCEPT ![c] = [call[c] EXCEPT !.pc = pc]]
      BY <1>1, <2>3
    <3>2. Onward(call[c], [call[c] EXCEPT !.pc = pc])
      BY PcFacts
    <3> QED BY <1>1, <2>3, <3>1, <3>2, SoftCaller
  <2>4. CASE UNCHANGED proc /\ call' = [call EXCEPT ![c] = AwaitPrompt(call[c])]
    <3>1. \E pc : AwaitPrompt(call[c]) = [call[c] EXCEPT !.pc = pc, !.stage = "prompt"]
      BY <1>1 DEF AwaitPrompt, Calls
    <3>2. \A pc : Onward(call[c], [call[c] EXCEPT !.pc = pc, !.stage = "prompt"])
      BY PcFacts
    <3>3. Onward(call[c], AwaitPrompt(call[c]))
      BY <3>1, <3>2
    <3> QED BY <1>1, <2>4, <3>3, SoftCaller
  <2>5. CASE /\ call[c].probe = "answered" /\ call[c].op = "interrupt" /\ UNCHANGED proc
             /\ \E answer : Answer(c, answer)
    BY <1>1, <1>2, <2>5, SoftAnswers DEF i
  <2>6. \/ Probe(c, call[c])
        \/ UNCHANGED proc /\ \E answer : call' = [call EXCEPT ![c] = End(c, answer)]
        \/ UNCHANGED proc /\ \E pc : call' = [call EXCEPT ![c].pc = pc]
        \/ UNCHANGED proc /\ call' = [call EXCEPT ![c] = AwaitPrompt(call[c])]
        \/ /\ call[c].probe = "answered" /\ call[c].op = "interrupt" /\ UNCHANGED proc
           /\ \E answer : Answer(c, answer)
    BY <1>4 DEF GoesOn
  <2> QED BY <2>1, <2>2, <2>3, <2>4, <2>5, <2>6
<1>5. CASE Fails(c)
  <2>1. CASE Terminates(c, i, "failing")
    BY <1>1, <1>2, <2>1, SoftTerminates
  <2>2. CASE UNCHANGED proc /\ Answer(c, "recycle")
    BY <1>1, <2>2, SoftAnswers
  <2>3. CASE UNCHANGED proc /\ call' = [call EXCEPT ![c] = End(c, "failed")]
    BY <1>1, <1>3, <2>3, SoftCaller
  <2>4. \/ Terminates(c, i, "failing")
        \/ UNCHANGED proc /\ Answer(c, "recycle")
        \/ UNCHANGED proc /\ call' = [call EXCEPT ![c] = End(c, "failed")]
    BY <1>5 DEF Fails, i
  <2> QED BY <2>1, <2>2, <2>3, <2>4
<1> QED BY <1>4, <1>5

LEMMA CellsNat ==
  ASSUME NEW i, NEW p \in Processes, NEW q, NEW calls, NEW m, SoftAt(i, p, q, calls, m), IsFiniteSet(p.line)
  PROVE  p.cells \in Nat /\ (p.mode = "busy" => p.cells >= 1)
<1>1. PICK f : Ahead(f, p)
  BY DEF SoftAt
<1>2. Len(p.inbox) \in 0..Len(p.inbox)
  BY SeqFacts
<1>3. /\ f[Len(p.inbox)] \in Nat /\ f[Len(p.inbox)] >= Running(p)
      /\ p.cells = f[Len(p.inbox)] + CellsIn(p.line) /\ CellsIn(p.line) \in Nat
  BY <1>1, <1>2, AheadFacts, CellsFact DEF Ahead
<1> QED BY <1>3 DEF Running

\* One who interrupts waits for all the runtime holds, once it was interrupted.
LEMMA SoftInterrupts ==
  ASSUME TransportInv, TransportInv', SoftInv, NEW c \in Callers, NEW i \in Runtimes, Interrupt(c, i)
  PROVE  SoftInv'
<1> DEFINE refused == InterruptStrategy[kind] = "write_ctrl_c" /\ terminal[i] # "none"
           X == IF proc'[i].cells < proc[i].cells THEN CellsEnd(i, 1) ELSE call
           s == [Quiet EXCEPT !.op = "interrupt", !.on = i, !.seen = broker[i].prompts,
                              !.nonce = ops', !.owe = proc'[i].cells, !.stage = "ctrlC",
                              !.pc = IF refused THEN "fail" ELSE "go"]
<1>1. call' = [X EXCEPT ![c] = s] /\ Reacts(i) /\ ops' = ops + 1
  BY DEF Interrupt, Reacts, Begins
<1>2. /\ proc[i] \in Processes /\ proc'[i] \in Processes /\ IsFiniteSet(proc[i].line)
      /\ proc \in [Runtimes -> Processes] /\ pipe \in [Runtimes -> Seq(Tokens)]
      /\ pipe[i] \in Seq(Tokens) /\ pipe'[i] \in Seq(Tokens)
      /\ call \in [Callers -> Calls] /\ \A d \in Callers : call[d] \in Calls /\ call'[d] \in Calls
      /\ ops \in Nat /\ ops' \in Nat /\ ops =< ops' /\ ops < ops'
  <2>1. ops \in Nat /\ ops' \in Nat /\ ops =< ops' /\ ops < ops'
    BY <1>1, OpsFacts
  <2> QED BY <2>1 DEF TransportInv, TypeOK
<1>3. s.op = "interrupt" /\ s.on = i /\ s.nonce = ops' /\ s.owe = proc'[i].cells /\ s.probe = "none"
      /\ s.answer = "none"
  BY DEF Quiet
<1> HIDE DEF s
<1>4. X \in [Callers -> Calls] /\ \A d \in Callers : Onward(call[d], X[d])
  BY <1>2, OwedFacts, LessFacts, OnwardFacts DEF TransportInv
<1>5. call'[c] = s /\ \A d \in Callers : d # c => call'[d] = X[d] /\ Onward(call[d], call'[d])
  <2> HIDE DEF X
  <2> QED BY <1>1, <1>4
<1>6. SoftAt(i, proc[i], pipe[i], call, ops) /\ SoftCalls(call, ops)
  BY DEF SoftInv
<1>7. proc[i].cells \in Nat /\ (proc[i].mode = "busy" => proc[i].cells >= 1)
  BY <1>2, <1>6, CellsNat
<1>8. ASSUME NEW d \in Callers, d # c PROVE Owes(call[d], call'[d])
  BY <1>5, <1>8 DEF Onward, Owes
<1>9. Asks(call'[c], proc'[i], ops, ops')
  <2>1. proc'[i].cells \in Int
    BY <1>2, SeqFacts
  <2> QED BY <1>2, <1>3, <1>5, <2>1 DEF Asks
<1>10. proc'[i].cells >= 0 => SoftCalls(call', ops')
  <2>1. ASSUME NEW d \in Callers, d # c
        PROVE  /\ call'[d].nonce =< ops' /\ call'[d].owe >= 0
               /\ call'[d].answer = "soft" => call'[d].owe = 0
    <3>1. Onward(call[d], call'[d])
      BY <1>5, <2>1
    <3>2. call[d].nonce =< ops /\ (call[d].answer = "soft" => call[d].owe = 0)
      BY <1>6 DEF SoftCalls
    <3>3. call[d].owe \in Int /\ call'[d].owe \in Int /\ call[d].nonce \in Nat
      BY <1>2, OweFacts
    <3> QED BY <1>2, <3>1, <3>2, <3>3 DEF Onward
  <2>2. /\ call'[c].nonce =< ops' /\ call'[c].owe = proc'[i].cells /\ call'[c].answer # "soft"
    BY <1>2, <1>3, <1>5
  <2> QED BY <2>1, <2>2 DEF SoftCalls
<1>11. \A d \in Callers : Interrupts(call'[d], i) => Owes(call[d], call'[d]) \/ Asks(call'[d], proc'[i], ops, ops')
  BY <1>8, <1>9
<1>12. ASSUME NEW j \in Runtimes, j # i, NEW d \in Callers, Interrupts(call'[d], j)
       PROVE  Owes(call[d], call'[d])
  BY <1>3, <1>5, <1>8, <1>12 DEF Interrupts
<1>13. Prompt \in Tokens /\ Prompt.what # "ack"
  BY DEF Prompt, Item, Tokens
<1>14. SUFFICES /\ SoftAt(i, proc'[i], pipe'[i], call', ops') /\ proc'[i].cells >= 0
                /\ \A j \in Runtimes : j # i => Kept(j)
  BY <1>2, <1>10, <1>12, SoftKeeps
<1>15. CASE UNCHANGED <<proc, pipe>>
  <2>1. OldAcks(pipe[i], pipe[i]) /\ proc'[i].cells >= 0
    BY <1>7, <1>15 DEF OldAcks
  <2>2. \A j \in Runtimes : Kept(j)
    BY <1>15 DEF Kept, OldAcks
  <2>3. SoftCalls(call', ops')
    BY <1>10, <2>1
  <2>4. \A d \in Callers : Interrupts(call'[d], i) =>
           Owes(call[d], call'[d]) \/ Asks(call'[d], proc[i], ops, ops')
    BY <1>11, <1>15
  <2>5. SoftAt(i, proc[i], pipe[i], call', ops')
    BY <1>2, <1>6, <2>1, <2>3, <2>4, SoftStill
  <2> QED BY <1>15, <2>1, <2>2, <2>5
<1>16. CASE /\ proc[i].mode \in {"idle", "busy"}
            /\ proc' = [proc EXCEPT ![i].mode = "idle",
                                    ![i].cells = IF proc[i].mode = "busy" THEN @ - 1 ELSE @]
            /\ pipe' = [pipe EXCEPT ![i] = Append(@, Prompt)]
  <2> DEFINE n == IF proc[i].mode = "busy" THEN proc[i].cells - 1 ELSE proc[i].cells
             p == [proc[i] EXCEPT !.mode = "idle", !.cells = n]
             q == Append(pipe[i], Prompt)
  <2>1. proc' = [proc EXCEPT ![i] = p] /\ pipe' = [pipe EXCEPT ![i] = q]
    BY <1>2, <1>16
  <2>2. n \in Nat
    BY <1>7
  <2>3. p.line = proc[i].line /\ p.inbox = proc[i].inbox /\ p.cells = n /\ p.mode = "idle"
    <3> HIDE DEF n
    <3> QED BY <1>2, <2>2 DEF Processes
  <2>4. OldAcks(pipe[i], q)
    BY <1>2, <1>13, PrintedAcks
  <2> HIDE DEF p, q
  <2>5. proc'[i] = p /\ pipe'[i] = q /\ p \in Processes /\ q \in Seq(Tokens)
    BY <1>2, <2>1
  <2>6. \A j \in Runtimes : j # i => Kept(j)
    BY <2>1, OthersKept DEF TransportInv
  <2>7. SoftCalls(call', ops') /\ proc'[i].cells >= 0
    BY <1>10, <2>2, <2>3, <2>5
  <2>8. CASE proc[i].mode = "busy"
    <3>1. X = CellsEnd(i, 1)
      BY <1>7, <2>3, <2>5, <2>8
    <3>2. ASSUME NEW d \in Callers, Interrupts(call'[d], i)
          PROVE  Less(call[d], call'[d], 1) \/ Asks(call'[d], p, ops, ops')
      <4>1. CASE d = c
        BY <1>9, <2>5, <4>1
      <4>2. CASE d # c
        <5>1. call'[d] = CellsEnd(i, 1)[d] /\ call[d].on = i
          BY <1>5, <3>1, <3>2, <4>2 DEF Interrupts, Onward
        <5>2. call[d].on = i => Less(call[d], CellsEnd(i, 1)[d], 1)
          BY LessFacts DEF TransportInv
        <5> QED BY <5>1, <5>2
      <4> QED BY <4>1, <4>2
    <3>3. p.cells = proc[i].cells - 1
      BY <2>3, <2>8
    <3>4. SoftAt(i, p, q, call', ops')
      BY <1>2, <1>6, <2>3, <2>4, <2>5, <2>7, <2>8, <3>2, <3>3, SoftDone
    <3> QED BY <2>5, <2>6, <2>7, <3>4
  <2>9. CASE proc[i].mode = "idle"
    <3>1. p.cells = proc[i].cells /\ (p.mode = "busy" <=> proc[i].mode = "busy")
          /\ (p.mode \in UpModes => proc[i].mode \in UpModes)
      BY <2>3, <2>9 DEF UpModes
    <3>2. \A d \in Callers : Interrupts(call'[d], i) =>
             \/ Owes(call[d], call'[d]) /\ (p.mode \in UpModes => proc[i].mode \in UpModes)
             \/ Asks(call'[d], p, ops, ops')
      BY <1>11, <2>5, <3>1
    <3>3. SoftAt(i, p, q, call', ops')
      BY <1>2, <1>6, <2>3, <2>4, <2>5, <2>7, <3>1, <3>2, SoftStill
    <3> QED BY <2>5, <2>6, <2>7, <3>3
  <2> QED BY <1>16, <2>8, <2>9
<1>17. CASE Up(i) /\ proc' = [proc EXCEPT ![i] = Dying(@)] /\ UNCHANGED pipe
  <2> DEFINE p == Dying(proc[i])
  <2>1. p.line = {} /\ p.inbox = <<>> /\ p.cells = 0 /\ p.mode \notin UpModes
    BY <1>2, DyingIs
  <2>2. proc' = [proc EXCEPT ![i] = p] /\ pipe' = pipe
    BY <1>2, <1>17
  <2> HIDE DEF p
  <2>3. proc'[i] = p /\ p \in Processes /\ proc'[i].cells >= 0 /\ OldAcks(pipe[i], pipe[i])
    BY <1>2, <2>1, <2>2 DEF OldAcks
  <2>4. \A j \in Runtimes : j # i => Kept(j)
    BY <2>2, OthersSame DEF TransportInv
  <2>5. SoftCalls(call', ops')
    BY <1>10, <2>3
  <2>6. \A d \in Callers : Interrupts(call'[d], i) =>
           Owes(call[d], call'[d]) \/ Asks(call'[d], p, ops, ops')
    BY <1>11, <2>3
  <2>7. SoftAt(i, p, pipe[i], call', ops')
    <3>1. /\ proc[i] \in Processes /\ pipe[i] \in Seq(Tokens) /\ ops \in Nat /\ ops' \in Nat /\ ops =< ops'
          /\ \A d \in Callers : call[d] \in Calls /\ call'[d] \in Calls
      BY <1>2
    <3>2. p \in Processes /\ OldAcks(pipe[i], pipe[i])
      BY <2>3
    <3> QED BY <1>6, <2>1, <2>5, <2>6, <3>1, <3>2, SoftOver
  <2> QED BY <2>2, <2>3, <2>4, <2>7
<1> QED BY <1>1, <1>15, <1>16, <1>17 DEF Reacts

LEMMA SoftStart == Init => SoftInv
<1> SUFFICES ASSUME Init PROVE SoftInv
  OBVIOUS
<1>1. SoftCalls(call, ops)
  BY DEF Init, SoftCalls, Quiet
<1>2. ASSUME NEW i \in Runtimes PROVE SoftAt(i, proc[i], pipe[i], call, ops)
  <2>1. proc[i] = NoProcess /\ pipe[i] = <<>> /\ ops = 0
    BY <1>2 DEF Init
  <2>2. /\ NoProcess.line = {} /\ NoProcess.inbox = <<>> /\ NoProcess.cells = 0
        /\ NoProcess.mode = "none"
    BY DEF NoProcess
  <2>3. Numbered(proc[i], pipe[i], ops)
    BY <2>1, <2>2 DEF Numbered
  <2> DEFINE f == [k \in 0..0 |-> 0]
  <2>4. Ahead(f, proc[i])
    <3>1. CellsIn({}) = 0
      <4>1. {item \in {} : item.what = "cell"} = {}
        OBVIOUS
      <4> QED BY <4>1, FS_EmptySet DEF CellsIn
    <3>2. Running(NoProcess) = 0 /\ Len(NoProcess.inbox) = 0
      BY <2>2 DEF Running
    <3>3. 0..0 = {0} /\ 1..0 = {}
      OBVIOUS
    <3> QED BY <2>1, <2>2, <3>1, <3>2, <3>3 DEF Ahead
  <2>5. AllBehind(i, proc[i], pipe[i], call, f)
    BY DEF Init, Quiet, AllBehind, Interrupts
  <2> QED BY <2>3, <2>4, <2>5 DEF SoftAt
<1> QED BY <1>1, <1>2 DEF SoftInv

LEMMA SoftStep == TransportInv /\ SoftInv /\ [Next]_vars => SoftInv'
<1> SUFFICES ASSUME TransportInv, SoftInv, [Next]_vars PROVE SoftInv'
  OBVIOUS
<1>1. TransportInv'
  BY TransportStep
<1>2. 1..launched \subseteq Runtimes
  <2>1. launched \in 0..MaxLaunches /\ MaxLaunches \in Nat
    BY TransportAssumption DEF TransportInv, TypeOK
  <2> QED BY <2>1 DEF Runtimes
<1>3. CASE UNCHANGED vars
  BY <1>3 DEF vars, slotState, floorVars, SoftInv, Runtimes
<1>4. ASSUME NEW i \in 1..launched, ProcessRuns(i) \/ Events(i) PROVE SoftInv'
  BY <1>1, <1>2, <1>4, SoftRuns, SoftEvents
<1>5. ASSUME NEW c \in Callers, Start(c) \/ Restore(c) \/ Continues(c) PROVE SoftInv'
  <2>1. CASE Start(c) \/ Subscribe(c) \/ Drains(c) \/ TimesOut(c) \/ ForcedEnds(c) \/ DumpEnds(c)
    BY <1>1, <2>1, SoftWaits
  <2>2. CASE Restore(c) \/ Prepared(c) \/ Advanced(c)
    BY <1>1, <2>2, SoftStarts
  <2>3. CASE Submit(c)
    BY <1>1, <2>3, SoftSubmits
  <2>4. CASE GoesOn(c) \/ Fails(c)
    BY <1>1, <2>4, SoftGoesOn
  <2>5. CASE GraceEnds(c) \/ RestorePolls(c)
    BY <1>1, <2>5, SoftEnding
  <2> QED BY <1>5, <2>1, <2>2, <2>3, <2>4, <2>5 DEF Continues
<1>6. ASSUME NEW c \in Callers, NEW i \in 1..launched, Operations(c, i) PROVE SoftInv'
  <2>1. i \in Runtimes
    BY <1>2
  <2>2. CASE WriteCell(c, i) \/ CollectGarbage(c, i)
    BY <1>1, <2>1, <2>2, SoftWrites
  <2>3. CASE InterruptsNone(c, i)
    BY <1>1, <2>1, <2>3, SoftWaits
  <2>4. CASE Interrupt(c, i)
    BY <1>1, <2>1, <2>4, SoftInterrupts
  <2>5. CASE Terminate(c, i) \/ Snapshot(c, i)
    BY <1>1, <2>1, <2>5, SoftEnding
  <2> QED BY <1>6, <2>2, <2>3, <2>4, <2>5 DEF Operations
<1>7. CASE AdvanceEnds \/ Wraps
  BY <1>1, <1>7, SoftAdvances
<1> QED BY <1>3, <1>4, <1>5, <1>6, <1>7 DEF Next

\* An interrupt that answers `soft` has seen every cell end that its runtime held
\* (ProcessTransport.interrupt), whichever prompts were still to be read, what the
\* cells print, and however many write to the runtime meanwhile.
THEOREM SoftIsOver == Spec => []SoftMeansOver
<1>1. SoftInv => SoftMeansOver
  BY DEF SoftInv, SoftCalls, SoftMeansOver
<1> QED BY <1>1, TransportStart, TransportStep, SoftStart, SoftStep, PTL DEF Spec

=============================================================================
