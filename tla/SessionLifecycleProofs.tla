----------------------- MODULE SessionLifecycleProofs -----------------------
(***************************************************************************)
(* Proofs about SessionLifecycle, for any number of execs, runtimes and    *)
(* operations, and whatever goes wrong.                                    *)
(***************************************************************************)
EXTENDS SessionLifecycle, FiniteSetTheorems, SequenceTheorems, TLAPS

Runs(h) == {e \in Execs : h[e] = "running"}
Queues(h) == {e \in Execs : h[e] = "queued"}
HasRoom(h) == \E e \in Execs : h[e] = "none"

\* Execs are submitted in the order of their numbers.
Ordered(h) == \A d, e \in Execs : d < e /\ h[e] # "none" => h[d] # "none"

\* A queue nobody waits in twice, in the order they came.
Once(q) == \A i, j \in DOMAIN q : q[i] = q[j] => i = j
Sorted(q) == \A i, j \in DOMAIN q : i < j => q[i] < q[j]

\* No exec runs, unless the session was brought back on a runtime that was gone.
Revived == "revived" \in astray
Still(h) == Runs(h) = {} \/ Revived

\* A session nothing runs in, and one without a runtime.
Idle(s) == s.active = None /\ s.queue = <<>> /\ ~s.endHeld /\ ~s.subscribed /\ Still(s.hist)
Sound(s) == Ordered(s.hist) /\ (s.runtime = None => Idle(s))

\* What a session's entry never is.
Entry(s) ==
    /\ Sound(s)
    /\ s.active \in Execs => s.hist[s.active] = "running"
    /\ s.endHeld => s.active # None
    /\ s.status = "quarantined" => s.active = None /\ ~s.endHeld /\ ~s.subscribed /\ Still(s.hist)
    /\ s.status = "closed" => s.runtime = None
EntryInv == Entry(session) /\ Ordered(disk.hist)

\* The runtimes that live are the session's one; one that is terminated without
\* the lock is quarantined with its session.
HostInv ==
    /\ dead \cup ending \cup ({session.runtime, op.run} \ {None}) \subseteq 1..runtimes
    /\ \A r \in 1..runtimes \ dead : r = session.runtime
    /\ session.runtime \in ending => Revived \/ (session.status = "quarantined" /\ session.queue = <<>>)

\* What the lock's holder finds as it goes on.
LockInv ==
    /\ op.run # None => session.runtime = op.run \/ (session.runtime = None /\ op.run \in dead)
    /\ op.at = "starting" => session.runtime = None
    /\ op # NoOp /\ op.at \notin {"starting", "waiting"} => op.run # None
    /\ op.at = "interrupting" => op.exec \in Execs
    /\ op.at = "clearing" => op.kind # "submit"
    /\ op.at \in {"stopping", "closing", "quarantining"} => Idle(session)
    /\ op.at \in {"prompting", "failing"} =>
          Range(session.queue) \subseteq Range(op.kept) /\ (op.kept = <<>> => Still(session.hist))
    /\ session.active = Boot => op.at = "booting"
    /\ ~listed \/ session.status = "closed" => op = NoOp /\ session.runtime = None

\* An exec a loop writes has begun.
LoopInv ==
    \A l \in loops :
        /\ l.at \in {"write", "done"} => l.exec \in Execs
        /\ l.at = "write" => session.hist[l.exec] \in {"running"} \cup Ends

\* One at most of the operations under way submits or resets; a submission that is
\* yet to be made finds a number for its exec.
Admits(kind) == kind \in {"submit", "reset"}
Submits == \/ \E i \in DOMAIN tail : tail[i].kind = "submit"
           \/ op.kind = "submit" /\ op.at # "quarantining"
AskInv ==
    /\ \A i, j \in DOMAIN tail : Admits(tail[i].kind) /\ Admits(tail[j].kind) => i = j
    /\ Admits(op.kind) => \A i \in DOMAIN tail : ~Admits(tail[i].kind)
    /\ Submits => HasRoom(session.hist)

\* The execs that wait: those of the queue, or those a recycle keeps.
Waits == IF op.at \in {"stopping", "starting"} THEN op.kept ELSE session.queue
OnTime == {"late", "revived"} \cap astray = {}
WaitInv ==
    /\ Once(Waits)
    /\ \A i \in DOMAIN Waits : session.hist[Waits[i]] \in {"queued"} \cup Ends
    /\ OnTime => \A i \in DOMAIN Waits : session.hist[Waits[i]] = "queued"
    /\ OnTime /\ session.status = "quarantined" => Waits = <<>>

\* One runs, which is before all that wait, and they wait in order.
FifoInv ==
    astray = {} =>
        /\ Runs(session.hist) \subseteq {session.active}
        /\ op.at \in {"prompting", "clearing", "failing"} => session.active = None
        /\ Sorted(Waits)
        /\ session.status \notin {"quarantined", "closed"} => Queues(session.hist) \subseteq Range(Waits)
        /\ \A e \in Runs(session.hist), d \in Queues(session.hist) : e < d

\* What was told of an exec is on the disk as long as its session is.
DiskInv ==
    OnTime =>
        /\ disk.catalog = "none" => ~listed
        /\ closed => disk.catalog = "none" /\ ~listed
        /\ ~toldAnew
        /\ disk.catalog # "none" =>
              \A e \in Execs : told[e] # "none" => disk.hist[e] = told[e] /\ session.hist[e] = told[e]

\* An end that is held, and a bootstrap that went well, are dealt with before a loop
\* goes on.
Quiet == \A l \in loops : (l.at = "write" => delayed) /\ (l.at = "done" => l.exec \notin session.resolved)
BootInv ==
    /\ session.endHeld /\ ~saved => Quiet
    /\ op.at = "booting" /\ session.bootOk =>
          /\ session.runtime # None /\ session.status # "quarantined" /\ session.active = None
          /\ Boot \in session.resolved
          /\ Quiet /\ \A l \in loops : l.at \notin {"top", "saved"}
    /\ op.at = "booting" /\ session.active # None => ~session.bootOk

\* All but who asks.
Rest == TypeOK /\ EntryInv /\ HostInv /\ LockInv /\ LoopInv /\ WaitInv /\ FifoInv /\ DiskInv /\ BootInv
LifeInv == Rest /\ AskInv

-----------------------------------------------------------------------------
(* Execs, their queue, and the entry's fields.                             *)

LEMMA Places3 ==
    /\ None \notin Execs /\ Boot \notin Execs /\ None # Boot /\ None \notin Runtimes
    /\ MaxExecs \in Nat /\ Boot \in 1..Boot /\ Execs \subseteq 1..Boot
    /\ None \in 0..Boot /\ \A e \in 0..Boot : e \in Execs \/ e = None \/ e = Boot
BY LifecycleAssumption DEF None, Boot, Execs, Runtimes

LEMMA EntryFields ==
  ASSUME NEW s \in Entries
  PROVE  /\ s.status \in Statuses /\ s.hist \in Histories /\ s.runtime \in {None} \cup Runtimes
         /\ s.queue \in Seq(Execs) /\ s.active \in 0..Boot /\ s.endHeld \in BOOLEAN
         /\ s.subscribed \in BOOLEAN /\ s.resolved \subseteq 1..Boot /\ s.bootOk \in BOOLEAN
         /\ s.killed \in BOOLEAN /\ s.detached \subseteq Execs
BY DEF Entries

\* From a history to a later one: an exec that ended stays so, one that began has no
\* number to give back, and one that runs ends.
Follows(h, g) ==
    \A e \in Execs : /\ h[e] \in Ends => g[e] = h[e]
                     /\ h[e] # "none" <=> g[e] # "none"
                     /\ g[e] = "running" => h[e] = "running"
                     /\ g[e] = "queued" => h[e] = "queued"
                     /\ h[e] = "running" => g[e] \in {"running"} \cup Ends

LEMMA StaysOrdered ==
  ASSUME NEW h, NEW g, Follows(h, g), Ordered(h)
  PROVE  /\ Ordered(g)
         /\ Runs(g) \subseteq Runs(h) /\ Queues(g) \subseteq Queues(h)
         /\ HasRoom(h) => HasRoom(g)
<1>1. \A e \in Execs : h[e] # "none" <=> g[e] # "none"
  BY DEF Follows
<1>2. Ordered(g)
  BY <1>1 DEF Ordered
<1>3. Runs(g) \subseteq Runs(h) /\ Queues(g) \subseteq Queues(h)
  BY DEF Follows, Runs, Queues
<1>4. HasRoom(h) => HasRoom(g)
  BY <1>1 DEF HasRoom
<1> QED BY <1>2, <1>3, <1>4

\* What stopRuntime makes of the entry.
StopHist(s, kept) ==
    [e \in Execs |-> IF s.hist[e] \in Pending /\ e \notin kept THEN "interrupted" ELSE s.hist[e]]

LEMMA StopHistIs ==
  ASSUME NEW s \in Entries, NEW kept
  PROVE  StopHist(s, kept) \in Histories /\ Follows(s.hist, StopHist(s, kept))
<1>1. s.hist \in Histories
  BY EntryFields
<1> QED BY <1>1 DEF StopHist, Histories, Follows, Ends, Pending

LEMMA StoppingIs ==
  ASSUME NEW s \in Entries, Sound(s), NEW kept, NEW t, t = Stopping(s, kept)
  PROVE  /\ t \in Entries
         /\ t.status = s.status /\ t.runtime = s.runtime /\ t.bootOk = s.bootOk /\ t.killed = s.killed
         /\ s.resolved \subseteq t.resolved
         /\ t.active = None /\ t.queue = <<>> /\ ~t.endHeld /\ ~t.subscribed
         /\ t.hist = IF s.runtime = None THEN s.hist ELSE StopHist(s, kept)
         /\ Follows(s.hist, t.hist) /\ Ordered(t.hist)
         /\ (\A e \in kept : e \in Execs => s.hist[e] # "running") => Idle(t)
<1>0. s.hist \in Histories
  BY EntryFields
<1>1. CASE s.runtime = None
  <2>1. t = [s EXCEPT !.subscribed = FALSE] /\ Idle(s)
    BY <1>1 DEF Stopping, Terminalized, Sound
  <2>2. t \in Entries
    BY <2>1 DEF Entries
  <2>3. /\ t.status = s.status /\ t.runtime = s.runtime /\ t.bootOk = s.bootOk /\ t.killed = s.killed
        /\ t.resolved = s.resolved /\ t.active = s.active /\ t.queue = s.queue
        /\ t.endHeld = s.endHeld /\ ~t.subscribed /\ t.hist = s.hist
    BY <2>1 DEF Entries
  <2>4. Follows(s.hist, s.hist)
    BY <1>0 DEF Follows, Histories, Ends, Pending
  <2> QED BY <1>1, <2>1, <2>2, <2>3, <2>4 DEF Idle, Sound
<1>2. CASE s.runtime # None
  <2>1. /\ StopHist(s, kept) \in Histories /\ Follows(s.hist, StopHist(s, kept))
    BY StopHistIs
  <2> DEFINE gone == s.detached \cup {e \in Execs : s.hist[e] = "running"}
             over == s.resolved \cup ({s.active} \ {None})
  <2>2. gone \in SUBSET Execs /\ over \in SUBSET (1..Boot) /\ s.resolved \subseteq over
    BY EntryFields, Places3 DEF None, Boot
  <2>3. t = [s EXCEPT !.hist = StopHist(s, kept), !.detached = gone, !.queue = <<>>, !.active = None,
                      !.endHeld = FALSE, !.interrupted = FALSE, !.resolved = over, !.subscribed = FALSE]
    BY <1>2 DEF Stopping, Terminalized, StopHist, Entries
  <2> HIDE DEF gone, over
  <2>4. <<>> \in Seq(Execs) /\ None \in 0..Boot
    BY Places3
  <2>5. t \in Entries
    BY <2>1, <2>2, <2>3, <2>4 DEF Entries
  <2>6. /\ t.status = s.status /\ t.runtime = s.runtime /\ t.bootOk = s.bootOk /\ t.killed = s.killed
        /\ t.resolved = over /\ t.active = None /\ t.queue = <<>> /\ t.endHeld = FALSE
        /\ t.subscribed = FALSE /\ t.hist = StopHist(s, kept)
    BY <2>3 DEF Entries
  <2>7. Ordered(t.hist)
    BY <2>1, <2>6, StaysOrdered DEF Sound
  <2>8. (\A e \in kept : e \in Execs => s.hist[e] # "running") => Runs(t.hist) = {}
    BY <2>6 DEF StopHist, Runs, Pending
  <2> QED BY <1>2, <2>1, <2>2, <2>5, <2>6, <2>7, <2>8 DEF Idle, Still
<1> QED BY <1>1, <1>2

LEMMA QuarantinedIs ==
  ASSUME NEW s \in Entries, Sound(s), NEW t, t = Quarantined(s)
  PROVE  /\ t \in Entries /\ Entry(t) /\ Idle(t)
         /\ t.status = "quarantined" /\ t.runtime = s.runtime /\ t.bootOk = s.bootOk
         /\ s.resolved \subseteq t.resolved /\ Follows(s.hist, t.hist)
<1> DEFINE u == Stopping(s, {})
<1>1. /\ u \in Entries /\ u.runtime = s.runtime /\ u.bootOk = s.bootOk
      /\ s.resolved \subseteq u.resolved /\ Follows(s.hist, u.hist) /\ Ordered(u.hist) /\ Idle(u)
  BY StoppingIs
<1>2. t = [u EXCEPT !.status = "quarantined"]
  BY DEF Quarantined
<1> HIDE DEF u
<1>3. t \in Entries
  BY <1>1, <1>2 DEF Entries, Statuses
<1>4. /\ t.status = "quarantined" /\ t.runtime = u.runtime /\ t.bootOk = u.bootOk
      /\ t.resolved = u.resolved /\ t.hist = u.hist /\ t.active = u.active
      /\ t.queue = u.queue /\ t.endHeld = u.endHeld /\ t.subscribed = u.subscribed
  BY <1>1, <1>2 DEF Entries
<1>5. Idle(t)
  BY <1>1, <1>4 DEF Idle
<1>6. Entry(t)
  BY <1>1, <1>4, <1>5, Places3 DEF Entry, Sound, Idle
<1> QED BY <1>1, <1>3, <1>4, <1>5, <1>6

LEMMA FinishedIs ==
  ASSUME NEW s \in Entries, Entry(s), NEW end \in Ends, NEW t, t = Finished(s, end)
  PROVE  /\ t \in Entries /\ Entry(t)
         /\ t.status = s.status /\ t.runtime = s.runtime /\ t.bootOk = s.bootOk /\ t.killed = s.killed
         /\ t.queue = s.queue /\ t.subscribed = s.subscribed /\ t.active = None /\ ~t.endHeld
         /\ t.resolved = s.resolved \cup ({s.active} \ {None}) /\ t.detached = s.detached
         /\ Follows(s.hist, t.hist) /\ Runs(t.hist) = Runs(s.hist) \ {s.active}
         /\ s.active \in Execs => t.hist[s.active] = end /\ s.hist[s.active] = "running"
         /\ \A e \in Execs : e # s.active => t.hist[e] = s.hist[e]
<1> DEFINE h == IF s.active \in Execs THEN [s.hist EXCEPT ![s.active] = end] ELSE s.hist
           over == s.resolved \cup ({s.active} \ {None})
<1>1. /\ s.hist \in Histories /\ s.active \in 0..Boot
      /\ s.active \in Execs => s.hist[s.active] = "running"
  BY EntryFields DEF Entry
<1>2. t = [s EXCEPT !.hist = h, !.active = None, !.endHeld = FALSE, !.interrupted = FALSE,
                    !.resolved = over]
  BY DEF Finished
<1>3. h \in Histories
  BY <1>1 DEF Histories
<1>4. s.active \in Execs => h[s.active] = end
  BY <1>1 DEF Histories
<1>5. \A e \in Execs : e # s.active => h[e] = s.hist[e]
  BY <1>1 DEF Histories
<1>6. over \in SUBSET (1..Boot)
  BY <1>1, EntryFields, Places3 DEF None, Boot
<1>7. over = s.resolved \cup ({s.active} \ {None})
  OBVIOUS
<1> HIDE DEF h, over
<1>8. Follows(s.hist, h)
  BY <1>1, <1>4, <1>5 DEF Follows, Ends
<1>9. \A e \in Execs : h[e] = "running" <=> s.hist[e] = "running" /\ e # s.active
  BY <1>1, <1>4, <1>5 DEF Ends
<1>10. Runs(h) = Runs(s.hist) \ {s.active}
  BY <1>9 DEF Runs
<1>11. Ordered(h)
  BY <1>8, StaysOrdered DEF Entry, Sound
<1>12. t \in Entries
  <2>1. None \in 0..Boot
    BY Places3
  <2> QED BY <1>2, <1>3, <1>6, <2>1 DEF Entries
<1>13. /\ t.status = s.status /\ t.runtime = s.runtime /\ t.bootOk = s.bootOk /\ t.killed = s.killed
       /\ t.queue = s.queue /\ t.subscribed = s.subscribed /\ t.active = None /\ ~t.endHeld
       /\ t.resolved = over /\ t.hist = h /\ t.detached = s.detached
  BY <1>2 DEF Entries
<1>14. Entry(t)
  BY <1>10, <1>11, <1>13, Places3 DEF Entry, Sound, Idle, Still
<1> QED BY <1>1, <1>4, <1>5, <1>7, <1>8, <1>10, <1>12, <1>13, <1>14

LEMMA OrphanedIs ==
  ASSUME NEW s \in Entries, Sound(s), NEW kept, NEW t, t = Orphaned(s, kept)
  PROVE  /\ t \in Entries /\ Sound(t) /\ t.runtime = s.runtime /\ t.bootOk = s.bootOk
         /\ Follows(s.hist, t.hist) /\ s.resolved \subseteq t.resolved
         /\ kept # <<>> => Runs(t.hist) = {}
         /\ kept = <<>> => t = s
<1> DEFINE h == [e \in Execs |-> IF s.hist[e] \in Pending THEN "interrupted" ELSE s.hist[e]]
<1>1. s.hist \in Histories
  BY EntryFields
<1>2. h \in Histories /\ Follows(s.hist, h) /\ Runs(h) = {}
  BY <1>1 DEF Histories, Follows, Runs, Pending, Ends
<1>3. CASE kept = <<>>
  <2>1. t = s /\ Follows(s.hist, s.hist)
    BY <1>1, <1>3 DEF Orphaned, Follows, Histories, Pending, Ends
  <2> QED BY <2>1, <1>3
<1>4. CASE kept # <<>>
  <2>1. t = [s EXCEPT !.hist = h, !.queue = <<>>]
    BY <1>4 DEF Orphaned
  <2> HIDE DEF h
  <2>2. t \in Entries
    <3>1. <<>> \in Seq(Execs)
      OBVIOUS
    <3> QED BY <1>2, <2>1, <3>1 DEF Entries
  <2>3. /\ t.runtime = s.runtime /\ t.bootOk = s.bootOk /\ t.resolved = s.resolved /\ t.hist = h
        /\ t.active = s.active /\ t.queue = <<>> /\ t.endHeld = s.endHeld /\ t.subscribed = s.subscribed
    BY <2>1 DEF Entries
  <2>4. Sound(t)
    BY <1>2, <2>3, StaysOrdered DEF Sound, Idle, Still
  <2> QED BY <1>2, <1>4, <2>2, <2>3, <2>4
<1> QED BY <1>3, <1>4

LEMMA EndedIs ==
  ASSUME NEW s \in Entries, NEW run, NEW t, t = Ended(s, run),
         s.runtime = run => Still(s.hist), Entry(s)
  PROVE  /\ t \in Entries /\ Entry(t) /\ t.status = s.status /\ t.bootOk = s.bootOk
         /\ t.hist = s.hist /\ t.resolved = s.resolved /\ Follows(s.hist, t.hist)
         /\ s.runtime # run => t = s
         /\ s.runtime = run => t.runtime = None /\ Idle(t)
<1>0. Follows(s.hist, s.hist)
  BY EntryFields DEF Follows, Histories, Pending, Ends
<1>1. CASE s.runtime # run
  BY <1>0, <1>1 DEF Ended
<1>2. CASE s.runtime = run
  <2>1. t = [s EXCEPT !.runtime = None, !.subscribed = FALSE, !.killed = FALSE,
                      !.queue = <<>>, !.active = None, !.endHeld = FALSE]
    BY <1>2 DEF Ended
  <2>2. t \in Entries
    <3>1. <<>> \in Seq(Execs) /\ None \in 0..Boot
      BY Places3
    <3> QED BY <2>1, <3>1 DEF Entries
  <2>3. /\ t.status = s.status /\ t.bootOk = s.bootOk /\ t.hist = s.hist /\ t.resolved = s.resolved
        /\ t.runtime = None /\ t.active = None /\ t.queue = <<>> /\ ~t.endHeld /\ ~t.subscribed
    BY <2>1 DEF Entries
  <2>4. Idle(t) /\ Entry(t)
    BY <1>2, <2>3, Places3 DEF Entry, Sound, Idle
  <2> QED BY <1>0, <1>2, <2>2, <2>3, <2>4
<1> QED BY <1>1, <1>2

LEMMA StatusIs ==
  ASSUME NEW s \in Entries, NEW x \in Statuses, NEW t, t = [s EXCEPT !.status = x]
  PROVE  /\ t \in Entries /\ t.status = x /\ t.hist = s.hist /\ t.runtime = s.runtime
         /\ t.queue = s.queue /\ t.active = s.active /\ t.endHeld = s.endHeld /\ t.killed = s.killed
         /\ t.subscribed = s.subscribed /\ t.resolved = s.resolved /\ t.bootOk = s.bootOk
         /\ Sound(s) => Sound(t)
         /\ Entry(s) /\ x \notin {"quarantined", "closed"} => Entry(t)
<1>1. t \in Entries
  BY DEF Entries
<1>2. /\ t.status = x /\ t.hist = s.hist /\ t.runtime = s.runtime
      /\ t.queue = s.queue /\ t.active = s.active /\ t.endHeld = s.endHeld /\ t.killed = s.killed
      /\ t.subscribed = s.subscribed /\ t.resolved = s.resolved /\ t.bootOk = s.bootOk
  BY DEF Entries
<1> QED BY <1>1, <1>2 DEF Entry, Sound, Idle

\* The next exec's number is the first that is free.
LEMMA NextExecIs ==
  ASSUME NEW s \in Entries, Ordered(s.hist), HasRoom(s.hist), NEW n, n = NextExec(s)
  PROVE  /\ n \in Execs /\ s.hist[n] = "none"
         /\ \A d \in Execs : d < n => s.hist[d] # "none"
         /\ \A d \in Execs : s.hist[d] # "none" => d < n
<1> DEFINE D == {e \in Execs : s.hist[e] # "none"}
           c == Cardinality(D)
<1>1. MaxExecs \in Nat /\ D \subseteq Nat /\ \A e \in Execs : e \in Nat
  BY LifecycleAssumption DEF Execs
<1>2. \A m \in Nat : IsFiniteSet(1..m) /\ Cardinality(1..m) = m
  <2> TAKE m \in Nat
  <2>1. 1 \in Int /\ m \in Int
    OBVIOUS
  <2>2. IsFiniteSet(1..m) /\ Cardinality(1..m) = IF 1 > m THEN 0 ELSE m - 1 + 1
    BY <2>1, FS_Interval
  <2> QED BY <2>2
<1>3. IsFiniteSet(D) /\ c \in Nat
  <2>1. IsFiniteSet(Execs) /\ D \subseteq Execs
    BY <1>1, <1>2 DEF Execs
  <2>2. IsFiniteSet(D)
    BY <2>1, FS_Subset
  <2> QED BY <2>2, FS_CardinalityType
<1>4. \A d, e \in Execs : d < e /\ e \in D => d \in D
  BY DEF Ordered
<1>5. n = c + 1
  BY DEF NextExec
<1>6. \A d \in Execs : d \notin D => c =< d - 1
  <2> SUFFICES ASSUME NEW d \in Execs, d \notin D PROVE c =< d - 1
    OBVIOUS
  <2>0. d \in Nat /\ d - 1 \in Nat
    BY <1>1 DEF Execs
  <2>1. D \subseteq 1..(d - 1)
    <3> SUFFICES ASSUME NEW x \in D PROVE x \in 1..(d - 1)
      OBVIOUS
    <3>1. x \in Execs /\ x \in Nat /\ x >= 1
      BY DEF Execs
    <3>2. ~(d < x) /\ d # x
      BY <1>4, <3>1
    <3> QED BY <2>0, <3>1, <3>2
  <2>2. c =< Cardinality(1..(d - 1))
    BY <1>2, <2>0, <2>1, FS_Subset
  <2> QED BY <1>2, <2>0, <2>2
<1>7. n \in Execs
  <2>1. PICK m \in Execs : m \notin D
    BY DEF HasRoom
  <2>2. c =< m - 1 /\ m \in Nat /\ m =< MaxExecs
    BY <1>1, <1>6, <2>1 DEF Execs
  <2> QED BY <1>1, <1>3, <1>5, <2>2 DEF Execs
<1>8. n \notin D
  <2> SUFFICES ASSUME n \in D PROVE FALSE
    OBVIOUS
  <2>1. 1..n \subseteq D
    <3> SUFFICES ASSUME NEW x \in 1..n PROVE x \in D
      OBVIOUS
    <3>1. x \in Execs /\ x \in Nat /\ n \in Nat /\ (x < n \/ x = n)
      BY <1>1, <1>7 DEF Execs
    <3> QED BY <1>4, <1>7, <3>1
  <2>2. n \in Nat
    BY <1>1, <1>7
  <2>3. Cardinality(1..n) =< c
    BY <1>3, <2>1, FS_Subset
  <2>4. Cardinality(1..n) = n
    BY <1>2, <2>2
  <2> QED BY <1>3, <1>5, <2>3, <2>4
<1>9. \A d \in Execs : d < n => d \in D
  <2> SUFFICES ASSUME NEW d \in Execs, d < n, d \notin D PROVE FALSE
    OBVIOUS
  <2>1. c =< d - 1 /\ d \in Nat
    BY <1>1, <1>6
  <2> HIDE DEF c
  <2> QED BY <1>3, <1>5, <2>1
<1>10. \A d \in Execs : d \in D => d < n
  <2> SUFFICES ASSUME NEW d \in Execs, d \in D, ~(d < n) PROVE FALSE
    OBVIOUS
  <2>1. n < d \/ n = d
    BY <1>1, <1>7
  <2> QED BY <1>4, <1>7, <1>8, <2>1
<1> QED BY <1>7, <1>8, <1>9, <1>10

LEMMA QueuedIs ==
  ASSUME NEW s \in Entries, NEW e \in Execs, s.hist[e] = "none", NEW t, t = Queued(s, e)
  PROVE  /\ t \in Entries /\ t.status = s.status /\ t.runtime = s.runtime /\ t.active = s.active
         /\ t.endHeld = s.endHeld /\ t.killed = s.killed /\ t.subscribed = s.subscribed
         /\ t.resolved = s.resolved /\ t.bootOk = s.bootOk
         /\ t.queue = Append(s.queue, e) /\ t.hist[e] = "queued"
         /\ \A d \in Execs : d # e => t.hist[d] = s.hist[d]
<1> DEFINE h == [s.hist EXCEPT ![e] = "queued"]
           q == Append(s.queue, e)
<1>1. s.hist \in Histories /\ s.queue \in Seq(Execs)
  BY EntryFields
<1>2. h \in Histories /\ h[e] = "queued" /\ q \in Seq(Execs)
  BY <1>1 DEF Histories, Pending
<1>3. \A d \in Execs : d # e => h[d] = s.hist[d]
  BY <1>1 DEF Histories
<1>4. t = [s EXCEPT !.hist = h, !.queue = q]
  BY DEF Queued
<1> HIDE DEF h
<1>5. t \in Entries
  BY <1>2, <1>4 DEF Entries
<1>6. /\ t.status = s.status /\ t.runtime = s.runtime /\ t.active = s.active
      /\ t.endHeld = s.endHeld /\ t.killed = s.killed /\ t.subscribed = s.subscribed
      /\ t.resolved = s.resolved /\ t.bootOk = s.bootOk /\ t.queue = q /\ t.hist = h
  BY <1>4 DEF Entries
<1> QED BY <1>2, <1>3, <1>5, <1>6

-----------------------------------------------------------------------------
(* What a step leaves of the invariant's parts.                            *)

\* What the lock's holder leaves alone, in most of its turns.
HoldsLock ==
    /\ UNCHANGED <<entryVars, hostVars, serverVars, spent>>
    /\ astray' \in {astray, astray \cup {"revived"}}

\* What was said of an entry, before the session was brought back, holds after.
LEMMA StillSo ==
  ASSUME astray \subseteq astray'
  PROVE  /\ Revived => Revived'
         /\ OnTime' => OnTime
         /\ astray' = {} => astray = {} /\ ~Revived
         /\ Still(session'.hist) => Still(session.hist)'
         /\ Idle(session') => Idle(session)'
         /\ Sound(session') => Sound(session)'
         /\ Entry(session') => Entry(session)'
<1>1. Revived => Revived'
  BY DEF Revived
<1>2. (OnTime' => OnTime) /\ (astray' = {} => astray = {} /\ ~Revived)
  BY DEF OnTime, Revived
<1>3. Still(session'.hist) => Still(session.hist)'
  BY <1>1 DEF Still, Runs
<1>4. Idle(session') => Idle(session)'
  BY <1>3 DEF Idle
<1>5. Sound(session') => Sound(session)'
  BY <1>4 DEF Sound, Ordered
<1>6. Entry(session') => Entry(session)'
  BY <1>3, <1>5 DEF Entry
<1> QED BY <1>1, <1>2, <1>3, <1>4, <1>5, <1>6

LEMMA HoldsStill ==
  ASSUME HoldsLock
  PROVE  /\ astray \subseteq astray'
         /\ Revived => Revived'
         /\ OnTime' => OnTime
         /\ astray' = {} => astray = {} /\ ~Revived
         /\ Still(session'.hist) => Still(session.hist)'
         /\ Idle(session') => Idle(session)'
         /\ Sound(session') => Sound(session)'
         /\ Entry(session') => Entry(session)'
<1>1. astray \subseteq astray'
  BY DEF HoldsLock
<1> QED BY <1>1, StillSo

LEMMA TypeKeeps ==
  ASSUME TypeOK, HoldsLock, session' \in Entries, op' \in {NoOp} \cup Holders, tail' \in Seq(Waiters),
         loops' \subseteq LoopRecords, disk' \in [catalog : {"none"} \cup Statuses, hist : Histories],
         told' \in [Execs -> {"none"} \cup Ends], toldAnew' \in BOOLEAN, faults' \in 0..MaxTroubles
  PROVE  TypeOK'
BY DEF TypeOK, HoldsLock, entryVars, hostVars, serverVars

LEMMA PersistIs ==
  ASSUME TypeOK, NEW s \in Entries, NEW fault \in Faults, Persist(s, fault)
  PROVE  /\ disk' \in [catalog : {"none"} \cup Statuses, hist : Histories]
         /\ faults' \in 0..MaxTroubles
         /\ Ordered(disk.hist) /\ Ordered(s.hist) => Ordered(disk'.hist)
         /\ fault = "none" => disk'.catalog = s.status /\ disk'.hist = s.hist
         /\ fault = "generation" => disk' = disk
         /\ fault = "catalog" => disk'.catalog = disk.catalog /\ disk'.hist = s.hist
<1>1. /\ disk \in [catalog : {"none"} \cup Statuses, hist : Histories]
      /\ s.status \in Statuses /\ s.hist \in Histories
  BY EntryFields DEF TypeOK
<1>2. faults' \in 0..MaxTroubles
  <2>1. faults \in 0..MaxTroubles /\ spent.exits \in 0..MaxTroubles /\ spent.restarts \in 0..MaxTroubles
    BY DEF TypeOK
  <2>2. MaxTroubles \in Nat
    BY LifecycleAssumption
  <2> QED BY <2>1, <2>2 DEF Persist, Trouble
<1>3. CASE fault = "none"
  <2>1. disk' = [catalog |-> s.status, hist |-> s.hist]
    BY <1>3 DEF Persist
  <2> QED BY <1>1, <1>2, <1>3, <2>1
<1>4. CASE fault = "generation"
  <2>1. disk' = disk
    BY <1>4 DEF Persist
  <2> QED BY <1>1, <1>2, <1>4, <2>1
<1>5. CASE fault = "catalog"
  <2>1. disk' = [disk EXCEPT !.hist = s.hist]
    BY <1>5 DEF Persist
  <2> QED BY <1>1, <1>2, <1>5, <2>1
<1> QED BY <1>3, <1>4, <1>5 DEF Faults

LEMMA TellIs ==
  ASSUME TypeOK, NEW e, NEW end \in Ends, NEW fault, TellEnd(e, end, fault) \/ TellNothing
  PROVE  /\ told' \in [Execs -> {"none"} \cup Ends] /\ toldAnew' \in BOOLEAN
         /\ \A d \in Execs : \/ told'[d] = told[d]
                             \/ d = e /\ TellEnd(e, end, fault) /\ told'[d] = end /\ fault # "generation"
         /\ toldAnew' => toldAnew \/ (e \in Execs /\ TellEnd(e, end, fault) /\ told[e] \notin {"none", end})
<1>1. told \in [Execs -> {"none"} \cup Ends] /\ toldAnew \in BOOLEAN
  BY DEF TypeOK
<1>2. CASE told' = told /\ toldAnew' = toldAnew
  BY <1>1, <1>2
<1>3. CASE TellEnd(e, end, fault) /\ e \in Execs /\ fault # "generation"
  <2>1. /\ told' = [told EXCEPT ![e] = IF told[e] = "none" THEN end ELSE told[e]]
        /\ toldAnew' = (toldAnew \/ told[e] \notin {"none", end})
    BY <1>3 DEF TellEnd
  <2> QED BY <1>1, <1>3, <2>1
<1> QED BY <1>2, <1>3 DEF TellEnd, TellNothing

\* Where a turn persists the session, and tells of one exec's end, it is that of an
\* exec which had not ended, and is in the history that is written.
LEMMA DiskKeeps ==
  ASSUME TypeOK, DiskInv, session' \in Entries, astray \subseteq astray',
         NEW fault \in Faults, Persist(session', fault),
         NEW e, NEW end \in Ends, TellEnd(e, end, fault) \/ TellNothing,
         listed' = listed, closed' = closed,
         OnTime' => /\ listed
                    /\ \A d \in Execs : session.hist[d] \in Ends => session'.hist[d] = session.hist[d]
                    /\ e \in Execs /\ TellEnd(e, end, fault) =>
                          session.hist[e] \in Pending /\ session'.hist[e] = end
  PROVE  DiskInv'
<1> SUFFICES ASSUME OnTime' PROVE DiskInv'
  BY DEF DiskInv
<1>0. /\ OnTime /\ listed
      /\ \A d \in Execs : session.hist[d] \in Ends => session'.hist[d] = session.hist[d]
      /\ e \in Execs /\ TellEnd(e, end, fault) => session.hist[e] \in Pending /\ session'.hist[e] = end
  BY DEF OnTime
<1>1. /\ disk.catalog # "none" /\ ~closed /\ ~toldAnew
      /\ \A d \in Execs : told[d] # "none" => disk.hist[d] = told[d] /\ session.hist[d] = told[d]
  BY <1>0 DEF DiskInv
<1>2. /\ \A d \in Execs : \/ told'[d] = told[d]
                          \/ d = e /\ TellEnd(e, end, fault) /\ told'[d] = end /\ fault # "generation"
      /\ toldAnew' => toldAnew \/ (e \in Execs /\ TellEnd(e, end, fault) /\ told[e] \notin {"none", end})
  BY TellIs
<1>3. /\ fault = "none" => disk'.catalog = session'.status /\ disk'.hist = session'.hist
      /\ fault = "generation" => disk' = disk
      /\ fault = "catalog" => disk'.catalog = disk.catalog /\ disk'.hist = session'.hist
  BY PersistIs
<1>4. told \in [Execs -> {"none"} \cup Ends] /\ session'.status \in Statuses
  BY EntryFields DEF TypeOK
<1>5. \A d \in Execs : told[d] # "none" => session'.hist[d] = told[d] /\ session.hist[d] \in Ends
  BY <1>0, <1>1, <1>4
<1>6. ~toldAnew'
  BY <1>0, <1>1, <1>2, <1>5 DEF Ends, Pending
<1>7. \A d \in Execs : told'[d] # "none" => session'.hist[d] = told'[d]
  BY <1>0, <1>2, <1>5
<1>8. \A d \in Execs : told'[d] # "none" => disk'.hist[d] = told'[d]
  <2> SUFFICES ASSUME NEW d \in Execs, told'[d] # "none" PROVE disk'.hist[d] = told'[d]
    OBVIOUS
  <2>1. CASE fault = "generation"
    <3>1. told'[d] = told[d]
      BY <1>2, <2>1
    <3> QED BY <1>1, <1>3, <2>1, <3>1
  <2>2. CASE fault # "generation"
    BY <1>3, <1>7, <2>2 DEF Faults
  <2> QED BY <2>1, <2>2
<1>9. disk'.catalog # "none"
  BY <1>1, <1>3, <1>4 DEF Faults, Statuses
<1> QED BY <1>0, <1>1, <1>6, <1>7, <1>8, <1>9 DEF DiskInv

LEMMA DiskStays ==
  ASSUME TypeOK, DiskInv, astray \subseteq astray', disk' = disk, TellNothing,
         listed' = listed, closed' = closed,
         \A d \in Execs : session.hist[d] \in Ends => session'.hist[d] = session.hist[d]
  PROVE  DiskInv'
<1>1. told \in [Execs -> {"none"} \cup Ends]
  BY DEF TypeOK
<1> QED BY <1>1 DEF DiskInv, OnTime, TellNothing

\* What loops go on with, and those that begin.
LEMMA LoopsKeep ==
  ASSUME LoopInv, loops' \subseteq loops \cup {Top},
         \A e \in Execs : session.hist[e] \in {"running"} \cup Ends => session'.hist[e] \in {"running"} \cup Ends
  PROVE  LoopInv'
<1> SUFFICES ASSUME NEW l \in loops', l \in loops
             PROVE  /\ l.at \in {"write", "done"} => l.exec \in Execs
                    /\ l.at = "write" => session'.hist[l.exec] \in {"running"} \cup Ends
  BY DEF LoopInv, Top
<1> QED BY DEF LoopInv

\* Nothing waits, and nothing runs.
LEMMA NoneWait ==
  ASSUME Waits' = <<>>, Still(session.hist)', session'.status \in {"quarantined", "closed"},
         op'.at \in {"prompting", "clearing", "failing"} => session'.active = None
  PROVE  WaitInv' /\ FifoInv'
<1>1. DOMAIN <<>> = {}
  OBVIOUS
<1>2. WaitInv'
  BY <1>1 DEF WaitInv, Once
<1>3. FifoInv'
  BY <1>1 DEF FifoInv, Sorted, Still, Revived
<1> QED BY <1>2, <1>3

LEMMA NoOpIs ==
  /\ NoOp.kind = "none" /\ NoOp.at = "none" /\ NoOp.run = None /\ NoOp.exec = None /\ NoOp.kept = <<>>
  /\ NoOp.failed = FALSE
BY DEF NoOp

LEMMA AtIs ==
  ASSUME NEW kind \in Kinds, NEW at \in Places, NEW run \in {None} \cup Runtimes
  PROVE  /\ At(kind, at, run) \in Holders /\ At(kind, at, run).kind = kind /\ At(kind, at, run).at = at
         /\ At(kind, at, run).run = run /\ At(kind, at, run).kept = <<>> /\ At(kind, at, run) # NoOp
<1> SUFFICES ASSUME NEW o, o = At(kind, at, run)
             PROVE  /\ o \in Holders /\ o.kind = kind /\ o.at = at /\ o.run = run
                    /\ o.kept = <<>> /\ o # NoOp
  OBVIOUS
<1>1. o = [kind |-> kind, at |-> at, run |-> run, exec |-> None, kept |-> <<>>,
          failed |-> FALSE, ended |-> FALSE]
  BY DEF At, NoOp
<1>2. kind # "none"
  BY DEF Kinds
<1> QED BY <1>1, <1>2 DEF Holders, NoOp

\* As Follows, and an exec may have been submitted.
Later(h, g) ==
    \A e \in Execs : /\ h[e] \in Ends => g[e] = h[e]
                     /\ h[e] = "running" => g[e] \in {"running"} \cup Ends

LEMMA LaterIs ==
  ASSUME NEW h, NEW g
  PROVE  /\ Follows(h, g) => Later(h, g)
         /\ Later(h, g) => \A e \in Execs : h[e] \in {"running"} \cup Ends => g[e] \in {"running"} \cup Ends
         /\ Later(h, g) => \A e \in Execs : h[e] \in Ends => g[e] = h[e]
BY DEF Follows, Later

LEMMA LaterStill ==
  ASSUME NEW h, NEW g, NEW k, Later(h, g), Later(g, k)
  PROVE  Later(h, k)
BY DEF Later, Ends

\* The next that waited has the lock, or the one that had it goes on.
HasLock(kind) ==
    \/ op = NoOp /\ tail # <<>> /\ Head(tail).kind = kind /\ tail' = Tail(tail)
    \/ op # NoOp /\ (op.kind = kind \/ ~Admits(kind)) /\ tail' = tail

LEMMA TailIs ==
  ASSUME NEW q \in Seq(Waiters), q # <<>>
  PROVE  /\ Tail(q) \in Seq(Waiters) /\ Head(q) \in Waiters /\ 1 \in DOMAIN q /\ Head(q) = q[1]
         /\ \A i \in DOMAIN Tail(q) : i \in Nat /\ i + 1 \in DOMAIN q /\ i + 1 # 1 /\ Tail(q)[i] = q[i + 1]
<1>1. Len(q) \in Nat /\ Len(q) # 0 /\ DOMAIN q = 1..Len(q)
  BY LenProperties
<1>2. Tail(q) \in Seq(Waiters) /\ Len(Tail(q)) = Len(q) - 1 /\ DOMAIN Tail(q) = 1..Len(Tail(q))
  BY HeadTailProperties, LenProperties
<1>3. \A i \in 1..(Len(q) - 1) : Tail(q)[i] = q[i + 1]
  BY <1>1, HeadTailProperties
<1>4. Head(q) \in Waiters /\ Head(q) = q[1]
  BY <1>1, HeadTailProperties
<1> QED BY <1>1, <1>2, <1>3, <1>4

LEMMA AskKeeps ==
  ASSUME TypeOK, AskInv, NEW kind, HasLock(kind), op'.kind \in {kind, "none"},
         op.at = "quarantining" => op' = NoOp,
         \/ HasRoom(session.hist) => HasRoom(session'.hist)
         \/ kind = "submit" /\ (op'.kind = "submit" => op'.at = "quarantining")
  PROVE  AskInv'
<1>0. tail \in Seq(Waiters)
  BY DEF TypeOK
<1>1. CASE op # NoOp /\ (op.kind = kind \/ ~Admits(kind)) /\ tail' = tail
  <2>1. /\ \A i, j \in DOMAIN tail : Admits(tail[i].kind) /\ Admits(tail[j].kind) => i = j
        /\ Admits(op.kind) => \A i \in DOMAIN tail : ~Admits(tail[i].kind)
        /\ Submits => HasRoom(session.hist)
    BY DEF AskInv
  <2>2. Admits(op'.kind) => Admits(op.kind)
    BY <1>1 DEF Admits
  <2>3. ASSUME Submits' PROVE HasRoom(session'.hist)
    <3>1. Submits
      <4>1. CASE \E i \in DOMAIN tail : tail[i].kind = "submit"
        BY <4>1 DEF Submits
      <4>2. CASE op'.kind = "submit" /\ op'.at # "quarantining"
        <5>1. op.kind = "submit" /\ op.at # "quarantining"
          BY <1>1, <4>2, NoOpIs DEF Admits
        <5> QED BY <5>1 DEF Submits
      <4> QED BY <1>1, <2>3, <4>1, <4>2 DEF Submits
    <3>2. HasRoom(session.hist)
      BY <2>1, <3>1
    <3>3. ~(kind = "submit" /\ (op'.kind = "submit" => op'.at = "quarantining"))
      <4> SUFFICES ASSUME kind = "submit", op'.kind = "submit" => op'.at = "quarantining" PROVE FALSE
        OBVIOUS
      <4>1. \E i \in DOMAIN tail : tail[i].kind = "submit"
        BY <1>1, <2>3 DEF Submits
      <4>2. op.kind = "submit"
        BY <1>1 DEF Admits
      <4> QED BY <2>1, <4>1, <4>2 DEF Admits
    <3> QED BY <3>2, <3>3
  <2> QED BY <1>1, <2>1, <2>2, <2>3 DEF AskInv
<1>2. CASE op = NoOp /\ tail # <<>> /\ Head(tail).kind = kind /\ tail' = Tail(tail)
  <2>1. /\ \A i, j \in DOMAIN tail : Admits(tail[i].kind) /\ Admits(tail[j].kind) => i = j
        /\ Submits => HasRoom(session.hist)
    BY DEF AskInv
  <2>2. /\ 1 \in DOMAIN tail /\ tail[1].kind = kind
        /\ \A i \in DOMAIN tail' : i \in Nat /\ i + 1 \in DOMAIN tail /\ i + 1 # 1 /\ tail'[i] = tail[i + 1]
    BY <1>0, <1>2, TailIs
  <2>3. \A i, j \in DOMAIN tail' : Admits(tail'[i].kind) /\ Admits(tail'[j].kind) => i = j
    <3> SUFFICES ASSUME NEW i \in DOMAIN tail', NEW j \in DOMAIN tail',
                        Admits(tail'[i].kind), Admits(tail'[j].kind)
                 PROVE  i = j
      OBVIOUS
    <3>1. i + 1 = j + 1 /\ i \in Nat /\ j \in Nat
      BY <2>1, <2>2
    <3> QED BY <3>1
  <2>4. Admits(op'.kind) => \A i \in DOMAIN tail' : ~Admits(tail'[i].kind)
    <3> SUFFICES ASSUME Admits(op'.kind), NEW i \in DOMAIN tail', Admits(tail'[i].kind) PROVE FALSE
      OBVIOUS
    <3>1. Admits(kind)
      BY DEF Admits
    <3> QED BY <2>1, <2>2, <3>1
  <2>5. ASSUME Submits' PROVE HasRoom(session'.hist)
    <3>1. CASE \E i \in DOMAIN tail' : tail'[i].kind = "submit"
      <4>1. PICK i \in DOMAIN tail' : tail'[i].kind = "submit"
        BY <3>1
      <4>2. i + 1 \in DOMAIN tail /\ i + 1 # 1 /\ tail[i + 1].kind = "submit"
        BY <2>2, <4>1
      <4>3. kind # "submit"
        BY <2>1, <2>2, <4>2 DEF Admits
      <4>4. HasRoom(session.hist)
        BY <2>1, <4>2 DEF Submits
      <4> QED BY <4>3, <4>4
    <3>2. CASE op'.kind = "submit" /\ op'.at # "quarantining"
      <4>1. kind = "submit"
        BY <3>2
      <4>2. HasRoom(session.hist)
        BY <2>1, <2>2, <4>1 DEF Submits
      <4> QED BY <3>2, <4>1, <4>2
    <3> QED BY <2>5, <3>1, <3>2 DEF Submits
  <2> QED BY <2>3, <2>4, <2>5 DEF AskInv
<1> QED BY <1>1, <1>2 DEF HasLock

\* Who has the lock finds room for the exec it submits.
LEMMA LockFacts ==
  ASSUME TypeOK, AskInv, NEW kind, HasLock(kind)
  PROVE  /\ tail' \in Seq(Waiters)
         /\ kind = "submit" /\ op.at # "quarantining" => HasRoom(session.hist)
<1>1. tail \in Seq(Waiters)
  BY DEF TypeOK
<1>2. CASE op # NoOp /\ (op.kind = kind \/ ~Admits(kind)) /\ tail' = tail
  BY <1>1, <1>2 DEF AskInv, Submits, Admits
<1>3. CASE op = NoOp /\ tail # <<>> /\ Head(tail).kind = kind /\ tail' = Tail(tail)
  BY <1>1, <1>3, TailIs DEF AskInv, Submits
<1> QED BY <1>2, <1>3 DEF HasLock

-----------------------------------------------------------------------------
(* What the operations of the lock share.                                  *)

\* A turn of the lock's holder, on a session the manager has.
Turn(kind) ==
    /\ HasLock(kind) /\ HoldsLock /\ listed
    /\ op.at # "quarantining"

\* The entry as a turn has it, before what it is about to do: no exec that ended goes
\* on, nor does one that runs wait again, and its runtime is the session's, or ended.
Midway(kind, s) ==
    /\ s \in Entries /\ Sound(s) /\ Later(session.hist, s.hist)
    /\ s.runtime \in {None, session.runtime}
    /\ s.runtime = None => session.runtime \in {None} \cup dead
    /\ kind # "submit" => (HasRoom(session.hist) => HasRoom(s.hist))

LEMMA HostsStay ==
  ASSUME HostInv, dead' = dead, ending' = ending, runtimes' = runtimes, runtimes \in Nat,
         session'.runtime \in {None, session.runtime},
         session'.runtime = None => session.runtime \in {None} \cup dead,
         op'.run \in {None, session.runtime, op.run},
         session'.runtime \in ending =>
            Revived' \/ (session'.status = "quarantined" /\ session'.queue = <<>>)
  PROVE  HostInv'
<1>1. /\ dead \cup ending \cup ({session.runtime, op.run} \ {None}) \subseteq 1..runtimes
      /\ \A r \in 1..runtimes \ dead : r = session.runtime
  BY DEF HostInv
<1>2. dead' \cup ending' \cup ({session'.runtime, op'.run} \ {None}) \subseteq 1..runtimes'
  BY <1>1
<1>3. \A r \in 1..runtimes' \ dead' : r = session'.runtime
  BY <1>1 DEF None
<1> QED BY <1>2, <1>3 DEF HostInv

LEMMA QuarantineKeeps ==
  ASSUME LifeInv, NEW kind \in Kinds, Turn(kind), NEW s, Midway(kind, s), NEW fault \in Faults,
         Quarantine(kind, s, fault)
  PROVE  LifeInv'
<1> DEFINE t == Quarantined(s)
<1>1. /\ session' = t /\ Persist(session', fault) /\ TellNothing /\ loops' = loops
      /\ op' = IF s.runtime = None THEN NoOp ELSE At(kind, "quarantining", s.runtime)
  BY DEF Quarantine
<1>2. /\ s \in Entries /\ Sound(s) /\ Later(session.hist, s.hist)
      /\ s.runtime \in {None, session.runtime}
      /\ s.runtime = None => session.runtime \in {None} \cup dead
      /\ kind # "submit" => (HasRoom(session.hist) => HasRoom(s.hist))
  BY DEF Midway
<1>3. /\ t \in Entries /\ Entry(t) /\ Idle(t)
      /\ t.status = "quarantined" /\ t.runtime = s.runtime /\ Follows(s.hist, t.hist)
  BY <1>2, QuarantinedIs
<1> HIDE DEF t
<1>4. /\ TypeOK /\ EntryInv /\ HostInv /\ LockInv /\ LoopInv /\ AskInv /\ DiskInv
      /\ HasLock(kind) /\ HoldsLock /\ listed /\ op.at # "quarantining"
  BY DEF LifeInv, Rest, Turn
<1>5. /\ op' \in {NoOp} \cup Holders /\ op'.kind \in {kind, "none"} /\ op'.run = s.runtime
      /\ op'.at \in {"none", "quarantining"} /\ (op'.kind = "submit" => op'.at = "quarantining")
      /\ (op' = NoOp \/ op'.run # None)
  <2>1. CASE s.runtime = None
    BY <1>1, <2>1, NoOpIs
  <2>2. CASE s.runtime # None
    <3>1. s.runtime \in {None} \cup Runtimes /\ "quarantining" \in Places
      BY <1>2, EntryFields DEF Places
    <3> DEFINE o == At(kind, "quarantining", s.runtime)
    <3>2. op' = o
      BY <1>1, <2>2
    <3>3. o \in Holders /\ o.kind = kind /\ o.at = "quarantining" /\ o.run = s.runtime
      BY <3>1, AtIs
    <3> HIDE DEF o
    <3> QED BY <2>2, <3>2, <3>3
  <2> QED BY <2>1, <2>2
<1>6. /\ disk' \in [catalog : {"none"} \cup Statuses, hist : Histories] /\ faults' \in 0..MaxTroubles
      /\ Ordered(disk'.hist)
  <2>1. Ordered(t.hist) /\ Ordered(disk.hist)
    BY <1>3, <1>4 DEF Entry, Sound, EntryInv
  <2> QED BY <1>1, <1>3, <1>4, <2>1, PersistIs
<1>7. Later(session.hist, session'.hist)
  BY <1>1, <1>2, <1>3, LaterIs, LaterStill
<1>8. TypeOK'
  <2>1. tail' \in Seq(Waiters) /\ loops' \subseteq LoopRecords
    BY <1>1, <1>4, LockFacts DEF TypeOK
  <2>2. told' \in [Execs -> {"none"} \cup Ends] /\ toldAnew' \in BOOLEAN
    BY <1>1, <1>4 DEF TypeOK, TellNothing
  <2> QED BY <1>1, <1>3, <1>4, <1>5, <1>6, <2>1, <2>2, TypeKeeps
<1>9. EntryInv'
  BY <1>1, <1>3, <1>4, <1>6, HoldsStill DEF EntryInv
<1>10. HostInv'
  <2>1. runtimes \in Nat /\ dead' = dead /\ ending' = ending /\ runtimes' = runtimes
    BY <1>4 DEF TypeOK, HoldsLock, hostVars
  <2>2. session'.status = "quarantined" /\ session'.queue = <<>> /\ session'.runtime = s.runtime
    BY <1>1, <1>3 DEF Idle
  <2> QED BY <1>2, <1>4, <1>5, <2>1, <2>2, HostsStay
<1>11. LockInv'
  <2>1. listed' /\ dead' = dead
    BY <1>4 DEF HoldsLock, entryVars, hostVars
  <2>2. /\ session'.status = "quarantined" /\ session'.runtime = s.runtime /\ Idle(session)'
        /\ session'.active # Boot
    BY <1>1, <1>3, <1>4, HoldsStill, Places3 DEF Idle
  <2> QED BY <1>5, <2>1, <2>2 DEF LockInv
<1>12. LoopInv'
  BY <1>1, <1>4, <1>7, LaterIs, LoopsKeep
<1>13. AskInv'
  <2>1. kind # "submit" => (HasRoom(session.hist) => HasRoom(session'.hist))
    BY <1>1, <1>2, <1>3, StaysOrdered DEF Entry, Sound
  <2> QED BY <1>4, <1>5, <2>1, AskKeeps
<1>14. WaitInv' /\ FifoInv'
  <2>1. Waits' = <<>>
    BY <1>1, <1>3, <1>5 DEF Waits, Idle
  <2>2. Still(session.hist)'
    BY <1>1, <1>3, <1>4, HoldsStill DEF Idle
  <2> QED BY <1>1, <1>3, <1>5, <2>1, <2>2, NoneWait
<1>15. DiskInv'
  <2>1. astray \subseteq astray' /\ listed' = listed /\ closed' = closed
    BY <1>4, HoldsStill DEF HoldsLock, entryVars
  <2>2. session' \in Entries /\ \A d \in Execs : session.hist[d] \in Ends => session'.hist[d] = session.hist[d]
    BY <1>1, <1>3, <1>7, LaterIs
  <2>3. "error" \in Ends /\ None \notin Execs
    BY Places3 DEF Ends
  <2> QED BY <1>1, <1>4, <2>1, <2>2, <2>3, DiskKeeps
<1>16. BootInv'
  BY <1>1, <1>3, <1>5 DEF BootInv, Idle
<1> QED BY <1>8, <1>9, <1>10, <1>11, <1>12, <1>13, <1>14, <1>15, <1>16 DEF LifeInv, Rest

LEMMA RangeIs ==
  ASSUME NEW q \in Seq(Execs)
  PROVE  /\ Range(q) = {q[i] : i \in DOMAIN q} /\ Range(q) \subseteq Execs
         /\ \A i \in DOMAIN q : q[i] \in Execs /\ i \in Nat
BY LenProperties, ElementOfSeq DEF Range

\* stopRuntime by the lock's holder: what is kept waits with it, all else ended.
LEMMA StopKeeps ==
  ASSUME LifeInv, NEW kind \in Kinds, Turn(kind), NEW s, Midway(kind, s), NEW kept \in Seq(Execs),
         NEW fault \in Faults, NEW e, NEW end \in Ends, TellEnd(e, end, fault) \/ TellNothing,
         e \in Execs /\ TellEnd(e, end, fault) => session.hist[e] \in Pending /\ s.hist[e] = end,
         s.runtime # None, session' = Stopping(s, Range(kept)), Persist(session', fault),
         op' \in Holders, op'.kind = kind, op'.run = s.runtime, op'.kept = kept, loops' = loops,
         op'.at \in {"stopping", "closing"}, op'.at = "closing" => kept = <<>>,
         HasRoom(session.hist) => HasRoom(s.hist), s.status = session.status,
         Once(kept), \A i \in DOMAIN kept : s.hist[kept[i]] \in {"queued"} \cup Ends,
         OnTime => \A i \in DOMAIN kept : s.hist[kept[i]] = "queued",
         OnTime /\ s.status = "quarantined" => kept = <<>>, astray = {} => Sorted(kept)
  PROVE  LifeInv'
<1> DEFINE t == Stopping(s, Range(kept))
<1>1. /\ session' = t /\ Persist(session', fault) /\ loops' = loops
  OBVIOUS
<1>2. /\ s \in Entries /\ Sound(s) /\ Later(session.hist, s.hist)
      /\ s.runtime = session.runtime
  BY DEF Midway
<1>2a. Range(kept) = {kept[i] : i \in DOMAIN kept} /\ Range(kept) \subseteq Execs
  BY RangeIs
<1>2b. \A x \in Range(kept) : x \in Execs => s.hist[x] # "running"
  BY <1>2a DEF Ends
<1>3. /\ t \in Entries /\ Idle(t) /\ t.status = s.status /\ t.runtime = s.runtime
      /\ t.hist = StopHist(s, Range(kept)) /\ Follows(s.hist, t.hist) /\ Ordered(t.hist)
  BY <1>2, <1>2b, StoppingIs
<1> HIDE DEF t
<1>4. /\ TypeOK /\ EntryInv /\ HostInv /\ LockInv /\ LoopInv /\ AskInv /\ DiskInv
      /\ HasLock(kind) /\ HoldsLock /\ listed /\ op.at # "quarantining"
  BY DEF LifeInv, Rest, Turn
<1>5. op' # NoOp /\ op'.run # None
  BY NoOpIs DEF Kinds
<1>6. /\ disk' \in [catalog : {"none"} \cup Statuses, hist : Histories] /\ faults' \in 0..MaxTroubles
      /\ Ordered(disk'.hist)
  <2>1. Ordered(t.hist) /\ Ordered(disk.hist)
    BY <1>3, <1>4 DEF EntryInv
  <2> QED BY <1>1, <1>3, <1>4, <2>1, PersistIs
<1>7. Later(session.hist, session'.hist)
  BY <1>1, <1>2, <1>3, LaterIs, LaterStill
<1>8. TypeOK'
  <2>1. tail' \in Seq(Waiters) /\ loops' \subseteq LoopRecords
    BY <1>1, <1>4, LockFacts DEF TypeOK
  <2>2. told' \in [Execs -> {"none"} \cup Ends] /\ toldAnew' \in BOOLEAN
    BY <1>4, TellIs
  <2> QED BY <1>1, <1>3, <1>4, <1>6, <2>1, <2>2, TypeKeeps
<1>9. EntryInv'
  <2>1. t.status # "closed"
    BY <1>2, <1>3, <1>4 DEF EntryInv, Entry
  <2>1a. Entry(t)
    BY <1>2, <1>3, <2>1, Places3 DEF Entry, Sound, Idle
  <2> QED BY <1>1, <1>4, <1>6, <2>1a, HoldsStill DEF EntryInv
<1>10. HostInv'
  <2>1. runtimes \in Nat /\ dead' = dead /\ ending' = ending /\ runtimes' = runtimes
    BY <1>4 DEF TypeOK, HoldsLock, hostVars
  <2>2. session'.runtime = session.runtime /\ session'.queue = <<>>
    BY <1>1, <1>2, <1>3 DEF Idle
  <2>3. session'.runtime \in ending => Revived' \/ session'.status = "quarantined"
    <3>1. session'.status = session.status
      BY <1>1, <1>3
    <3> QED BY <1>2, <1>4, <2>2, <3>1, HoldsStill DEF HostInv
  <2> QED BY <1>2, <1>4, <1>5, <2>1, <2>2, <2>3, HostsStay
<1>11. LockInv'
  <2>1. listed' /\ dead' = dead
    BY <1>4 DEF HoldsLock, entryVars, hostVars
  <2>2. /\ session'.status # "closed" /\ session'.runtime = s.runtime /\ Idle(session)'
        /\ session'.active # Boot
    BY <1>1, <1>2, <1>3, <1>4, HoldsStill, Places3 DEF Idle, EntryInv, Entry
  <2> QED BY <1>5, <2>1, <2>2 DEF LockInv
<1>12. LoopInv'
  BY <1>1, <1>4, <1>7, LaterIs, LoopsKeep
<1>13. AskInv'
  <2>1. HasRoom(session.hist) => HasRoom(session'.hist)
    BY <1>1, <1>2, <1>3, StaysOrdered DEF Sound
  <2> QED BY <1>4, <2>1, AskKeeps
<1>14. /\ Waits' = kept
       /\ \A i \in DOMAIN kept : session'.hist[kept[i]] = s.hist[kept[i]]
  <2>1. Waits' = kept
    BY <1>1, <1>3 DEF Waits, Idle
  <2>2. \A i \in DOMAIN kept : kept[i] \in Execs /\ kept[i] \in Range(kept)
    BY RangeIs
  <2>3. \A i \in DOMAIN kept : session'.hist[kept[i]] = s.hist[kept[i]]
    BY <1>1, <1>3, <2>2 DEF StopHist
  <2> QED BY <2>1, <2>3
<1>15. WaitInv'
  <2>1. (OnTime' => OnTime) /\ session'.status = s.status
    BY <1>1, <1>3, <1>4, HoldsStill
  <2> QED BY <1>14, <2>1 DEF WaitInv
<1>16. FifoInv'
  <2>1. astray' = {} => astray = {} /\ Runs(session'.hist) = {}
    BY <1>1, <1>3, <1>4, HoldsStill DEF Idle, Still
  <2>2. Queues(session'.hist) \subseteq Range(kept)
    BY <1>1, <1>3 DEF StopHist, Queues, Pending
  <2> QED BY <1>14, <2>1, <2>2 DEF FifoInv
<1>17. DiskInv'
  <2>1. astray \subseteq astray' /\ listed' = listed /\ closed' = closed
    BY <1>4, HoldsStill DEF HoldsLock, entryVars
  <2>2. session' \in Entries /\ \A d \in Execs : session.hist[d] \in Ends => session'.hist[d] = session.hist[d]
    BY <1>1, <1>3, <1>7, LaterIs
  <2>3. e \in Execs /\ TellEnd(e, end, fault) => session.hist[e] \in Pending /\ session'.hist[e] = end
    BY <1>1, <1>3 DEF StopHist, Pending, Ends
  <2> QED BY <1>1, <1>4, <2>1, <2>2, <2>3, DiskKeeps
<1>18. BootInv'
  BY <1>1, <1>3 DEF BootInv, Idle
<1> QED BY <1>8, <1>9, <1>10, <1>11, <1>12, <1>13, <1>15, <1>16, <1>17, <1>18 DEF LifeInv, Rest

LEMMA SessionMidway ==
  ASSUME LifeInv, NEW kind
  PROVE  Midway(kind, session) /\ Later(session.hist, session.hist)
<1>1. session \in Entries /\ Sound(session)
  BY DEF LifeInv, Rest, TypeOK, EntryInv, Entry
<1>2. Later(session.hist, session.hist)
  BY DEF Later
<1> QED BY <1>1, <1>2 DEF Midway

\* The lock's holder is to launch a runtime, where the session has none.
LEMMA BeginsKeeps ==
  ASSUME LifeInv, NEW kind \in Kinds, Turn(kind), op.at \notin {"stopping", "starting"},
         NEW x \in Statuses \ {"closed"}, session' = [session EXCEPT !.status = x],
         session.runtime = None, session.status # "closed",
         x = "quarantined" <=> session.status = "quarantined",
         NEW fault \in Faults, \/ Persist(session', fault)
                               \/ disk' = disk /\ faults' = faults,
         op' = At(kind, "starting", None), TellNothing, loops' = loops
  PROVE  LifeInv'
<1>1. /\ TypeOK /\ EntryInv /\ HostInv /\ LockInv /\ LoopInv /\ AskInv /\ DiskInv
      /\ WaitInv /\ FifoInv /\ BootInv
      /\ HasLock(kind) /\ HoldsLock /\ listed /\ op.at # "quarantining"
  BY DEF LifeInv, Rest, Turn
<1>2. /\ session' \in Entries /\ session'.status = x /\ session'.hist = session.hist
      /\ session'.runtime = None /\ session'.queue = session.queue /\ session'.active = session.active
      /\ session'.endHeld = session.endHeld /\ session'.subscribed = session.subscribed
  BY <1>1, StatusIs DEF TypeOK
<1>3. session \in Entries /\ Sound(session) /\ Entry(session) /\ Idle(session)
  BY <1>1 DEF TypeOK, EntryInv, Entry, Sound
<1>4. Idle(session') /\ Entry(session') /\ Ordered(session.hist)
  BY <1>2, <1>3, Places3 DEF Idle, Entry, Sound
<1>5. /\ op' \in Holders /\ op'.kind = kind /\ op'.at = "starting" /\ op'.run = None
      /\ op'.kept = <<>> /\ op' # NoOp
  <2>1. "starting" \in Places /\ None \in {None} \cup Runtimes
    BY DEF Places
  <2> QED BY <2>1, AtIs
<1>6. /\ disk' \in [catalog : {"none"} \cup Statuses, hist : Histories] /\ faults' \in 0..MaxTroubles
      /\ Ordered(disk'.hist)
  <2>1. CASE Persist(session', fault)
    BY <1>1, <1>2, <1>4, <2>1, PersistIs DEF EntryInv
  <2>2. CASE disk' = disk /\ faults' = faults
    BY <1>1, <2>2 DEF EntryInv, TypeOK
  <2> QED BY <2>1, <2>2
<1>7. TypeOK'
  <2>1. tail' \in Seq(Waiters) /\ loops' \subseteq LoopRecords
    BY <1>1, LockFacts DEF TypeOK
  <2>2. told' \in [Execs -> {"none"} \cup Ends] /\ toldAnew' \in BOOLEAN
    BY <1>1 DEF TypeOK, TellNothing
  <2> QED BY <1>1, <1>2, <1>5, <1>6, <2>1, <2>2, TypeKeeps
<1>8. EntryInv'
  BY <1>1, <1>4, <1>6, HoldsStill DEF EntryInv
<1>9. HostInv'
  <2>1. runtimes \in Nat /\ dead' = dead /\ ending' = ending /\ runtimes' = runtimes
    BY <1>1 DEF TypeOK, HoldsLock, hostVars
  <2>2. None \notin ending
    BY <1>1, Places3 DEF TypeOK
  <2> QED BY <1>1, <1>2, <1>5, <2>1, <2>2, HostsStay
<1>10. LockInv'
  <2>1. listed' /\ dead' = dead
    BY <1>1 DEF HoldsLock, entryVars, hostVars
  <2> QED BY <1>2, <1>4, <1>5, <2>1, Places3 DEF LockInv, Idle
<1>11. LoopInv'
  BY <1>1, <1>2, LoopsKeep
<1>12. AskInv'
  BY <1>1, <1>2, <1>5, AskKeeps
<1>13. WaitInv' /\ FifoInv'
  <2>1. Waits = <<>> /\ Waits' = <<>> /\ DOMAIN <<>> = {}
    BY <1>1, <1>3, <1>5 DEF Waits, Idle
  <2>2. (astray' = {} => astray = {}) /\ (OnTime' => OnTime)
    BY <1>1, HoldsStill
  <2>3. WaitInv'
    BY <2>1 DEF WaitInv, Once
  <2>4. FifoInv'
    BY <1>1, <1>2, <1>3, <1>4, <1>5, <2>1, <2>2 DEF FifoInv, Idle, Sorted
  <2> QED BY <2>3, <2>4
<1>14. DiskInv'
  <2>1. astray \subseteq astray' /\ listed' = listed /\ closed' = closed
    BY <1>1, HoldsStill DEF HoldsLock, entryVars
  <2>2. \A d \in Execs : session.hist[d] \in Ends => session'.hist[d] = session.hist[d]
    BY <1>2
  <2>3. "error" \in Ends /\ None \notin Execs
    BY Places3 DEF Ends
  <2>4. CASE Persist(session', fault)
    BY <1>1, <1>2, <2>1, <2>2, <2>3, <2>4, DiskKeeps
  <2>5. CASE disk' = disk /\ faults' = faults
    BY <1>1, <2>1, <2>2, <2>5, DiskStays
  <2> QED BY <2>4, <2>5
<1>15. BootInv'
  BY <1>4, <1>5 DEF BootInv, Idle
<1> QED BY <1>7, <1>8, <1>9, <1>10, <1>11, <1>12, <1>13, <1>14, <1>15 DEF LifeInv, Rest

LEMMA SameStatus ==
  ASSUME NEW s \in Entries
  PROVE  s = [s EXCEPT !.status = s.status]
BY DEF Entries

LEMMA RecycleKeeps ==
  ASSUME LifeInv, NEW kind \in Kinds, Turn(kind), op.at \notin {"stopping", "starting"},
         session.status # "closed", NEW fault \in Faults, Recycle(kind, session, fault)
  PROVE  LifeInv'
<1>1. /\ TypeOK /\ EntryInv /\ HostInv /\ WaitInv /\ FifoInv
  BY DEF LifeInv, Rest
<1>2. Midway(kind, session)
  BY SessionMidway
<1>3. session \in Entries /\ session.queue \in Seq(Execs) /\ session.runtime \in {None} \cup Runtimes
  BY <1>1, EntryFields DEF TypeOK
<1>4. CASE Quarantine(kind, session, fault)
  BY <1>2, <1>4, QuarantineKeeps
<1>5. CASE /\ session.runtime # None
           /\ session' = Stopping(session, Range(session.queue))
           /\ Persist(session', fault)
           /\ op' = [At(kind, "stopping", session.runtime) EXCEPT
                        !.kept = session.queue, !.failed = (fault # "none")]
           /\ TellNothing /\ UNCHANGED loops
  <2>1. PICK q \in Seq(Execs) : q = session.queue
    BY <1>3
  <2>2. op' \in Holders /\ op'.kind = kind /\ op'.run = session.runtime /\ op'.kept = q /\ op'.at = "stopping"
    <3>1. PICK o : o = At(kind, "stopping", session.runtime)
      OBVIOUS
    <3>2. o \in Holders /\ o.kind = kind /\ o.at = "stopping" /\ o.run = session.runtime
      <4>1. "stopping" \in Places
        BY DEF Places
      <4> QED BY <1>3, <3>1, <4>1, AtIs
    <3>3. op' = [o EXCEPT !.kept = q, !.failed = (fault # "none")]
      BY <1>5, <2>1, <3>1
    <3> QED BY <3>2, <3>3 DEF Holders
  <2>3. Waits = q
    BY <2>1 DEF Waits
  <2>4. /\ Once(q) /\ \A i \in DOMAIN q : session.hist[q[i]] \in {"queued"} \cup Ends
        /\ OnTime => \A i \in DOMAIN q : session.hist[q[i]] = "queued"
        /\ OnTime /\ session.status = "quarantined" => q = <<>>
        /\ astray = {} => Sorted(q)
    BY <1>1, <2>3 DEF WaitInv, FifoInv
  <2>5. "error" \in Ends /\ None \notin Execs
    BY Places3 DEF Ends
  <2>6. session' = Stopping(session, Range(q)) /\ loops' = loops
    BY <1>5, <2>1
  <2> QED BY <1>2, <1>5, <2>2, <2>4, <2>5, <2>6, StopKeeps, ZenonT(40)
<1>6. CASE /\ session.runtime = None /\ fault = "none"
           /\ session' = session /\ op' = At(kind, "starting", None)
           /\ TellNothing /\ UNCHANGED <<disk, faults, spent, loops>>
  <2>1. session.status \in Statuses \ {"closed"}
    BY <1>3, EntryFields
  <2>2. session' = [session EXCEPT !.status = session.status]
    BY <1>3, <1>6, SameStatus
  <2>3. PICK x \in Statuses \ {"closed"} : x = session.status
    BY <2>1
  <2> QED BY <1>6, <2>2, <2>3, BeginsKeeps
<1> QED BY <1>4, <1>5, <1>6 DEF Recycle

\* The turn persists the session and is over, and what waits is run.
LEMMA RunsOnKeeps ==
  ASSUME LifeInv, NEW kind \in Kinds, Turn(kind), NEW s, Midway(kind, s), Entry(s),
         op.at \notin {"stopping", "starting"}, session.status # "quarantined" \/ Revived',
         s.runtime = session.runtime, s.status \notin {"quarantined", "closed"},
         s.active = session.active, s.active # Boot, s.endHeld = session.endHeld,
         s.resolved = session.resolved, \A e \in Execs : s.hist[e] = "running" => session.hist[e] = "running",
         session' = s, Persist(session', "none"), op' = NoOp, loops' = loops \cup Drained(s), TellNothing,
         Once(s.queue), \A i \in DOMAIN s.queue : s.hist[s.queue[i]] \in {"queued"} \cup Ends,
         OnTime => \A i \in DOMAIN s.queue : s.hist[s.queue[i]] = "queued",
         astray' = {} => /\ Sorted(s.queue) /\ Queues(s.hist) \subseteq Range(s.queue)
                         /\ \A e \in Runs(s.hist), d \in Queues(s.hist) : e < d
  PROVE  LifeInv'
<1>1. /\ TypeOK /\ EntryInv /\ HostInv /\ LockInv /\ LoopInv /\ AskInv /\ DiskInv
      /\ WaitInv /\ FifoInv /\ BootInv
      /\ HasLock(kind) /\ HoldsLock /\ listed /\ op.at # "quarantining"
  BY DEF LifeInv, Rest, Turn
<1>2. /\ s \in Entries /\ Sound(s) /\ Later(session.hist, s.hist)
      /\ s.runtime = session.runtime
      /\ kind # "submit" => (HasRoom(session.hist) => HasRoom(s.hist))
  BY DEF Midway
<1>3. "none" \in Faults
  BY DEF Faults
<1>4. /\ disk' \in [catalog : {"none"} \cup Statuses, hist : Histories] /\ faults' \in 0..MaxTroubles
      /\ Ordered(disk'.hist)
  BY <1>1, <1>2, <1>3, PersistIs DEF EntryInv, Sound
<1>5. loops' \subseteq loops \cup {Top} /\ Top \in LoopRecords
  BY DEF Drained, Top, LoopRecords
<1>6. TypeOK'
  <2>1. tail' \in Seq(Waiters) /\ loops' \subseteq LoopRecords
    BY <1>1, <1>5, LockFacts DEF TypeOK
  <2>2. told' \in [Execs -> {"none"} \cup Ends] /\ toldAnew' \in BOOLEAN
    BY <1>1 DEF TypeOK, TellNothing
  <2> QED BY <1>1, <1>2, <1>4, <2>1, <2>2, TypeKeeps
<1>7. EntryInv'
  BY <1>1, <1>4, HoldsStill DEF EntryInv
<1>8. HostInv'
  <2>1. runtimes \in Nat /\ dead' = dead /\ ending' = ending /\ runtimes' = runtimes
    BY <1>1 DEF TypeOK, HoldsLock, hostVars
  <2>2. session.runtime \in ending => Revived'
    BY <1>1, HoldsStill DEF HostInv
  <2> QED BY <1>1, <1>2, <2>1, <2>2, NoOpIs, HostsStay
<1>9. LockInv'
  <2>1. listed'
    BY <1>1 DEF HoldsLock, entryVars
  <2> QED BY <2>1, NoOpIs DEF LockInv
<1>10. LoopInv'
  BY <1>1, <1>2, <1>5, LaterIs, LoopsKeep
<1>11. AskInv'
  BY <1>1, <1>2, NoOpIs, AskKeeps
<1>12. WaitInv' /\ FifoInv'
  <2>1. Waits' = s.queue /\ Waits = session.queue
    BY NoOpIs DEF Waits
  <2>2. (astray' = {} => astray = {}) /\ (OnTime' => OnTime)
    BY <1>1, HoldsStill
  <2>3. WaitInv'
    BY <2>1, <2>2 DEF WaitInv
  <2>4. astray = {} => Runs(s.hist) \subseteq {s.active}
    BY <1>1 DEF FifoInv, Runs
  <2>5. FifoInv'
    BY <2>1, <2>2, <2>4, NoOpIs DEF FifoInv
  <2> QED BY <2>3, <2>5
<1>13. DiskInv'
  <2>1. astray \subseteq astray' /\ listed' = listed /\ closed' = closed
    BY <1>1, HoldsStill DEF HoldsLock, entryVars
  <2>2. \A d \in Execs : session.hist[d] \in Ends => session'.hist[d] = session.hist[d]
    BY <1>2, LaterIs
  <2>3. "error" \in Ends /\ None \notin Execs
    BY Places3 DEF Ends
  <2> QED BY <1>1, <1>2, <1>3, <2>1, <2>2, <2>3, DiskKeeps
<1>14. BootInv'
  <2>1. saved' = saved /\ delayed' = delayed
    BY <1>1 DEF HoldsLock, serverVars, entryVars
  <2>2. session.endHeld /\ ~saved => Quiet'
    BY <1>1, <1>5, <2>1 DEF BootInv, Quiet, Top
  <2> QED BY <2>1, <2>2, NoOpIs DEF BootInv
<1> QED BY <1>6, <1>7, <1>8, <1>9, <1>10, <1>11, <1>12, <1>13, <1>14 DEF LifeInv, Rest

\* The session's entry, but for its status and whether its runtime is heard.
Like(s) ==
    /\ s \in Entries /\ Entry(s) /\ s.hist = session.hist /\ s.runtime = session.runtime
    /\ s.queue = session.queue /\ s.active = session.active /\ s.endHeld = session.endHeld
    /\ s.resolved = session.resolved

\* An exec that is submitted comes last.
LEMMA LastIs ==
  ASSUME NEW q \in Seq(Execs), NEW n \in Execs, Once(q), n \notin Range(q)
  PROVE  /\ Once(Append(q, n)) /\ Range(Append(q, n)) = Range(q) \cup {n}
         /\ DOMAIN Append(q, n) = DOMAIN q \cup {Len(q) + 1} /\ Append(q, n)[Len(q) + 1] = n
         /\ \A i \in DOMAIN q : Append(q, n)[i] = q[i] /\ i < Len(q) + 1
<1>1. Len(q) \in Nat /\ DOMAIN q = 1..Len(q) /\ Range(q) = {q[i] : i \in DOMAIN q}
  BY LenProperties, RangeIs
<1>2. /\ DOMAIN Append(q, n) = 1..(Len(q) + 1) /\ Append(q, n)[Len(q) + 1] = n
      /\ \A i \in 1..Len(q) : Append(q, n)[i] = q[i]
      /\ Append(q, n) \in Seq(Execs)
  BY <1>1, AppendProperties, LenProperties
<1>3. 1..(Len(q) + 1) = (1..Len(q)) \cup {Len(q) + 1}
  BY <1>1
<1>4. Once(Append(q, n))
  BY <1>1, <1>2, <1>3 DEF Once
<1>5. Range(Append(q, n)) = Range(q) \cup {n}
  <2>1. Range(Append(q, n)) = {Append(q, n)[i] : i \in DOMAIN Append(q, n)}
    BY <1>2, RangeIs
  <2>2. \A x \in Range(Append(q, n)) : x \in Range(q) \cup {n}
    BY <1>1, <1>2, <1>3, <2>1
  <2>3. \A x \in Range(q) : x \in Range(Append(q, n))
    <3> SUFFICES ASSUME NEW i \in DOMAIN q PROVE q[i] \in Range(Append(q, n))
      BY <1>1
    <3>1. i \in DOMAIN Append(q, n) /\ Append(q, n)[i] = q[i]
      BY <1>1, <1>2, <1>3
    <3> QED BY <2>1, <3>1
  <2>4. n \in Range(Append(q, n))
    BY <1>2, <1>3, <2>1
  <2> QED BY <2>2, <2>3, <2>4
<1> QED BY <1>1, <1>2, <1>3, <1>4, <1>5

LEMMA SubmitKeeps ==
  ASSUME LifeInv, Turn("submit"), NEW s, Like(s), op.at \notin {"stopping", "starting"},
         session.status # "quarantined" \/ session'.status = "quarantined" \/ Revived',
         s.status \notin {"quarantined", "closed"},
         s.runtime # None, s.active # Boot, NEW fault \in Faults, Submit(s, fault)
  PROVE  LifeInv'
<1>1. /\ TypeOK /\ EntryInv /\ WaitInv /\ FifoInv /\ AskInv /\ LockInv /\ HasLock("submit")
      /\ op.at # "quarantining" /\ listed
  BY DEF LifeInv, Rest, Turn
<1>1a. HoldsLock
  BY DEF Turn
<1>2. /\ s \in Entries /\ Entry(s) /\ s.hist = session.hist /\ s.runtime = session.runtime
      /\ s.queue = session.queue /\ s.active = session.active /\ s.endHeld = session.endHeld
      /\ s.resolved = session.resolved
  BY DEF Like
<1>3. HasRoom(s.hist) /\ Ordered(s.hist)
  BY <1>1, <1>2, LockFacts DEF Entry, Sound
<1>4. PICK n : n = NextExec(s)
  OBVIOUS
<1>5. /\ n \in Execs /\ s.hist[n] = "none"
      /\ \A d \in Execs : d < n => s.hist[d] # "none"
      /\ \A d \in Execs : s.hist[d] # "none" => d < n
  BY <1>2, <1>3, <1>4, NextExecIs
<1>6. PICK t : t = Queued(s, n)
  OBVIOUS
<1>7. /\ t \in Entries /\ t.status = s.status /\ t.runtime = s.runtime /\ t.active = s.active
      /\ t.endHeld = s.endHeld /\ t.subscribed = s.subscribed /\ t.resolved = s.resolved
      /\ t.queue = Append(s.queue, n) /\ t.hist[n] = "queued"
      /\ \A d \in Execs : d # n => t.hist[d] = s.hist[d]
  BY <1>2, <1>5, <1>6, QueuedIs
<1>8. Ordered(t.hist)
  BY <1>3, <1>5, <1>7 DEF Ordered
<1>9. Later(session.hist, t.hist)
  BY <1>2, <1>5, <1>7 DEF Later, Ends
<1>10. Midway("submit", t)
  BY <1>2, <1>7, <1>8, <1>9 DEF Midway, Sound
<1>11. "submit" \in Kinds
  BY DEF Kinds
<1>12. CASE fault # "none"
  BY <1>4, <1>6, <1>10, <1>11, <1>12, QuarantineKeeps DEF Submit
<1>13. CASE fault = "none"
  <2>1. /\ session' = t /\ Persist(session', "none") /\ op' = NoOp /\ TellNothing
        /\ loops' = loops \cup Drained(t)
    BY <1>4, <1>6, <1>13 DEF Submit
  <2>2. \A e \in Execs : t.hist[e] = "running" => session.hist[e] = "running" /\ e # n
    BY <1>2, <1>7
  <2>3. Entry(t)
    BY <1>2, <1>5, <1>7, <1>8, Places3 DEF Entry, Sound, Runs
  <2>4. Waits = session.queue /\ session.queue \in Seq(Execs)
    BY <1>2, EntryFields DEF Waits
  <2>5. \A i \in DOMAIN session.queue : session.queue[i] \in Execs /\ session.queue[i] < n
    <3>1. \A i \in DOMAIN session.queue : session.queue[i] \in Execs
      BY <2>4, RangeIs
    <3> QED BY <1>1, <1>2, <1>5, <2>4, <3>1 DEF WaitInv, Ends
  <2>6. n \notin Range(session.queue) /\ Once(session.queue)
    BY <1>1, <1>5, <2>4, <2>5, RangeIs DEF WaitInv, Execs
  <2>7. /\ Once(t.queue) /\ Range(t.queue) = Range(session.queue) \cup {n}
        /\ DOMAIN t.queue = DOMAIN session.queue \cup {Len(session.queue) + 1}
        /\ t.queue[Len(session.queue) + 1] = n
        /\ \A i \in DOMAIN session.queue : t.queue[i] = session.queue[i] /\ i < Len(session.queue) + 1
    BY <1>2, <1>5, <1>7, <2>4, <2>6, LastIs
  <2>8. \A i \in DOMAIN session.queue : t.hist[t.queue[i]] = session.hist[session.queue[i]]
    BY <1>2, <1>5, <1>7, <2>5, <2>7 DEF Execs
  <2>9. /\ \A i \in DOMAIN t.queue : t.hist[t.queue[i]] \in {"queued"} \cup Ends
        /\ OnTime => \A i \in DOMAIN t.queue : t.hist[t.queue[i]] = "queued"
    BY <1>1, <1>7, <2>4, <2>7, <2>8 DEF WaitInv
  <2>9a. session.status # "quarantined" \/ Revived'
    BY <1>7, <2>1
  <2>9b. astray' = {} => astray = {} /\ session.status # "quarantined"
    BY <1>1a, <2>9a, HoldsStill DEF Revived
  <2>10. ASSUME astray' = {}
         PROVE  /\ Sorted(t.queue) /\ Queues(t.hist) \subseteq Range(t.queue)
                /\ \A e \in Runs(t.hist), d \in Queues(t.hist) : e < d
    <3>1. /\ Sorted(session.queue) /\ Queues(session.hist) \subseteq Range(session.queue)
          /\ \A e \in Runs(session.hist), d \in Queues(session.hist) : e < d
      BY <1>1, <1>2, <2>4, <2>9b, <2>10 DEF FifoInv, EntryInv, Entry
    <3>2. Sorted(t.queue)
      <4> SUFFICES ASSUME NEW i \in DOMAIN t.queue, NEW j \in DOMAIN t.queue, i < j
                   PROVE  t.queue[i] < t.queue[j]
        BY DEF Sorted
      <4>1. \A k \in DOMAIN session.queue : k \in Nat
        BY <2>4, RangeIs
      <4>2. i \in DOMAIN session.queue
        <5>1. Len(session.queue) \in Nat
          BY <2>4, LenProperties
        <5> QED BY <2>7, <4>1, <5>1
      <4>3. CASE j \in DOMAIN session.queue
        BY <2>7, <3>1, <4>2, <4>3 DEF Sorted
      <4>4. CASE j = Len(session.queue) + 1
        BY <2>5, <2>7, <4>2, <4>4
      <4> QED BY <2>7, <4>3, <4>4
    <3>3. Queues(t.hist) \subseteq Queues(session.hist) \cup {n}
      BY <1>2, <1>7 DEF Queues
    <3>4. \A e \in Runs(t.hist) : e \in Runs(session.hist) /\ e < n
      BY <1>2, <1>5, <2>2 DEF Runs
    <3> QED BY <2>7, <3>1, <3>2, <3>3, <3>4
  <2> QED BY <1>2, <1>7, <1>10, <1>11, <2>1, <2>2, <2>3, <2>7, <2>9, <2>9a, <2>10, RunsOnKeeps, ZenonT(40)
<1> QED BY <1>12, <1>13

LEMMA LikeMidway ==
  ASSUME LifeInv, NEW s, Like(s), NEW kind
  PROVE  Midway(kind, s)
<1>1. Later(session.hist, session.hist)
  BY SessionMidway
<1> QED BY <1>1 DEF Like, Midway, Entry

LEMMA BackKeeps ==
  ASSUME LifeInv, NEW kind \in Kinds, Turn(kind), NEW s, Like(s), op.at \notin {"stopping", "starting"},
         session.status # "quarantined" \/ session'.status = "quarantined" \/ Revived',
         session.status # "closed", kind = "submit" => s.runtime # None,
         s.active # Boot, NEW fault \in Faults, Back(kind, s, fault)
  PROVE  LifeInv'
<1>1. PICK t : t = [s EXCEPT !.status = "live_idle"]
  OBVIOUS
<1>2. /\ t.status = "live_idle" /\ t.runtime = s.runtime /\ t.active = s.active /\ Like(t)
  <2>1. "live_idle" \in Statuses
    BY DEF Statuses
  <2> QED BY <1>1, <2>1, StatusIs DEF Like
<1>3. Midway(kind, t)
  BY <1>2, LikeMidway
<1>4. CASE kind = "submit"
  <2>1. Submit(t, fault)
    BY <1>1, <1>4 DEF Back
  <2>2. session.status # "quarantined" \/ session'.status = "quarantined" \/ Revived'
    OBVIOUS
  <2> QED BY <1>2, <1>4, <2>1, <2>2, SubmitKeeps
<1>5. CASE kind # "submit" /\ fault # "none"
  <2>1. Quarantine(kind, t, fault)
    BY <1>1, <1>5 DEF Back
  <2> QED BY <1>3, <2>1, QuarantineKeeps
<1>6. CASE kind # "submit" /\ fault = "none"
  <2>1. /\ session' = t /\ Persist(session', "none") /\ op' = NoOp /\ TellNothing
        /\ loops' = loops \cup Drained(t)
    BY <1>1, <1>6 DEF Back
  <2>2. /\ Entry(t) /\ t.hist = session.hist /\ t.runtime = session.runtime
        /\ t.queue = session.queue /\ t.active = session.active /\ t.endHeld = session.endHeld
        /\ t.resolved = session.resolved
    BY <1>2 DEF Like
  <2>3. Waits = t.queue
    BY <2>2 DEF Waits
  <2>3a. session.status # "quarantined" \/ Revived'
    BY <1>2, <2>1
  <2>3b. astray' = {} => astray = {} /\ session.status # "quarantined"
    BY <2>3a, HoldsStill DEF Revived, Turn
  <2>4. WaitInv /\ FifoInv
    BY DEF LifeInv, Rest
  <2>5. /\ Once(t.queue) /\ \A i \in DOMAIN t.queue : t.hist[t.queue[i]] \in {"queued"} \cup Ends
        /\ OnTime => \A i \in DOMAIN t.queue : t.hist[t.queue[i]] = "queued"
        /\ astray' = {} => /\ Sorted(t.queue) /\ Queues(t.hist) \subseteq Range(t.queue)
                           /\ \A e \in Runs(t.hist), d \in Queues(t.hist) : e < d
    BY <2>2, <2>3, <2>3b, <2>4 DEF WaitInv, FifoInv
  <2>6. \A e \in Execs : t.hist[e] = "running" => session.hist[e] = "running"
    BY <2>2
  <2> QED BY <1>2, <1>3, <2>1, <2>2, <2>3a, <2>5, <2>6, RunsOnKeeps
<1> QED BY <1>4, <1>5, <1>6

LEMMA HydrateKeeps ==
  ASSUME LifeInv, NEW kind \in Kinds, Turn(kind), op.at \in {"prompting", "clearing"}, op.kind = kind,
         tail' = tail, NEW s, Like(s), s.status = session.status,
         kind = "submit" => s.runtime # None,
         NEW fault \in Faults, Hydrate(kind, s, fault),
         session.status # "quarantined" \/ session'.status = "quarantined" \/ Revived'
  PROVE  LifeInv'
<1>1. /\ TypeOK /\ EntryInv /\ HostInv /\ LockInv /\ LoopInv /\ AskInv /\ DiskInv
      /\ WaitInv /\ FifoInv /\ BootInv
      /\ HasLock(kind) /\ HoldsLock /\ listed /\ op.at # "quarantining"
  BY DEF LifeInv, Rest, Turn
<1>2. /\ session \in Entries /\ Entry(session) /\ op # NoOp /\ op.run # None
      /\ session.active # Boot /\ op \in Holders
      /\ session.hist \in Histories /\ session.status # "closed"
  BY <1>1, NoOpIs, EntryFields DEF TypeOK, EntryInv, LockInv
<1>2a. /\ s \in Entries /\ Entry(s) /\ Sound(s) /\ s.hist = session.hist /\ s.runtime = session.runtime
       /\ s.queue = session.queue /\ s.active = session.active /\ s.resolved = session.resolved
  BY DEF Like, Entry
<1>3. CASE ~(durable /\ boots)
  <2>1. Back(kind, s, fault)
    BY <1>3 DEF Hydrate
  <2> QED BY <1>2, <1>2a, <2>1, BackKeeps
<1>4. CASE durable /\ boots /\ s.runtime = None
  <2>1. Quarantine(kind, s, fault)
    BY <1>4 DEF Hydrate
  <2> QED BY <2>1, LikeMidway, QuarantineKeeps
<1>5. CASE durable /\ boots /\ s.runtime # None
  <2>0. PICK over \in SUBSET (1..Boot) :
            over = IF s.runtime \in dead THEN s.resolved \cup {Boot} ELSE s.resolved \ {Boot}
    BY <1>2a, Places3, EntryFields
  <2>1. PICK u : u = [s EXCEPT !.status = "live_busy", !.active = Boot,
                               !.interrupted = FALSE, !.endHeld = FALSE,
                               !.resolved = over, !.bootOk = FALSE]
    OBVIOUS
  <2>2. u \in Entries
    <3>1. Boot \in 0..Boot /\ "live_busy" \in Statuses
      BY Places3 DEF Statuses, None, Boot
    <3> QED BY <1>2a, <2>1, <3>1 DEF Entries
  <2>3. /\ u.status = "live_busy" /\ u.hist = session.hist /\ u.runtime = session.runtime
        /\ u.queue = session.queue /\ u.active = Boot /\ ~u.endHeld /\ ~u.bootOk
    BY <1>2a, <2>1 DEF Entries
  <2>4. Entry(u) /\ Boot # None /\ Boot \notin Execs
    BY <1>2a, <1>5, <2>3, Places3 DEF Entry, Sound
  <2>5. Midway(kind, u)
    <3>1. Later(session.hist, u.hist)
      BY <2>3 DEF Later
    <3> QED BY <1>2, <2>2, <2>3, <2>4, <3>1 DEF Midway, Entry
  <2>5a. /\ fault # "none" => Quarantine(kind, u, fault)
         /\ fault = "none" => /\ session' = u /\ Persist(u, fault)
                               /\ op' = [op EXCEPT !.at = "booting"]
                               /\ TellNothing /\ UNCHANGED loops
    BY <1>5, <2>0, <2>1 DEF Hydrate
  <2>6. CASE fault # "none"
    BY <2>5, <2>5a, <2>6, QuarantineKeeps
  <2>7. CASE fault = "none"
    <3>1. /\ session' = u /\ Persist(session', "none") /\ op' = [op EXCEPT !.at = "booting"]
          /\ TellNothing /\ loops' = loops
      BY <2>5a, <2>7
    <3>2. op' \in Holders /\ op'.at = "booting" /\ op'.kind = op.kind /\ op'.run = op.run
      BY <1>2, <3>1 DEF Holders, Places
    <3>3. /\ disk' \in [catalog : {"none"} \cup Statuses, hist : Histories] /\ faults' \in 0..MaxTroubles
          /\ Ordered(disk'.hist) /\ "none" \in Faults
      <4>1. "none" \in Faults /\ Ordered(disk.hist) /\ Ordered(u.hist)
        BY <1>1, <2>4 DEF Faults, EntryInv, Entry, Sound
      <4> QED BY <1>1, <2>2, <3>1, <4>1, PersistIs
    <3>3a. session.status # "quarantined" \/ Revived'
      BY <2>3, <3>1
    <3>4. TypeOK'
      <4>1. tail' \in Seq(Waiters) /\ loops' \subseteq LoopRecords
        BY <1>1, <3>1 DEF TypeOK
      <4>2. told' \in [Execs -> {"none"} \cup Ends] /\ toldAnew' \in BOOLEAN
        BY <1>1, <3>1 DEF TypeOK, TellNothing
      <4> QED BY <1>1, <2>2, <3>1, <3>2, <3>3, <4>1, <4>2, TypeKeeps
    <3>5. EntryInv'
      BY <1>1, <2>4, <3>1, <3>3, HoldsStill DEF EntryInv
    <3>6. HostInv'
      <4>1. runtimes \in Nat /\ dead' = dead /\ ending' = ending /\ runtimes' = runtimes
        BY <1>1 DEF TypeOK, HoldsLock, hostVars
      <4>2. session.runtime \in ending => Revived'
        BY <1>1, <3>3a, HoldsStill DEF HostInv
      <4>3. /\ session'.runtime = session.runtime /\ op'.run = op.run
            /\ session'.runtime # None
        BY <1>2a, <1>5, <2>3, <3>1, <3>2
      <4> QED BY <1>1, <4>1, <4>2, <4>3, HostsStay
    <3>7. LockInv'
      <4>1. listed' /\ dead' = dead
        BY <1>1 DEF HoldsLock, entryVars, hostVars
      <4> QED BY <1>1, <1>2, <2>3, <3>1, <3>2, <4>1 DEF LockInv
    <3>8. LoopInv'
      BY <1>1, <2>3, <3>1, LoopsKeep
    <3>9. AskInv'
      BY <1>1, <2>3, <3>1, <3>2, AskKeeps
    <3>10. WaitInv' /\ FifoInv'
      <4>1. Waits' = session.queue /\ Waits = session.queue
        BY <2>3, <3>1, <3>2 DEF Waits
      <4>2. /\ astray' = {} => astray = {} /\ session.status # "quarantined"
            /\ OnTime' => OnTime /\ session.status # "quarantined"
        BY <1>1, <3>3a, HoldsStill DEF Revived, OnTime
      <4>3. WaitInv'
        BY <1>1, <2>3, <3>1, <4>1, <4>2 DEF WaitInv
      <4>4. astray = {} => Runs(session.hist) = {}
        BY <1>1, Places3 DEF FifoInv, Runs
      <4>5. FifoInv'
        BY <1>1, <1>2, <2>3, <3>1, <3>2, <4>1, <4>2, <4>4 DEF FifoInv
      <4> QED BY <4>3, <4>5
    <3>11. DiskInv'
      <4>1. astray \subseteq astray' /\ listed' = listed /\ closed' = closed
        BY <1>1, HoldsStill DEF HoldsLock, entryVars
      <4>2. \A d \in Execs : session.hist[d] \in Ends => session'.hist[d] = session.hist[d]
        BY <2>3, <3>1
      <4>3. "error" \in Ends /\ None \notin Execs
        BY Places3 DEF Ends
      <4> QED BY <1>1, <2>2, <3>1, <3>3, <4>1, <4>2, <4>3, DiskKeeps
    <3>12. BootInv'
      BY <2>3, <3>1, <3>2 DEF BootInv
    <3> QED BY <3>4, <3>5, <3>6, <3>7, <3>8, <3>9, <3>10, <3>11, <3>12 DEF LifeInv, Rest
  <2> QED BY <2>6, <2>7
<1> QED BY <1>3, <1>4, <1>5

-----------------------------------------------------------------------------
(* Steps of a kind.                                                        *)

\* Only who waits, which loops there are and what a bound counts.
LEMMA QuietKeeps ==
  ASSUME LifeInv, UNCHANGED <<session, entryVars, astray, disk, faults, op, hostVars, told, toldAnew>>,
         tail' \in Seq(Waiters), loops' \subseteq LoopRecords, saved' \in BOOLEAN, up' \in BOOLEAN,
         spent' \in [asks : 0..MaxAsks, exits : 0..MaxTroubles,
                     saves : 0..MaxSaves, restarts : 0..MaxTroubles],
         LoopInv', AskInv', BootInv'
  PROVE  LifeInv'
<1>1. TypeOK /\ EntryInv /\ HostInv /\ LockInv /\ WaitInv /\ FifoInv /\ DiskInv
  BY DEF LifeInv, Rest
<1>2. /\ session' = session /\ listed' = listed /\ durable' = durable /\ boots' = boots
      /\ delayed' = delayed /\ closed' = closed /\ astray' = astray /\ disk' = disk
      /\ faults' = faults /\ op' = op /\ ending' = ending /\ dead' = dead /\ runtimes' = runtimes
      /\ told' = told /\ toldAnew' = toldAnew
  BY DEF entryVars, hostVars
<1>3. TypeOK'
  BY <1>1, <1>2 DEF TypeOK
<1>4. EntryInv' /\ HostInv' /\ LockInv'
  <2>1. /\ (Entry(session) => Entry(session)') /\ (Idle(session) => Idle(session)')
        /\ (Still(session.hist) => Still(session.hist)') /\ Revived' = Revived
    BY <1>2, StillSo DEF Revived
  <2> QED BY <1>1, <1>2, <2>1 DEF EntryInv, HostInv, LockInv
<1>5. Waits' = Waits /\ OnTime' = OnTime
  BY <1>2 DEF Waits, OnTime
<1>6. WaitInv' /\ FifoInv'
  BY <1>1, <1>2, <1>5 DEF WaitInv, FifoInv
<1>7. DiskInv'
  BY <1>1, <1>2, <1>5 DEF DiskInv
<1> QED BY <1>3, <1>4, <1>6, <1>7 DEF LifeInv, Rest

\* The lock or the hosts go on, the execs staying as they are.
LEMMA GoesOnKeeps ==
  ASSUME LifeInv, TypeOK', Entry(session'), HostInv', LockInv', AskInv',
         session'.hist = session.hist, session'.status = session.status,
         session'.resolved = session.resolved,
         UNCHANGED <<listed, closed, astray, saved, delayed, disk, loops>>, TellNothing,
         Waits' = Waits \/ (Waits' = <<>> /\ Revived), session'.active = session.active \/ Still(session.hist),
         astray = {} /\ op'.at \in {"prompting", "clearing", "failing"} => session'.active = None,
         session'.endHeld => session.endHeld \/ saved, op'.at = "booting" => ~session'.bootOk
  PROVE  LifeInv'
<1>1. TypeOK /\ EntryInv /\ LoopInv /\ WaitInv /\ FifoInv /\ DiskInv /\ BootInv
  BY DEF LifeInv, Rest
<1>2. EntryInv'
  BY <1>1, StillSo DEF EntryInv
<1>3. LoopInv'
  BY <1>1 DEF LoopInv
<1>4. WaitInv' /\ FifoInv'
  <2>1. astray = {} => session'.active = session.active \/ Runs(session.hist) = {}
    BY DEF Still, Revived
  <2>2. CASE Waits' = Waits
    BY <1>1, <2>1, <2>2 DEF WaitInv, FifoInv, OnTime
  <2>3. CASE Waits' = <<>> /\ Revived
    <3>1. DOMAIN <<>> = {}
      OBVIOUS
    <3> QED BY <2>3, <3>1, StillSo DEF WaitInv, FifoInv, Once, OnTime, Revived
  <2> QED BY <2>2, <2>3
<1>5. DiskInv'
  BY <1>1, DiskStays
<1>6. BootInv'
  BY <1>1 DEF BootInv, Quiet
<1> QED BY <1>2, <1>3, <1>4, <1>5, <1>6 DEF LifeInv, Rest

\* The active exec ends, and the session's runtime stays.
LEMMA FinishKeeps ==
  ASSUME LifeInv, TypeOK', HostInv', LockInv', AskInv', BootInv',
         NEW end \in Ends, NEW u, u = Finished(session, end),
         session'.hist = u.hist, session'.runtime = session.runtime, session'.queue = session.queue,
         session'.active = None, ~session'.endHeld, session'.runtime # None,
         session'.status \notin {"quarantined", "closed"}, session.status # "quarantined",
         UNCHANGED <<closed, astray, loops>>, listed, listed', op.at \notin {"stopping", "starting"},
         op'.at \notin {"stopping", "starting"},
         NEW fault \in Faults, Persist(session', fault),
         TellEnd(session.active, end, fault) \/ TellNothing
  PROVE  LifeInv'
<1>1. TypeOK /\ EntryInv /\ LoopInv /\ WaitInv /\ FifoInv /\ DiskInv
  BY DEF LifeInv, Rest
<1>2. session \in Entries /\ Entry(session) /\ session.status # "closed" /\ session' \in Entries
  BY <1>1 DEF TypeOK, EntryInv, Entry
<1>3. /\ Follows(session.hist, u.hist) /\ Runs(u.hist) = Runs(session.hist) \ {session.active}
      /\ session.active \in Execs => u.hist[session.active] = end /\ session.hist[session.active] = "running"
      /\ \A e \in Execs : e # session.active => u.hist[e] = session.hist[e]
  BY <1>2, FinishedIs, SMTT(20)
<1>4. Ordered(session'.hist) /\ Queues(session'.hist) \subseteq Queues(session.hist)
  BY <1>2, <1>3, StaysOrdered DEF Entry, Sound
<1>5. EntryInv'
  <2>1. Ordered(disk'.hist)
    BY <1>1, <1>2, <1>4, PersistIs DEF EntryInv
  <2>2. Entry(session')
    BY <1>4, Places3 DEF Entry, Sound
  <2> QED BY <2>1, <2>2, StillSo DEF EntryInv
<1>6. LoopInv'
  BY <1>1, <1>3, LaterIs, LoopsKeep
<1>7. Waits' = session.queue /\ Waits = session.queue /\ OnTime' = OnTime
  BY DEF Waits, OnTime
<1>8. \A i \in DOMAIN session.queue :
          session'.hist[session.queue[i]] = session.hist[session.queue[i]]
  <2>1. \A i \in DOMAIN session.queue : session.queue[i] \in Execs
    BY <1>2, RangeIs, EntryFields
  <2>2. \A i \in DOMAIN session.queue : session.hist[session.queue[i]] # "running"
    BY <1>1, <1>7 DEF WaitInv, Ends
  <2> QED BY <1>3, <2>1, <2>2
<1>9. WaitInv'
  BY <1>1, <1>7, <1>8 DEF WaitInv
<1>10. FifoInv'
  <2>1. CASE astray = {}
    <3>1. /\ Runs(session.hist) \subseteq {session.active} /\ Sorted(session.queue)
          /\ Queues(session.hist) \subseteq Range(session.queue)
      BY <1>1, <1>2, <1>7, <2>1 DEF FifoInv
    <3>2. Runs(session'.hist) = {}
      BY <1>3, <3>1
    <3> QED BY <1>4, <1>7, <3>1, <3>2 DEF FifoInv
  <2>2. CASE astray # {}
    BY <2>2 DEF FifoInv
  <2> QED BY <2>1, <2>2
<1>11. DiskInv'
  <2>1. \A d \in Execs : session.hist[d] \in Ends => session'.hist[d] = session.hist[d]
    BY <1>3 DEF Follows
  <2>2. session.active \in Execs => session.hist[session.active] \in Pending /\ session'.hist[session.active] = end
    BY <1>3 DEF Pending
  <2> QED BY <1>1, <1>2, <2>1, <2>2, DiskKeeps
<1> QED BY <1>5, <1>6, <1>9, <1>10, <1>11 DEF LifeInv, Rest

\* The session is quarantined without the lock, and its runtime terminated.
LEMMA ContainKeeps ==
  ASSUME LifeInv, TypeOK', UNCHANGED <<op, listed, closed, runtimes, saved, delayed>>,
         tail' = tail, astray \subseteq astray', dead \subseteq dead', dead' \subseteq 1..runtimes,
         loops' \subseteq loops, NEW s \in Entries, Sound(s), s.runtime = session.runtime,
         session' = Quarantined(s), ending' = ending \cup ({s.runtime} \ {None}),
         HasRoom(session.hist) => HasRoom(s.hist),
         \A x \in Execs : /\ session.hist[x] \in {"running"} \cup Ends => s.hist[x] \in {"running"} \cup Ends
                          /\ session.hist[x] \in {"queued"} \cup Ends => s.hist[x] \in {"queued"} \cup Ends,
         op.at = "booting" => ~s.bootOk,
         NEW fault \in Faults, Persist(session', fault), NEW e, NEW end \in Ends, TellEnd(e, end, fault),
         OnTime' => /\ op.at \notin {"stopping", "starting"} /\ listed
                    /\ \A d \in Execs : session.hist[d] \in Ends => s.hist[d] = session.hist[d]
                    /\ e \in Execs => session.hist[e] \in Pending /\ s.hist[e] = end
  PROVE  LifeInv'
<1>1. TypeOK /\ EntryInv /\ HostInv /\ LockInv /\ LoopInv /\ AskInv /\ WaitInv /\ DiskInv
  BY DEF LifeInv, Rest
<1>2. PICK t : t = Quarantined(s)
  OBVIOUS
<1>3. /\ t \in Entries /\ Entry(t) /\ Idle(t) /\ session' = t
      /\ t.status = "quarantined" /\ t.runtime = s.runtime /\ t.bootOk = s.bootOk
      /\ Follows(s.hist, t.hist)
  BY <1>2, QuarantinedIs
<1>4. t.hist \in Histories /\ s.hist \in Histories
  BY <1>3, EntryFields
<1>5. EntryInv'
  <2>1. Ordered(t.hist) /\ Ordered(disk.hist)
    BY <1>1, <1>3 DEF EntryInv, Entry, Sound
  <2> QED BY <1>1, <1>3, <2>1, PersistIs, StillSo DEF EntryInv
<1>6. HostInv'
  <2>1. session'.status = "quarantined" /\ session'.queue = <<>> /\ session'.runtime = session.runtime
    BY <1>3 DEF Idle
  <2>2. dead' \cup ending' \cup ({session'.runtime, op'.run} \ {None}) \subseteq 1..runtimes'
    BY <1>1, <2>1 DEF HostInv
  <2>3. \A r \in 1..runtimes' \ dead' : r = session'.runtime
    BY <1>1, <2>1 DEF HostInv
  <2> QED BY <2>1, <2>2, <2>3 DEF HostInv
<1>7. LockInv'
  <2>1. /\ Idle(session)' /\ session'.status = "quarantined" /\ session'.runtime = session.runtime
        /\ session'.active # Boot
    BY <1>3, StillSo, Places3 DEF Idle
  <2>2. Range(session'.queue) \subseteq Range(op.kept)
    <3>1. session'.queue = <<>> /\ DOMAIN <<>> = {}
      BY <2>1 DEF Idle
    <3> QED BY <3>1 DEF Range
  <2> QED BY <1>1, <2>1, <2>2 DEF LockInv, Idle
<1>8. LoopInv'
  <2>1. \A x \in Execs : session.hist[x] \in {"running"} \cup Ends => session'.hist[x] \in {"running"} \cup Ends
    BY <1>3 DEF Follows
  <2> QED BY <1>1, <2>1, LoopsKeep
<1>9. AskInv'
  <2>1. HasRoom(session.hist) => HasRoom(session'.hist)
    BY <1>3, StaysOrdered DEF Sound
  <2> QED BY <1>1, <2>1 DEF AskInv, Submits
<1>10. /\ session'.queue = <<>> /\ session'.active = None /\ ~session'.endHeld /\ Still(session.hist)'
       /\ session'.status = "quarantined"
  BY <1>3, StillSo DEF Idle
<1>11. WaitInv' /\ FifoInv'
  <2>1. CASE op.at \notin {"stopping", "starting"}
    <3>1. Waits' = <<>>
      BY <1>10, <2>1 DEF Waits
    <3> QED BY <1>10, <3>1, NoneWait
  <2>2. CASE op.at \in {"stopping", "starting"}
    <3>1. Waits = op.kept /\ Waits' = op.kept /\ ~OnTime'
      BY <2>2 DEF Waits
    <3>2. \A x \in Execs : session.hist[x] \in {"queued"} \cup Ends => session'.hist[x] \in {"queued"} \cup Ends
      BY <1>3, <1>4 DEF Follows, Histories, Pending, Ends
    <3>3. \A i \in DOMAIN op.kept : op.kept[i] \in Execs
      <4>1. CASE op = NoOp
        BY <2>2, <4>1, NoOpIs
      <4>2. CASE op \in Holders
        <5>1. op.kept \in Seq(Execs)
          BY <4>2 DEF Holders
        <5> QED BY <5>1, RangeIs
      <4> QED BY <1>1, <4>1, <4>2 DEF TypeOK
    <3>4. WaitInv'
      BY <1>1, <3>1, <3>2, <3>3 DEF WaitInv
    <3>5. FifoInv'
      BY <3>1 DEF FifoInv, OnTime
    <3> QED BY <3>4, <3>5
  <2> QED BY <2>1, <2>2
<1>12. DiskInv'
  <2>1. OnTime' => /\ \A d \in Execs : session.hist[d] \in Ends => session'.hist[d] = session.hist[d]
                   /\ e \in Execs => session.hist[e] \in Pending /\ session'.hist[e] = end
    BY <1>3 DEF Follows
  <2> QED BY <1>1, <1>3, <2>1, DiskKeeps
<1>13. BootInv'
  BY <1>3, <1>10 DEF BootInv
<1> QED BY <1>5, <1>6, <1>7, <1>8, <1>9, <1>11, <1>12, <1>13 DEF LifeInv, Rest

-----------------------------------------------------------------------------
(* The lock is taken.                                                      *)

LEMMA TopIs ==
  Top \in LoopRecords /\ Top.at = "top"
BY DEF Top, LoopRecords

LEMMA GrantedIs ==
  ASSUME LifeInv, NEW kind, Granted(kind), SameEntry
  PROVE  /\ Turn(kind) /\ op = NoOp /\ op.at = "none" /\ session.active # Boot /\ astray' = astray
         /\ kind # "close" => session.status # "closed"
<1>1. op = NoOp /\ op.at = "none" /\ HasLock(kind) /\ listed
  BY NoOpIs DEF Granted, Acquire, HasLock
<1>2. HoldsLock /\ astray' = astray
  BY DEF Granted, Acquire, SameEntry, HoldsLock, entryVars
<1>3. session.active # Boot
  BY <1>1 DEF LifeInv, Rest, LockInv
<1> QED BY <1>1, <1>2, <1>3 DEF Turn, Granted

LEMMA GoesOnIs ==
  ASSUME LifeInv, NEW at \in Places \ {"quarantining"}, GoesOn(at), SameEntry, UNCHANGED hostVars,
         astray' \in {astray, astray \cup {"revived"}}
  PROVE  /\ Turn(op.kind) /\ op \in Holders /\ op.kind \in Kinds /\ op.run \in {None} \cup Runtimes
         /\ op.kept \in Seq(Execs) /\ op.failed \in BOOLEAN /\ session.status # "closed"
         /\ op # NoOp /\ op.at = at /\ tail' = tail
<1>1. op.at = at /\ op # NoOp
  BY NoOpIs DEF GoesOn, Places
<1>2. op \in Holders
  BY <1>1 DEF LifeInv, Rest, TypeOK
<1>3. HasLock(op.kind) /\ tail' = tail
  BY <1>1 DEF HasLock, GoesOn
<1>4. HoldsLock
  BY DEF GoesOn, SameEntry, HoldsLock, entryVars
<1>5. listed /\ session.status # "closed"
  BY <1>1 DEF LifeInv, Rest, LockInv
<1>6. /\ op.kind \in Kinds /\ op.run \in {None} \cup Runtimes /\ op.kept \in Seq(Execs)
      /\ op.failed \in BOOLEAN
  BY <1>2 DEF Holders
<1> QED BY <1>1, <1>2, <1>3, <1>4, <1>5, <1>6 DEF Turn

LEMMA ResumesIs ==
  ASSUME LifeInv, NEW at \in Places \ {"quarantining"}, Resumes(at), SameEntry, UNCHANGED hostVars
  PROVE  /\ Turn(op.kind) /\ op \in Holders /\ op.kind \in Kinds /\ op.run \in {None} \cup Runtimes
         /\ op.kept \in Seq(Execs) /\ op.failed \in BOOLEAN /\ session.status # "closed"
         /\ op # NoOp /\ op.at = at /\ tail' = tail /\ astray' = astray
<1>1. GoesOn(at) /\ astray' = astray
  BY DEF Resumes
<1> QED BY <1>1, GoesOnIs

\* An operation that has nothing to do lets go.
LEMMA ReleasedKeeps ==
  ASSUME LifeInv, NEW kind, Acquire(kind), SameEntry, loops' \subseteq loops \cup {Top},
         UNCHANGED <<session, disk, faults, op, told, toldAnew>>
  PROVE  LifeInv'
<1>1. TypeOK /\ AskInv /\ LoopInv /\ BootInv
  BY DEF LifeInv, Rest
<1>2. op = NoOp /\ op.at = "none" /\ op.kind = "none" /\ HasLock(kind) /\ op' = op
  BY NoOpIs DEF Acquire, HasLock
<1>3. tail' \in Seq(Waiters) /\ loops' \subseteq LoopRecords
  BY <1>1, <1>2, LockFacts, TopIs DEF TypeOK
<1>4. LoopInv'
  BY <1>1, LoopsKeep
<1>5. AskInv'
  BY <1>1, <1>2, AskKeeps
<1>6. BootInv'
  <2>1. saved' = saved /\ delayed' = delayed
    BY DEF Acquire, serverVars
  <2>2. Quiet => Quiet'
    BY <2>1, TopIs DEF Quiet
  <2> QED BY <1>1, <1>2, <2>1, <2>2 DEF BootInv
<1>7. UNCHANGED <<session, entryVars, astray, disk, faults, op, hostVars, told, toldAnew>>
  BY DEF Acquire, SameEntry, entryVars
<1>8. /\ saved' \in BOOLEAN /\ up' \in BOOLEAN
      /\ spent' \in [asks : 0..MaxAsks, exits : 0..MaxTroubles,
                     saves : 0..MaxSaves, restarts : 0..MaxTroubles]
  BY <1>1 DEF TypeOK, Acquire, serverVars
<1> QED BY <1>3, <1>4, <1>5, <1>6, <1>7, <1>8, QuietKeeps

LEMMA RefusedKeeps ==
  ASSUME LifeInv, NEW kind \in Kinds, Refused(kind)
  PROVE  LifeInv'
BY ReleasedKeeps DEF Refused, SameEntry

LEMMA BeginSubmitKeeps ==
  ASSUME LifeInv, BeginSubmit
  PROVE  LifeInv'
<1>1. Granted("submit") /\ SameEntry /\ Acquire("submit")
  BY DEF BeginSubmit, Granted
<1>2. /\ Turn("submit") /\ op = NoOp /\ op.at = "none" /\ session.active # Boot
      /\ session.status # "closed"
  BY <1>1, GrantedIs
<1>3. session \in Entries /\ Entry(session) /\ "submit" \in Kinds
  BY DEF LifeInv, Rest, TypeOK, EntryInv, Kinds
<1>4. PICK fault \in Faults :
         \/ session.status = "quarantined" /\ fault = "none" /\ Released
         \/ /\ session.status # "quarantined" /\ session.runtime # None
            /\ Submit(session, fault)
         \/ /\ session.status # "quarantined" /\ session.runtime = None
            /\ ~durable /\ fault = "none" /\ Released
         \/ /\ session.status # "quarantined" /\ session.runtime = None /\ durable
            /\ LET s1 == [session EXCEPT !.status = "recovering"]
               IN  IF fault # "none" THEN Quarantine("submit", s1, fault)
                   ELSE /\ session' = s1 /\ Persist(s1, fault)
                        /\ op' = At("submit", "starting", None)
                        /\ TellNothing /\ UNCHANGED loops
  BY DEF BeginSubmit
<1>5. CASE Released
  BY <1>1, <1>5, ReleasedKeeps DEF Released
<1>6. CASE session.status # "quarantined" /\ session.runtime # None /\ Submit(session, fault)
  <2>1. Like(session)
    BY <1>3 DEF Like
  <2> QED BY <1>2, <1>6, <2>1, SubmitKeeps
<1>7. CASE /\ session.status # "quarantined" /\ session.runtime = None /\ fault # "none"
           /\ Quarantine("submit", [session EXCEPT !.status = "recovering"], fault)
  <2>1. PICK s : s = [session EXCEPT !.status = "recovering"]
    OBVIOUS
  <2>2. "recovering" \in Statuses
    BY DEF Statuses
  <2>3. /\ s \in Entries /\ Entry(s) /\ s.hist = session.hist /\ s.runtime = session.runtime
        /\ s.queue = session.queue /\ s.active = session.active /\ s.endHeld = session.endHeld
        /\ s.resolved = session.resolved
    BY <1>3, <2>1, <2>2, StatusIs
  <2>4. Midway("submit", s)
    BY <2>3, LikeMidway DEF Like
  <2>5. Quarantine("submit", s, fault)
    BY <1>7, <2>1
  <2> QED BY <1>2, <1>3, <2>4, <2>5, QuarantineKeeps
<1>8. CASE /\ session.status # "quarantined" /\ session.runtime = None /\ fault = "none"
           /\ session' = [session EXCEPT !.status = "recovering"] /\ Persist(session', fault)
           /\ op' = At("submit", "starting", None) /\ TellNothing /\ UNCHANGED loops
  <2>1. "recovering" \in Statuses \ {"closed"} /\ "recovering" # "quarantined"
    BY DEF Statuses
  <2> QED BY <1>2, <1>3, <1>8, <2>1, BeginsKeeps
<1> QED BY <1>4, <1>5, <1>6, <1>7, <1>8

LEMMA BeginResetKeeps ==
  ASSUME LifeInv, BeginReset
  PROVE  LifeInv'
<1>1. Granted("reset") /\ SameEntry /\ Acquire("reset")
  BY DEF BeginReset, Granted
<1>2. CASE Released
  BY <1>1, <1>2, ReleasedKeeps DEF Released
<1>3. CASE \E fault \in Faults : Recycle("reset", session, fault)
  <2>1. /\ Turn("reset") /\ op.at \notin {"stopping", "starting"} /\ session.status # "closed"
        /\ "reset" \in Kinds
    BY <1>1, GrantedIs DEF Kinds
  <2> QED BY <1>3, <2>1, RecycleKeeps
<1> QED BY <1>2, <1>3 DEF BeginReset

LEMMA BeginBudgetKeeps ==
  ASSUME LifeInv, BeginBudget
  PROVE  LifeInv'
<1>1. Granted("budget") /\ SameEntry /\ Acquire("budget")
  BY DEF BeginBudget, Granted
<1>2. CASE loops' = loops \cup {Top} /\ UNCHANGED <<session, disk, faults, op, told, toldAnew>>
  BY <1>1, <1>2, ReleasedKeeps
<1>3. CASE \E fault \in Faults : Recycle("budget", session, fault)
  <2>1. /\ Turn("budget") /\ op.at \notin {"stopping", "starting"} /\ session.status # "closed"
        /\ "budget" \in Kinds
    BY <1>1, GrantedIs DEF Kinds
  <2> QED BY <1>3, <2>1, RecycleKeeps
<1> QED BY <1>2, <1>3 DEF BeginBudget

\* The lock's holder goes on, or lets go, the execs staying as they are.
LEMMA HolderKeeps ==
  ASSUME LifeInv, NEW kind, HasLock(kind), HoldsLock, astray' = astray,
         session' \in Entries, Entry(session'), op' \in {NoOp} \cup Holders,
         op'.kind \in {kind, "none"}, op.at = "quarantining" => op' = NoOp,
         session'.hist = session.hist, session'.status = session.status,
         session'.resolved = session.resolved, session'.queue \in {session.queue, <<>>},
         UNCHANGED <<disk, faults, loops, told, toldAnew>>,
         session'.runtime \in {None, session.runtime},
         session'.runtime = None => session.runtime \in {None} \cup dead,
         op'.run \in {None, session.runtime, op.run}, LockInv',
         Waits' = Waits, session'.active = session.active \/ Still(session.hist),
         astray = {} /\ op'.at \in {"prompting", "clearing", "failing"} => session'.active = None,
         session'.endHeld => session.endHeld, op'.at # "booting"
  PROVE  LifeInv'
<1>1. TypeOK /\ HostInv /\ AskInv
  BY DEF LifeInv, Rest
<1>2. tail' \in Seq(Waiters)
  BY <1>1, LockFacts
<1>3. TypeOK'
  BY <1>1, <1>2, TypeKeeps DEF TypeOK
<1>4. HostInv'
  <2>1. dead' = dead /\ ending' = ending /\ runtimes' = runtimes /\ runtimes \in Nat
    BY <1>1 DEF HoldsLock, hostVars, TypeOK
  <2>2. session'.runtime \in ending =>
           Revived' \/ (session'.status = "quarantined" /\ session'.queue = <<>>)
    <3>1. session'.runtime \in ending => session'.runtime # None
      BY <1>1, Places3 DEF TypeOK
    <3> QED BY <1>1, <3>1, HoldsStill DEF HostInv
  <2> QED BY <1>1, <2>1, <2>2, HostsStay
<1>5. AskInv'
  BY <1>1, AskKeeps
<1>6. UNCHANGED <<listed, closed, astray, saved, delayed, disk, loops>> /\ TellNothing
  BY DEF HoldsLock, entryVars, serverVars, TellNothing
<1> QED BY <1>3, <1>4, <1>5, <1>6, GoesOnKeeps

LEMMA BeginInterruptKeeps ==
  ASSUME LifeInv, BeginInterrupt
  PROVE  LifeInv'
<1>1. Granted("interrupt") /\ SameEntry /\ Acquire("interrupt")
  BY DEF BeginInterrupt, Granted
<1>2. /\ Turn("interrupt") /\ op = NoOp /\ op.at = "none" /\ session.active # Boot
      /\ session.status # "closed" /\ astray' = astray
  BY <1>1, GrantedIs
<1>3. /\ session \in Entries /\ Entry(session) /\ TypeOK /\ LockInv
      /\ "interrupt" \in Kinds /\ "interrupting" \in Places
  BY DEF LifeInv, Rest, TypeOK, EntryInv, Kinds, Places
<1>4. CASE Released
  BY <1>1, <1>4, ReleasedKeeps DEF Released
<1>5. CASE /\ session.runtime # None /\ session.active # None
           /\ session' = [session EXCEPT !.interrupted = TRUE]
           /\ op' = [At("interrupt", "interrupting", session.runtime) EXCEPT !.exec = session.active]
           /\ UNCHANGED <<disk, faults, loops, told, toldAnew>>
  <2>1. session.active \in Execs /\ session.runtime \in Runtimes
    BY <1>2, <1>3, <1>5, EntryFields, Places3
  <2>2. /\ session' \in Entries /\ session'.hist = session.hist /\ session'.status = session.status
        /\ session'.resolved = session.resolved /\ session'.queue = session.queue
        /\ session'.runtime = session.runtime /\ session'.active = session.active
        /\ session'.endHeld = session.endHeld /\ session'.subscribed = session.subscribed
    BY <1>3, <1>5 DEF Entries
  <2>3. Entry(session')
    BY <1>3, <2>2 DEF Entry, Sound, Idle
  <2>4. PICK o : o = At("interrupt", "interrupting", session.runtime)
    OBVIOUS
  <2>5. /\ o \in Holders /\ o.kind = "interrupt" /\ o.at = "interrupting" /\ o.run = session.runtime
    BY <1>3, <2>1, <2>4, AtIs
  <2>6. op' = [o EXCEPT !.exec = session.active]
    BY <1>5, <2>4
  <2>7. /\ op' \in Holders /\ op'.kind = "interrupt" /\ op'.at = "interrupting"
        /\ op'.run = session.runtime /\ op'.exec = session.active
    BY <2>1, <2>5, <2>6 DEF Holders
  <2>8. listed' = listed /\ listed /\ HasLock("interrupt") /\ HoldsLock /\ astray' = astray
    BY <1>2 DEF Turn, HoldsLock, entryVars
  <2>9. LockInv'
    BY <1>2, <1>5, <2>1, <2>2, <2>7, <2>8 DEF LockInv
  <2>10. Waits' = Waits
    BY <1>2, <2>2, <2>7 DEF Waits
  <2> QED BY <1>2, <1>5, <2>2, <2>3, <2>7, <2>8, <2>9, <2>10, Places3, HolderKeeps
<1> QED BY <1>4, <1>5 DEF BeginInterrupt

LEMMA BeginMemoryKeeps ==
  ASSUME LifeInv, BeginMemory
  PROVE  LifeInv'
<1>1. Granted("memory") /\ SameEntry /\ Acquire("memory")
  BY DEF BeginMemory, Granted
<1>2. /\ Turn("memory") /\ op = NoOp /\ op.at = "none" /\ session.active # Boot
      /\ session.status # "closed" /\ astray' = astray
  BY <1>1, GrantedIs
<1>3. /\ session \in Entries /\ Entry(session) /\ TypeOK /\ LockInv
      /\ "memory" \in Kinds /\ "waiting" \in Places
  BY DEF LifeInv, Rest, TypeOK, EntryInv, Kinds, Places
<1>4. CASE Released
  BY <1>1, <1>4, ReleasedKeeps DEF Released
<1>5. CASE /\ op' = At("memory", "waiting", session.runtime)
           /\ UNCHANGED <<session, disk, faults, loops, told, toldAnew>>
  <2>1. /\ op' \in Holders /\ op'.kind = "memory" /\ op'.at = "waiting" /\ op'.run = session.runtime
    BY <1>3, <1>5, EntryFields, AtIs
  <2>2. listed' = listed /\ listed /\ HasLock("memory") /\ HoldsLock /\ astray' = astray
    BY <1>2 DEF Turn, HoldsLock, entryVars
  <2>3. LockInv'
    BY <1>2, <1>5, <2>1, <2>2 DEF LockInv
  <2>4. Waits' = Waits
    BY <1>2, <1>5, <2>1 DEF Waits
  <2> QED BY <1>2, <1>3, <1>5, <2>1, <2>2, <2>3, <2>4, Places3, HolderKeeps
<1>6. CASE \E fault \in Faults : Recycle("memory", session, fault)
  BY <1>2, <1>3, <1>6, RecycleKeeps
<1> QED BY <1>4, <1>5, <1>6 DEF BeginMemory

LEMMA MemoryWaitedKeeps ==
  ASSUME LifeInv, MemoryWaited
  PROVE  LifeInv'
<1>1. Resumes("waiting") /\ SameEntry /\ UNCHANGED hostVars /\ "waiting" \in Places \ {"quarantining"}
  BY DEF MemoryWaited, Places
<1>2. Turn(op.kind) /\ op # NoOp /\ op.at = "waiting" /\ session.status # "closed"
  BY <1>1, ResumesIs
<1>3. Turn("memory") /\ "memory" \in Kinds
  BY <1>2 DEF Turn, HasLock, Admits, Kinds
<1>4. PICK fault \in Faults : Recycle("memory", session, fault)
  BY DEF MemoryWaited
<1> QED BY <1>2, <1>3, <1>4, RecycleKeeps

-----------------------------------------------------------------------------
(* A runtime ends, and another is launched.                                *)

\* The runtime the lock's holder waited for has ended.
LEMMA GoneIs ==
  ASSUME LifeInv, op.run \in dead, op.run # None, Still(session.hist),
         NEW kind, NEW s, s = Ended(session, op.run)
  PROVE  /\ Midway(kind, s) /\ s \in Entries /\ Entry(s) /\ Idle(s) /\ s.runtime = None
         /\ s.hist = session.hist /\ s.status = session.status /\ s.resolved = session.resolved
         /\ s.bootOk = session.bootOk
<1>1. session \in Entries /\ Entry(session) /\ LockInv
  BY DEF LifeInv, Rest, TypeOK, EntryInv
<1>2. session.runtime = op.run \/ session.runtime = None
  BY <1>1 DEF LockInv
<1>3. /\ s \in Entries /\ Entry(s) /\ s.status = session.status /\ s.bootOk = session.bootOk
      /\ s.hist = session.hist /\ s.resolved = session.resolved
      /\ session.runtime # op.run => s = session
      /\ session.runtime = op.run => s.runtime = None /\ Idle(s)
  BY <1>1, EndedIs
<1>4. s.runtime = None /\ Idle(s)
  BY <1>1, <1>2, <1>3 DEF Entry, Sound
<1>5. Midway(kind, s)
  <2>1. Later(session.hist, s.hist)
    BY <1>3, SessionMidway
  <2>2. Sound(s)
    BY <1>3 DEF Entry
  <2> QED BY <1>2, <1>3, <1>4, <2>1, <2>2 DEF Midway
<1> QED BY <1>3, <1>4, <1>5

LEMMA StoppedKeeps ==
  ASSUME LifeInv, Stopped
  PROVE  LifeInv'
<1>1. Resumes("stopping") /\ SameEntry /\ UNCHANGED hostVars /\ "stopping" \in Places \ {"quarantining"}
  BY DEF Stopped, Places
<1>2. /\ Turn(op.kind) /\ op \in Holders /\ op.kind \in Kinds /\ session.status # "closed"
      /\ op.kept \in Seq(Execs) /\ op # NoOp /\ op.at = "stopping" /\ astray' = astray
  BY <1>1, ResumesIs
<1>3. session \in Entries /\ LockInv
  BY DEF LifeInv, Rest, TypeOK
<1>4. op.run # None /\ op.run \in dead /\ Idle(session)
  BY <1>2, <1>3 DEF LockInv, Stopped
<1>5. PICK s : s = Ended(session, op.run)
  OBVIOUS
<1>6. /\ Midway(op.kind, s) /\ s \in Entries /\ Entry(s) /\ Idle(s) /\ s.runtime = None
      /\ s.hist = session.hist /\ s.status = session.status /\ s.resolved = session.resolved
  BY <1>4, <1>5, GoneIs DEF Idle
<1>7. CASE op.failed
  <2>1. PICK fault \in Faults : Quarantine(op.kind, s, fault)
    BY <1>5, <1>7 DEF Stopped
  <2> QED BY <1>2, <1>6, <2>1, QuarantineKeeps
<1>8. CASE ~op.failed
  <2>1. /\ session' = s /\ op' = [op EXCEPT !.at = "starting", !.run = None, !.ended = TRUE]
        /\ UNCHANGED <<disk, faults, loops, told, toldAnew>>
    BY <1>5, <1>8 DEF Stopped
  <2>2. "starting" \in Places
    BY DEF Places
  <2>3. /\ op' \in Holders /\ op'.at = "starting" /\ op'.run = None /\ op'.kind = op.kind
        /\ op'.kept = op.kept
    BY <1>2, <2>1, <2>2 DEF Holders
  <2>4. HasLock(op.kind) /\ HoldsLock /\ listed /\ listed' = listed
    BY <1>2 DEF Turn, HoldsLock, entryVars
  <2>5. s.active = None /\ s.active = session.active /\ s.queue = session.queue /\ ~s.endHeld
    BY <1>4, <1>6 DEF Idle
  <2>6. LockInv'
    BY <1>2, <1>6, <2>1, <2>3, <2>4, <2>5, Places3 DEF LockInv
  <2>7. Waits' = Waits
    BY <1>2, <2>3 DEF Waits
  <2>8. s.runtime = None => session.runtime \in {None} \cup dead
    BY <1>3, <1>4 DEF LockInv
  <2> QED BY <1>2, <1>6, <2>1, <2>3, <2>4, <2>5, <2>6, <2>7, <2>8, HolderKeeps
<1> QED BY <1>7, <1>8

LEMMA QuarantineEndsKeeps ==
  ASSUME LifeInv, QuarantineEnds
  PROVE  LifeInv'
<1>1. op.at = "quarantining" /\ op # NoOp /\ op.run \in dead
  BY NoOpIs DEF QuarantineEnds, Resumes, GoesOn
<1>2. LockInv /\ session \in Entries
  BY DEF LifeInv, Rest, TypeOK
<1>3. op.run # None /\ Idle(session) /\ listed /\ session.status # "closed"
  BY <1>1, <1>2 DEF LockInv
<1>4. PICK s : s = Ended(session, op.run)
  OBVIOUS
<1>5. /\ s \in Entries /\ Entry(s) /\ Idle(s) /\ s.runtime = None
      /\ s.hist = session.hist /\ s.status = session.status /\ s.resolved = session.resolved
  BY <1>1, <1>3, <1>4, GoneIs DEF Idle
<1>6. session' = s /\ op' = NoOp /\ UNCHANGED <<disk, faults, loops, told, toldAnew>>
  BY <1>4 DEF QuarantineEnds
<1>7. HasLock(op.kind) /\ HoldsLock /\ listed' = listed /\ astray' = astray
  BY <1>1 DEF QuarantineEnds, Resumes, GoesOn, HasLock, HoldsLock, SameEntry, entryVars
<1>8. s.active = None /\ s.active = session.active /\ s.queue = session.queue /\ ~s.endHeld
  BY <1>3, <1>5 DEF Idle
<1>9. LockInv'
  BY <1>3, <1>5, <1>6, <1>7, <1>8, NoOpIs, Places3 DEF LockInv
<1>10. Waits' = Waits
  BY <1>1, <1>6, <1>8, NoOpIs DEF Waits
<1>11. s.runtime = None => session.runtime \in {None} \cup dead
  BY <1>1, <1>2, <1>3 DEF LockInv
<1> QED BY <1>5, <1>6, <1>7, <1>8, <1>9, <1>10, <1>11, NoOpIs, HolderKeeps

LEMMA StartFailsKeeps ==
  ASSUME LifeInv, StartFails
  PROVE  LifeInv'
<1>1. Resumes("starting") /\ SameEntry /\ UNCHANGED hostVars /\ "starting" \in Places \ {"quarantining"}
  BY DEF StartFails, Places
<1>2. Turn(op.kind) /\ op.kind \in Kinds
  BY <1>1, ResumesIs
<1>3. session \in Entries /\ Sound(session)
  BY DEF LifeInv, Rest, TypeOK, EntryInv, Entry
<1>4. PICK s : s = Orphaned(session, op.kept)
  OBVIOUS
<1>5. /\ s \in Entries /\ Sound(s) /\ s.runtime = session.runtime /\ Follows(session.hist, s.hist)
  BY <1>3, <1>4, OrphanedIs
<1>6. Midway(op.kind, s)
  <2>1. Later(session.hist, s.hist) /\ (HasRoom(session.hist) => HasRoom(s.hist))
    BY <1>3, <1>5, LaterIs, StaysOrdered DEF Sound
  <2> QED BY <1>5, <2>1 DEF Midway
<1>7. PICK fault \in Faults : Quarantine(op.kind, s, fault)
  BY <1>4 DEF StartFails
<1> QED BY <1>2, <1>6, <1>7, QuarantineKeeps

LEMMA StartedKeeps ==
  ASSUME LifeInv, Started
  PROVE  LifeInv'
<1>1. op.at = "starting" /\ op # NoOp /\ op \in Holders /\ op.kept \in Seq(Execs)
  <2>1. op.at = "starting" /\ op # NoOp
    BY NoOpIs DEF Started, Resumes, GoesOn
  <2>2. op \in Holders
    BY <2>1 DEF LifeInv, Rest, TypeOK
  <2> QED BY <2>1, <2>2 DEF Holders
<1>2. /\ session \in Entries /\ Entry(session) /\ TypeOK /\ LockInv /\ HostInv /\ AskInv
      /\ BootInv /\ EntryInv
  BY DEF LifeInv, Rest, TypeOK, EntryInv
<1>3. /\ session.runtime = None /\ Idle(session) /\ listed /\ session.status # "closed"
  BY <1>1, <1>2 DEF LockInv, Entry, Sound
<1>4. PICK n : n = runtimes + 1
  OBVIOUS
<1>5. n \in Runtimes /\ n \in 0..MaxRuntimes /\ n # None /\ runtimes' = n /\ runtimes \in Nat
      /\ n \notin 1..runtimes /\ 1..n = (1..runtimes) \cup {n}
  BY <1>2, <1>4, LifecycleAssumption DEF Started, TypeOK, Runtimes, None
<1>6. session' = [session EXCEPT !.runtime = n, !.queue = op.kept, !.active = None, !.killed = FALSE]
  BY <1>4 DEF Started
<1>7. op' = [op EXCEPT !.at = "prompting", !.run = n]
  BY <1>4 DEF Started
<1>8. /\ session' \in Entries /\ session'.runtime = n /\ session'.queue = op.kept
      /\ session'.active = None /\ session'.hist = session.hist /\ session'.status = session.status
      /\ session'.resolved = session.resolved /\ session'.endHeld = session.endHeld
      /\ session'.subscribed = session.subscribed
  BY <1>1, <1>2, <1>5, <1>6, Places3 DEF Entries
<1>9. op' \in Holders /\ op'.at = "prompting" /\ op'.run = n /\ op'.kind = op.kind /\ op'.kept = op.kept
  <2>1. "prompting" \in Places
    BY DEF Places
  <2> QED BY <1>1, <1>5, <1>7, <2>1 DEF Holders
<1>10. /\ UNCHANGED <<durable, boots, delayed, astray, tail, saved, up, spent, listed, closed,
                      disk, faults, ending, dead, loops, told, toldAnew>>
  BY DEF Started, Resumes, GoesOn, SameEntry, serverVars
<1>11. TypeOK'
  <2>1. ending' \subseteq Runtimes /\ dead' \subseteq Runtimes /\ runtimes' \in 0..MaxRuntimes
    BY <1>2, <1>5, <1>10 DEF TypeOK
  <2> QED BY <1>2, <1>8, <1>9, <1>10, <2>1 DEF TypeOK
<1>12. Entry(session')
  BY <1>2, <1>3, <1>5, <1>8, Places3 DEF Entry, Sound, Idle
<1>13. HostInv'
  <2>1. \A r \in 1..runtimes : r \in dead
    <3>1. \A r \in 1..runtimes : r # None
      BY DEF None
    <3> QED BY <1>2, <1>3, <3>1 DEF HostInv
  <2>2. session'.runtime \notin ending'
    BY <1>2, <1>5, <1>8, <1>10 DEF HostInv
  <2>3. dead' \cup ending' \cup ({session'.runtime, op'.run} \ {None}) \subseteq 1..runtimes'
    BY <1>2, <1>5, <1>8, <1>9, <1>10 DEF HostInv
  <2>4. \A r \in 1..runtimes' \ dead' : r = session'.runtime
    BY <1>5, <1>8, <1>10, <2>1
  <2> QED BY <2>2, <2>3, <2>4 DEF HostInv
<1>14. LockInv'
  <2>1. Still(session.hist)' /\ session'.status # "closed" /\ listed'
    BY <1>3, <1>8, <1>10, StillSo DEF Idle
  <2>2. session'.active # Boot /\ session'.runtime = op'.run /\ op'.run # None
    BY <1>5, <1>8, <1>9, Places3
  <2>3. Range(session'.queue) \subseteq Range(op'.kept)
    BY <1>8, <1>9
  <2> QED BY <1>9, <2>1, <2>2, <2>3 DEF LockInv
<1>15. AskInv'
  <2>1. HasLock(op.kind)
    BY <1>1, <1>10 DEF HasLock
  <2> QED BY <1>1, <1>2, <1>8, <1>9, <2>1, AskKeeps
<1>16. Waits' = Waits
  BY <1>1, <1>8, <1>9 DEF Waits
<1> QED BY <1>3, <1>8, <1>9, <1>10, <1>11, <1>12, <1>13, <1>14, <1>15, <1>16, GoesOnKeeps DEF TellNothing, Idle

LEMMA PromptFailsKeeps ==
  ASSUME LifeInv, PromptFails
  PROVE  LifeInv'
<1>1. Resumes("prompting") /\ SameEntry /\ UNCHANGED hostVars /\ "prompting" \in Places \ {"quarantining"}
  BY DEF PromptFails, Places
<1>2. /\ Turn(op.kind) /\ op \in Holders /\ session.status # "closed" /\ op # NoOp /\ op.at = "prompting"
      /\ astray' = astray
  BY <1>1, ResumesIs
<1>3. session \in Entries /\ Entry(session) /\ LockInv /\ FifoInv /\ HostInv
  BY DEF LifeInv, Rest, TypeOK, EntryInv
<1>4. session' = [session EXCEPT !.subscribed = FALSE] /\ op' = [op EXCEPT !.at = "failing"]
  BY DEF PromptFails
<1>5. /\ session' \in Entries /\ session'.runtime = session.runtime /\ session'.queue = session.queue
      /\ session'.active = session.active /\ session'.hist = session.hist
      /\ session'.status = session.status /\ session'.resolved = session.resolved
      /\ session'.endHeld = session.endHeld /\ session'.subscribed = FALSE
  BY <1>3, <1>4 DEF Entries
<1>6. /\ op' \in Holders /\ op'.at = "failing" /\ op'.run = op.run /\ op'.kind = op.kind
      /\ op'.kept = op.kept
  <2>1. "failing" \in Places
    BY DEF Places
  <2> QED BY <1>2, <1>4, <2>1 DEF Holders
<1>7. HasLock(op.kind) /\ HoldsLock /\ listed /\ listed' = listed
  BY <1>2 DEF Turn, HoldsLock, entryVars
<1>8. UNCHANGED <<disk, faults, loops, told, toldAnew>> /\ dead' = dead
  BY DEF PromptFails, hostVars
<1>9. Entry(session')
  BY <1>3, <1>5 DEF Entry, Sound, Idle
<1>10. LockInv'
  <2>1. Still(session.hist) => Still(session.hist)'
    BY <1>2, <1>5 DEF Still, Revived
  <2> QED BY <1>2, <1>3, <1>5, <1>6, <1>7, <1>8, <2>1 DEF LockInv
<1>11. Waits' = Waits
  BY <1>2, <1>5, <1>6 DEF Waits
<1>12. session.runtime = None => session.runtime \in {None} \cup dead
  OBVIOUS
<1>13. astray = {} => session'.active = None
  BY <1>2, <1>3, <1>5 DEF FifoInv
<1> QED BY <1>2, <1>5, <1>6, <1>7, <1>8, <1>9, <1>10, <1>11, <1>12, <1>13, HolderKeeps

LEMMA SubscribedIs ==
  ASSUME LifeInv, NEW s, s = Subscribed, session.runtime # None, session.status # "quarantined"
  PROVE  /\ Like(s) /\ s.status = session.status /\ s.bootOk = session.bootOk
<1>1. session \in Entries /\ Entry(session)
  BY DEF LifeInv, Rest, TypeOK, EntryInv
<1>2. s = [session EXCEPT !.subscribed = TRUE]
  BY DEF Subscribed
<1>3. /\ s \in Entries /\ s.status = session.status /\ s.hist = session.hist
      /\ s.runtime = session.runtime /\ s.queue = session.queue /\ s.active = session.active
      /\ s.endHeld = session.endHeld /\ s.resolved = session.resolved /\ s.bootOk = session.bootOk
  BY <1>1, <1>2 DEF Entries
<1>4. Entry(s)
  BY <1>1, <1>3 DEF Entry, Sound
<1> QED BY <1>3, <1>4 DEF Like

LEMMA LaunchedIs ==
  ASSUME LifeInv, Launched
  PROVE  /\ Turn(op.kind) /\ op \in Holders /\ op.kind \in Kinds /\ op.at = "prompting" /\ tail' = tail
         /\ astray' = astray /\ op # NoOp /\ op.run # None /\ session.status # "closed"
         /\ session.runtime = op.run /\ session.status # "quarantined"
<1>1. Resumes("prompting") /\ SameEntry /\ UNCHANGED hostVars /\ "prompting" \in Places \ {"quarantining"}
  BY DEF Launched, Places
<1>2. /\ Turn(op.kind) /\ op \in Holders /\ op.kind \in Kinds /\ op.at = "prompting" /\ tail' = tail
      /\ astray' = astray /\ op # NoOp /\ session.status # "closed"
  BY <1>1, ResumesIs
<1>3. op.run # None
  BY <1>2 DEF LifeInv, Rest, LockInv
<1> QED BY <1>2, <1>3 DEF Launched

LEMMA PromptedKeeps ==
  ASSUME LifeInv, Prompted
  PROVE  LifeInv'
<1>1. Launched
  BY DEF Prompted
<1>2. PICK s : s = Subscribed
  OBVIOUS
<1>3. PICK fault \in Faults : Hydrate(op.kind, s, fault)
  BY <1>2 DEF Prompted
<1>4. Like(s) /\ s.status = session.status
  BY <1>1, <1>2, LaunchedIs, SubscribedIs
<1>5. /\ Turn(op.kind) /\ op.kind \in Kinds /\ op.at = "prompting" /\ tail' = tail
      /\ session.status # "quarantined" /\ s.runtime # None
  BY <1>1, <1>4, LaunchedIs DEF Like
<1> QED BY <1>3, <1>4, <1>5, HydrateKeeps

LEMMA ClearsKeeps ==
  ASSUME LifeInv, Clears
  PROVE  LifeInv'
<1>1. /\ Turn(op.kind) /\ op \in Holders /\ op.kind \in Kinds /\ op.at = "prompting" /\ tail' = tail
      /\ astray' = astray /\ op # NoOp /\ op.run # None /\ session.status # "closed"
      /\ session.runtime = op.run /\ session.status # "quarantined"
  BY LaunchedIs DEF Clears
<1>2. PICK s : s = Subscribed
  OBVIOUS
<1>3. Like(s) /\ s.status = session.status
  BY <1>1, <1>2, SubscribedIs
<1>4. /\ s \in Entries /\ Entry(s) /\ s.hist = session.hist /\ s.runtime = session.runtime
      /\ s.queue = session.queue /\ s.active = session.active /\ s.endHeld = session.endHeld
      /\ s.resolved = session.resolved
  BY <1>3 DEF Like
<1>5. session' = s /\ op' = [op EXCEPT !.at = "clearing"] /\ UNCHANGED <<disk, faults, loops, told, toldAnew>>
  BY <1>2 DEF Clears
<1>6. /\ op' \in Holders /\ op'.at = "clearing" /\ op'.run = op.run /\ op'.kind = op.kind
  <2>1. "clearing" \in Places
    BY DEF Places
  <2> QED BY <1>1, <1>5, <2>1 DEF Holders
<1>7. HasLock(op.kind) /\ HoldsLock /\ listed /\ listed' = listed /\ dead' = dead
  BY <1>1 DEF Turn, HoldsLock, entryVars, hostVars
<1>8. LockInv /\ FifoInv
  BY DEF LifeInv, Rest
<1>9. LockInv'
  <2>1. op.kind # "submit"
    BY DEF Clears
  <2> QED BY <1>1, <1>3, <1>4, <1>5, <1>6, <1>7, <1>8, <2>1 DEF LockInv
<1>10. Waits' = Waits
  BY <1>1, <1>4, <1>5, <1>6 DEF Waits
<1>11. astray = {} => session'.active = None
  BY <1>1, <1>4, <1>5, <1>8 DEF FifoInv
<1> QED BY <1>1, <1>3, <1>4, <1>5, <1>6, <1>7, <1>9, <1>10, <1>11, HolderKeeps

LEMMA ClearedKeeps ==
  ASSUME LifeInv, Cleared
  PROVE  LifeInv'
<1>1. GoesOn("clearing") /\ SameEntry /\ UNCHANGED hostVars /\ "clearing" \in Places \ {"quarantining"}
  BY DEF Cleared, Places
<1>2. /\ astray' \in {astray, astray \cup {"revived"}}
      /\ session.status = "quarantined" /\ session'.status # "quarantined" => Revived'
  BY DEF Cleared, GoesAstray, Revived
<1>3. Turn(op.kind) /\ op.kind \in Kinds /\ op.at = "clearing" /\ tail' = tail
  BY <1>1, <1>2, GoesOnIs
<1>4. PICK fault \in Faults : Hydrate(op.kind, session, fault)
  BY DEF Cleared
<1>5. Like(session) /\ op.kind # "submit"
  BY <1>3 DEF LifeInv, Rest, TypeOK, EntryInv, LockInv, Like
<1> QED BY <1>2, <1>3, <1>4, <1>5, HydrateKeeps

LEMMA BootedKeeps ==
  ASSUME LifeInv, Booted
  PROVE  LifeInv'
<1>1. Resumes("booting") /\ SameEntry /\ UNCHANGED hostVars /\ "booting" \in Places \ {"quarantining"}
  BY DEF Booted, Places
<1>2. Turn(op.kind) /\ op.kind \in Kinds /\ op.at = "booting" /\ session.status # "closed"
  BY <1>1, ResumesIs
<1>3. PICK fault \in Faults : IF session.bootOk THEN Back(op.kind, session, fault)
                              ELSE Quarantine(op.kind, session, fault)
  BY DEF Booted
<1>4. CASE session.bootOk
  <2>1. session.runtime # None /\ session.status # "quarantined" /\ session.active # Boot
    BY <1>2, <1>4, Places3 DEF LifeInv, Rest, BootInv
  <2>2. Like(session)
    BY DEF LifeInv, Rest, TypeOK, EntryInv, Like
  <2> QED BY <1>2, <1>3, <1>4, <2>1, <2>2, BackKeeps
<1>5. CASE ~session.bootOk
  BY <1>2, <1>3, <1>5, SessionMidway, QuarantineKeeps
<1> QED BY <1>4, <1>5

LEMMA LaunchFailedKeeps ==
  ASSUME LifeInv, LaunchFailed
  PROVE  LifeInv'
<1>1. Resumes("failing") /\ SameEntry /\ UNCHANGED hostVars /\ "failing" \in Places \ {"quarantining"}
  BY DEF LaunchFailed, Places
<1>2. Turn(op.kind) /\ op.kind \in Kinds /\ op.at = "failing" /\ op # NoOp
  BY <1>1, ResumesIs
<1>3. session \in Entries /\ Entry(session) /\ LockInv
  BY DEF LifeInv, Rest, TypeOK, EntryInv
<1>4. op.run # None /\ op.run \in dead /\ (op.kept = <<>> => Still(session.hist))
  BY <1>2, <1>3 DEF LockInv, LaunchFailed
<1>5. PICK s : s = Orphaned(Ended(session, op.run), op.kept)
  OBVIOUS
<1>6. Midway(op.kind, s)
  <2>1. CASE Still(session.hist)
    <3>1. PICK t : t = Ended(session, op.run)
      OBVIOUS
    <3>2. Midway(op.kind, t) /\ t \in Entries /\ Sound(t) /\ t.hist = session.hist
      BY <1>4, <2>1, <3>1, GoneIs DEF Entry
    <3>3. /\ s \in Entries /\ Sound(s) /\ s.runtime = t.runtime /\ Follows(t.hist, s.hist)
      BY <1>5, <3>1, <3>2, OrphanedIs
    <3>4. Later(session.hist, s.hist) /\ (HasRoom(session.hist) => HasRoom(s.hist))
      BY <3>2, <3>3, LaterIs, StaysOrdered DEF Sound
    <3> QED BY <3>2, <3>3, <3>4 DEF Midway
  <2>2. CASE ~Still(session.hist)
    <3>1. op.kept # <<>> /\ session.runtime # None /\ session.runtime = op.run
      BY <1>3, <1>4, <2>2 DEF LockInv, Entry, Sound, Idle
    <3>2. PICK h : h = [e \in Execs |-> IF session.hist[e] \in Pending THEN "interrupted" ELSE session.hist[e]]
      OBVIOUS
    <3>3. session.hist \in Histories
      BY <1>3, EntryFields
    <3>4. h \in Histories /\ Follows(session.hist, h) /\ Runs(h) = {}
      BY <3>2, <3>3 DEF Histories, Follows, Runs, Pending, Ends
    <3>5. PICK t : t = [session EXCEPT !.runtime = None, !.subscribed = FALSE, !.killed = FALSE,
                                       !.queue = <<>>, !.active = None, !.endHeld = FALSE]
      OBVIOUS
    <3>6. <<>> \in Seq(Execs) /\ None \in 0..Boot
      BY Places3
    <3>7. /\ t \in Entries /\ t.runtime = None /\ t.subscribed = FALSE /\ t.queue = <<>>
          /\ t.active = None /\ t.endHeld = FALSE /\ t.hist = session.hist
      BY <1>3, <3>5, <3>6 DEF Entries
    <3>8. s = [t EXCEPT !.hist = h, !.queue = <<>>]
      BY <1>5, <3>1, <3>2, <3>5, <3>7 DEF Orphaned, Ended
    <3>9. /\ s \in Entries /\ s.runtime = None /\ s.subscribed = FALSE /\ s.queue = <<>>
          /\ s.active = None /\ s.endHeld = FALSE /\ s.hist = h
      BY <3>4, <3>6, <3>7, <3>8 DEF Entries
    <3>10. Sound(s) /\ Later(session.hist, s.hist) /\ (HasRoom(session.hist) => HasRoom(s.hist))
      BY <1>3, <3>4, <3>9, LaterIs, StaysOrdered DEF Sound, Idle, Entry, Still
    <3> QED BY <1>4, <3>1, <3>9, <3>10 DEF Midway
  <2> QED BY <2>1, <2>2
<1>7. PICK fault \in Faults : Quarantine(op.kind, s, fault)
  BY <1>5 DEF LaunchFailed
<1> QED BY <1>2, <1>6, <1>7, QuarantineKeeps

-----------------------------------------------------------------------------
(* The session is closed.                                                  *)

LEMMA RemoveKeeps ==
  ASSUME LifeInv, HasLock("close"), listed, op.at # "quarantining",
         UNCHANGED <<durable, boots, delayed, astray, saved, up, spent, ending, dead, runtimes>>,
         NEW s \in Entries, Entry(s), Idle(s), s.runtime = None, s.hist = session.hist,
         session.runtime \in {None} \cup dead, NEW fault \in Faults, Remove(s, fault)
  PROVE  LifeInv'
<1>1. TypeOK /\ EntryInv /\ HostInv /\ LoopInv /\ AskInv /\ DiskInv
  BY DEF LifeInv, Rest
<1>2. session' = [s EXCEPT !.status = "closed"] /\ "closed" \in Statuses
  BY DEF Remove, Statuses
<1>3. /\ session' \in Entries /\ session'.status = "closed" /\ session'.hist = session.hist
      /\ session'.runtime = None /\ session'.queue = <<>> /\ session'.active = None
      /\ ~session'.endHeld /\ ~session'.subscribed /\ Still(session.hist)'
  BY <1>2, StatusIs, StillSo DEF Idle
<1>4. op' = NoOp /\ loops' = loops /\ TellNothing
  BY DEF Remove
<1>5. session'.hist \in Histories /\ NoExecs \in Histories /\ Ordered(NoExecs)
  BY <1>3, EntryFields DEF NoExecs, Histories, Ordered
<1>6. /\ disk.catalog \in {"none"} \cup Statuses /\ disk.hist \in Histories
      /\ disk \in [catalog : {"none"} \cup Statuses, hist : Histories]
  BY <1>1 DEF TypeOK
<1>7. PICK b \in {"none"} \cup Statuses :
         /\ fault = "catalog" => disk' = [catalog |-> b, hist |-> session'.hist]
         /\ b \in {disk.catalog, "closed"}
  BY <1>2, <1>6 DEF Remove
<1>8. /\ disk' \in [catalog : {"none"} \cup Statuses, hist : Histories] /\ faults' \in 0..MaxTroubles
      /\ listed' \in BOOLEAN /\ closed' \in BOOLEAN /\ Ordered(disk'.hist) /\ DiskInv'
  <2>1. CASE fault = "none"
    <3>1. disk' = [catalog |-> "none", hist |-> NoExecs] /\ faults' = faults /\ ~listed' /\ closed'
      BY <2>1 DEF Remove
    <3>2. disk' \in [catalog : {"none"} \cup Statuses, hist : Histories] /\ disk'.catalog = "none"
          /\ Ordered(disk'.hist) /\ faults' \in 0..MaxTroubles
      BY <1>1, <1>5, <3>1 DEF TypeOK
    <3>3. listed' \in BOOLEAN /\ closed' \in BOOLEAN
      BY <1>1, <2>1 DEF Remove, TypeOK
    <3>4. DiskInv'
      <4>1. OnTime' = OnTime /\ toldAnew' = toldAnew
        BY <1>4 DEF OnTime, TellNothing, Remove
      <4> QED BY <1>1, <3>1, <3>2, <4>1 DEF DiskInv
    <3> QED BY <3>2, <3>3, <3>4
  <2>2. CASE fault # "none"
    <3>1. listed' /\ faults' = faults + 1 /\ Trouble("fault")
      BY <2>2 DEF Remove
    <3>2. closed' = closed
      <4>1. closed \in BOOLEAN /\ closed' = (closed \/ fault = "none")
        BY <1>1 DEF TypeOK, Remove
      <4> QED BY <2>2, <4>1
    <3>3. faults' \in 0..MaxTroubles
      <4>1. faults \in 0..MaxTroubles /\ spent.exits \in 0..MaxTroubles /\ spent.restarts \in 0..MaxTroubles
        BY <1>1 DEF TypeOK
      <4>2. MaxTroubles \in Nat
        BY LifecycleAssumption
      <4> QED BY <3>1, <4>1, <4>2 DEF Trouble
    <3>4. \/ disk' = disk
          \/ disk'.catalog = b /\ disk'.hist = session'.hist
             /\ disk' = [catalog |-> b, hist |-> session'.hist]
      BY <1>7, <2>2 DEF Remove, Faults
    <3>5. disk' \in [catalog : {"none"} \cup Statuses, hist : Histories] /\ Ordered(disk'.hist)
      <4>1. Ordered(session'.hist) /\ Ordered(disk.hist)
        BY <1>1, <1>3 DEF EntryInv, Entry, Sound
      <4> QED BY <1>5, <1>6, <3>4, <4>1
    <3>6. listed' \in BOOLEAN /\ closed' \in BOOLEAN
      BY <1>1, <3>2 DEF Remove, TypeOK
    <3>7. DiskInv'
      <4>1. OnTime' = OnTime /\ told' = told /\ toldAnew' = toldAnew
        BY <1>4 DEF OnTime, TellNothing
      <4>2. OnTime => disk.catalog # "none" /\ ~closed /\ ~toldAnew
        BY <1>1 DEF DiskInv
      <4>3. OnTime => disk'.catalog # "none"
        BY <1>7, <3>4, <4>2
      <4>4. OnTime => \A e \in Execs : told[e] # "none" => disk'.hist[e] = told[e] /\ session'.hist[e] = told[e]
        BY <1>1, <1>3, <3>4, <4>2 DEF DiskInv
      <4> QED BY <3>1, <3>2, <4>1, <4>2, <4>3, <4>4 DEF DiskInv
    <3> QED BY <3>3, <3>5, <3>6, <3>7
  <2> QED BY <2>1, <2>2
<1>10. tail' \in Seq(Waiters)
  BY <1>1, LockFacts
<1>11. TypeOK'
  BY <1>1, <1>3, <1>4, <1>8, <1>10 DEF TypeOK, TellNothing
<1>12. EntryInv'
  <2>1. Entry(session')
    BY <1>1, <1>3, Places3 DEF EntryInv, Entry, Sound, Idle, Still, Revived
  <2> QED BY <1>8, <2>1, StillSo DEF EntryInv
<1>13. HostInv'
  <2>1. runtimes \in Nat /\ None \notin ending /\ op'.run = None
    BY <1>1, <1>4, NoOpIs, Places3 DEF TypeOK
  <2> QED BY <1>1, <1>3, <2>1, HostsStay
<1>14. LockInv'
  BY <1>3, <1>4, NoOpIs, Places3 DEF LockInv
<1>15. LoopInv'
  BY <1>1, <1>3, <1>4, LoopsKeep
<1>16. AskInv'
  BY <1>1, <1>3, <1>4, NoOpIs, AskKeeps
<1>17. WaitInv' /\ FifoInv'
  <2>1. Waits' = <<>>
    BY <1>3, <1>4, NoOpIs DEF Waits
  <2> QED BY <1>3, <2>1, NoneWait
<1>18. BootInv'
  BY <1>3, <1>4, NoOpIs DEF BootInv
<1> QED BY <1>8, <1>11, <1>12, <1>13, <1>14, <1>15, <1>16, <1>17, <1>18 DEF LifeInv, Rest

LEMMA BeginCloseKeeps ==
  ASSUME LifeInv, BeginClose
  PROVE  LifeInv'
<1>1. /\ op = NoOp /\ op.at = "none" /\ HasLock("close") /\ listed
      /\ UNCHANGED <<durable, boots, delayed, astray, saved, up, spent, ending, dead, runtimes>>
  BY NoOpIs DEF BeginClose, Granted, Acquire, HasLock, hostVars, serverVars
<1>2. session \in Entries /\ Entry(session) /\ TypeOK /\ LockInv
  BY DEF LifeInv, Rest, TypeOK, EntryInv
<1>3. PICK fault \in Faults :
         IF session.runtime = None THEN Remove(session, fault)
         ELSE /\ session' = Stopping(session, {})
              /\ Persist(session', fault)
              /\ op' = [At("close", "closing", session.runtime) EXCEPT !.failed = (fault # "none")]
              /\ SameEntry /\ TellNothing /\ UNCHANGED loops
  BY DEF BeginClose
<1>4. CASE session.runtime = None
  <2>1. Idle(session)
    BY <1>2, <1>4 DEF Entry, Sound
  <2> QED BY <1>1, <1>2, <1>3, <1>4, <2>1, RemoveKeeps
<1>5. CASE session.runtime # None
  <2>1. Turn("close") /\ "close" \in Kinds
    BY <1>1, <1>3, <1>5 DEF Turn, HoldsLock, SameEntry, entryVars, hostVars, serverVars, Kinds
  <2>2. PICK q \in Seq(Execs) : q = <<>>
    <3>1. <<>> \in Seq(Execs)
      OBVIOUS
    <3> QED BY <3>1
  <2>3. DOMAIN q = {} /\ Range(q) = {}
    <3>1. DOMAIN q = {}
      BY <2>2
    <3> QED BY <3>1 DEF Range
  <2>4. Once(q) /\ Sorted(q)
    BY <2>3 DEF Once, Sorted
  <2>5. op' \in Holders /\ op'.kind = "close" /\ op'.run = session.runtime /\ op'.kept = q /\ op'.at = "closing"
    <3>1. PICK o : o = At("close", "closing", session.runtime)
      OBVIOUS
    <3>2. o \in Holders /\ o.kind = "close" /\ o.at = "closing" /\ o.run = session.runtime /\ o.kept = q
      <4>1. "closing" \in Places
        BY DEF Places
      <4> QED BY <1>2, <2>1, <2>2, <3>1, <4>1, EntryFields, AtIs
    <3>3. op' = [o EXCEPT !.failed = (fault # "none")]
      BY <1>3, <1>5, <3>1
    <3> QED BY <3>2, <3>3 DEF Holders
  <2>6. session' = Stopping(session, Range(q)) /\ loops' = loops /\ TellNothing /\ Persist(session', fault)
    BY <1>3, <1>5, <2>3
  <2>7. Midway("close", session)
    BY SessionMidway
  <2>8. "error" \in Ends /\ None \notin Execs
    BY Places3 DEF Ends
  <2> QED BY <1>5, <2>1, <2>2, <2>3, <2>4, <2>5, <2>6, <2>7, <2>8, StopKeeps
<1> QED BY <1>4, <1>5

LEMMA ClosesKeeps ==
  ASSUME LifeInv, Closes
  PROVE  LifeInv'
<1>1. op.at = "closing" /\ op # NoOp /\ op.run \in dead
  BY NoOpIs DEF Closes, Resumes, GoesOn
<1>2. LockInv /\ session \in Entries
  BY DEF LifeInv, Rest, TypeOK
<1>3. op.run # None /\ Idle(session) /\ listed /\ session.status # "closed"
  BY <1>1, <1>2 DEF LockInv
<1>4. PICK s : s = Ended(session, op.run)
  OBVIOUS
<1>5. /\ s \in Entries /\ Entry(s) /\ Idle(s) /\ s.runtime = None
      /\ s.hist = session.hist /\ s.status = session.status /\ s.resolved = session.resolved
  BY <1>1, <1>3, <1>4, GoneIs DEF Idle
<1>6. /\ UNCHANGED <<durable, boots, delayed, astray, saved, up, spent, ending, dead, runtimes>>
      /\ tail' = tail
  BY DEF Closes, Resumes, GoesOn, hostVars, serverVars
<1>7. session.runtime \in {None} \cup dead
  BY <1>1, <1>2, <1>3 DEF LockInv
<1>8. HasLock("close") /\ HasLock(op.kind)
  BY <1>1, <1>6 DEF HasLock, Admits
<1>9. CASE op.failed
  <2>1. session' = s /\ op' = NoOp /\ SameEntry /\ UNCHANGED <<disk, faults, loops, told, toldAnew>>
    BY <1>4, <1>9 DEF Closes
  <2>2. HoldsLock /\ listed' = listed /\ astray' = astray
    BY <1>6, <2>1 DEF HoldsLock, SameEntry, entryVars, hostVars, serverVars
  <2>3. s.active = None /\ s.active = session.active /\ s.queue = session.queue /\ ~s.endHeld
    BY <1>3, <1>5 DEF Idle
  <2>4. LockInv'
    BY <1>3, <1>5, <2>1, <2>2, <2>3, NoOpIs, Places3 DEF LockInv
  <2>5. Waits' = Waits
    BY <1>1, <2>1, <2>3, NoOpIs DEF Waits
  <2>6. s.runtime = None => session.runtime \in {None} \cup dead
    BY <1>7
  <2> QED BY <1>1, <1>5, <1>8, <2>1, <2>2, <2>3, <2>4, <2>5, <2>6, NoOpIs, HolderKeeps
<1>10. CASE ~op.failed
  <2>1. PICK fault \in Faults : Remove(s, fault)
    BY <1>4, <1>5, <1>10 DEF Closes
  <2> QED BY <1>1, <1>3, <1>5, <1>6, <1>7, <1>8, <2>1, RemoveKeeps
<1> QED BY <1>9, <1>10

-----------------------------------------------------------------------------
(* An interrupt ends.                                                      *)

LEMMA InterruptEndsKeeps ==
  ASSUME LifeInv, NEW mode \in {"soft", "recycle"}, InterruptEnds(mode)
  PROVE  LifeInv'
<1>1. /\ Resumes("interrupting") /\ SameEntry /\ UNCHANGED hostVars
      /\ "interrupting" \in Places \ {"quarantining"} /\ "interrupt" \in Kinds /\ "interrupted" \in Ends
  BY DEF InterruptEnds, Places, Kinds, Ends
<1>2. /\ Turn(op.kind) /\ op \in Holders /\ op # NoOp /\ op.at = "interrupting"
      /\ session.status # "closed" /\ op.run \in {None} \cup Runtimes
  BY <1>1, ResumesIs
<1>3. /\ Turn("interrupt") /\ HasLock("interrupt") /\ HoldsLock /\ listed /\ listed' = listed
      /\ tail' = tail /\ astray' = astray
  BY <1>1, <1>2 DEF Turn, HasLock, Admits, HoldsLock, entryVars, Resumes, GoesOn
<1>4. /\ session \in Entries /\ Entry(session) /\ TypeOK /\ LockInv /\ HostInv /\ AskInv
      /\ WaitInv /\ FifoInv
  BY DEF LifeInv, Rest, TypeOK, EntryInv
<1>5. op.exec \in Execs /\ op.run # None
  BY <1>2, <1>4 DEF LockInv
<1>6. PICK s1 : s1 = Finished(session, "interrupted")
  OBVIOUS
<1>7. /\ s1 \in Entries /\ Entry(s1) /\ s1.status = session.status /\ s1.runtime = session.runtime
      /\ s1.queue = session.queue /\ s1.active = None /\ ~s1.endHeld
      /\ Follows(session.hist, s1.hist)
      /\ session.active \in Execs => s1.hist[session.active] = "interrupted"
                                     /\ session.hist[session.active] = "running"
      /\ \A e \in Execs : e # session.active => s1.hist[e] = session.hist[e]
  BY <1>1, <1>4, <1>6, FinishedIs
<1>8. HasRoom(session.hist) => HasRoom(s1.hist)
  BY <1>4, <1>7, StaysOrdered DEF Entry, Sound
<1>9. Midway("interrupt", s1)
  <2>1. Later(session.hist, s1.hist) /\ Sound(s1)
    BY <1>7, LaterIs DEF Entry
  <2> QED BY <1>7, <1>8, <2>1 DEF Midway
<1>10. PICK fault \in Faults :
         \/ session.runtime # op.run /\ Quarantine("interrupt", session, fault)
         \/ /\ session.runtime = op.run /\ session.active # op.exec /\ fault = "none"
            /\ op' = NoOp
            /\ UNCHANGED <<session, disk, faults, loops, told, toldAnew>>
         \/ /\ session.runtime = op.run /\ session.active = op.exec /\ fault # "none"
            /\ Quarantine("interrupt", s1, fault)
         \/ /\ session.runtime = op.run /\ session.active = op.exec /\ fault = "none" /\ mode = "soft"
            /\ session' = [s1 EXCEPT !.status = "live_idle"] /\ Persist(session', fault) /\ op' = NoOp
            /\ TellEnd(op.exec, "interrupted", fault) /\ UNCHANGED loops
         \/ /\ session.runtime = op.run /\ session.active = op.exec /\ fault = "none" /\ mode = "recycle"
            /\ session' = Stopping(s1, Range(s1.queue))
            /\ Persist(session', fault)
            /\ op' = [At("interrupt", "stopping", op.run) EXCEPT !.kept = s1.queue]
            /\ TellEnd(op.exec, "interrupted", fault) /\ UNCHANGED loops
  BY <1>6 DEF InterruptEnds
<1>11. CASE session.runtime # op.run /\ Quarantine("interrupt", session, fault)
  BY <1>1, <1>3, <1>11, SessionMidway, QuarantineKeeps
<1>12. CASE op' = NoOp /\ UNCHANGED <<session, disk, faults, loops, told, toldAnew>>
  <2>1. session.active # Boot
    BY <1>2, <1>4 DEF LockInv
  <2>2. LockInv'
    BY <1>2, <1>3, <1>4, <1>12, <2>1, NoOpIs DEF LockInv
  <2>3. Waits' = Waits
    BY <1>2, <1>12, NoOpIs DEF Waits
  <2>4. session.runtime = None => session.runtime \in {None} \cup dead
    OBVIOUS
  <2> QED BY <1>2, <1>3, <1>4, <1>12, <2>2, <2>3, <2>4, NoOpIs, HolderKeeps
<1>13. CASE Quarantine("interrupt", s1, fault)
  BY <1>1, <1>3, <1>9, <1>13, QuarantineKeeps
<1>14. CASE /\ session.active = op.exec /\ fault = "none"
            /\ session' = [s1 EXCEPT !.status = "live_idle"] /\ Persist(session', fault) /\ op' = NoOp
            /\ TellEnd(op.exec, "interrupted", fault) /\ UNCHANGED loops
  <2>1. session.status # "quarantined" /\ session.runtime # None
    BY <1>4, <1>5, <1>14, Places3 DEF Entry, Sound, Idle
  <2>2. "live_idle" \in Statuses /\ "live_idle" \notin {"quarantined", "closed"}
    BY DEF Statuses
  <2>3. /\ session' \in Entries /\ session'.status = "live_idle" /\ session'.hist = s1.hist
        /\ session'.runtime = session.runtime /\ session'.queue = session.queue
        /\ session'.active = None /\ ~session'.endHeld
    BY <1>7, <1>14, <2>2, StatusIs
  <2>4. op'.at = "none" /\ op'.run = None /\ op'.kind = "none"
    BY <1>14, NoOpIs
  <2>5. TypeOK'
    <3>1. /\ disk' \in [catalog : {"none"} \cup Statuses, hist : Histories] /\ faults' \in 0..MaxTroubles
      BY <1>4, <1>14, <2>3, PersistIs
    <3>2. told' \in [Execs -> {"none"} \cup Ends] /\ toldAnew' \in BOOLEAN
      BY <1>1, <1>4, <1>14, TellIs
    <3>3. tail' \in Seq(Waiters) /\ loops' \subseteq LoopRecords /\ op' \in {NoOp} \cup Holders
      BY <1>3, <1>4, <1>14 DEF TypeOK
    <3> QED BY <1>3, <1>4, <2>3, <3>1, <3>2, <3>3, TypeKeeps
  <2>6. HostInv'
    <3>1. dead' = dead /\ ending' = ending /\ runtimes' = runtimes /\ runtimes \in Nat
      BY <1>1, <1>4 DEF hostVars, TypeOK
    <3>2. session'.runtime \in ending => Revived'
      BY <1>3, <1>4, <2>1, <2>3, HoldsStill DEF HostInv
    <3> QED BY <1>4, <2>1, <2>3, <2>4, <3>1, <3>2, HostsStay
  <2>7. LockInv'
    BY <1>3, <1>14, <2>2, <2>3, <2>4, Places3 DEF LockInv
  <2>8. AskInv'
    BY <1>2, <1>3, <1>4, <1>8, <2>3, <2>4, AskKeeps
  <2>9. BootInv'
    BY <2>3, <2>4 DEF BootInv
  <2>10. UNCHANGED <<closed, astray, loops>> /\ listed' /\ TellEnd(session.active, "interrupted", fault)
    BY <1>3, <1>14 DEF HoldsLock, entryVars
  <2> QED BY <1>1, <1>2, <1>3, <1>6, <1>14, <2>1, <2>2, <2>3, <2>4, <2>5, <2>6, <2>7, <2>8, <2>9, <2>10,
             FinishKeeps
<1>15. CASE /\ session.runtime = op.run /\ session.active = op.exec /\ fault = "none"
            /\ session' = Stopping(s1, Range(s1.queue))
            /\ Persist(session', fault)
            /\ op' = [At("interrupt", "stopping", op.run) EXCEPT !.kept = s1.queue]
            /\ TellEnd(op.exec, "interrupted", fault) /\ UNCHANGED loops
  <2>1. PICK q \in Seq(Execs) : q = session.queue
    BY <1>4, EntryFields
  <2>2. /\ session' = Stopping(s1, Range(q)) /\ s1.runtime = op.run /\ loops' = loops
    BY <1>7, <1>15, <2>1
  <2>3. op' \in Holders /\ op'.kind = "interrupt" /\ op'.run = s1.runtime /\ op'.kept = q /\ op'.at = "stopping"
    <3>1. PICK o : o = At("interrupt", "stopping", op.run)
      OBVIOUS
    <3>2. o \in Holders /\ o.kind = "interrupt" /\ o.at = "stopping" /\ o.run = op.run
      <4>1. "stopping" \in Places
        BY DEF Places
      <4> QED BY <1>1, <1>2, <3>1, <4>1, AtIs
    <3>3. op' = [o EXCEPT !.kept = q]
      BY <1>7, <1>15, <2>1, <3>1
    <3> QED BY <2>2, <3>2, <3>3 DEF Holders
  <2>4. Waits = q
    BY <1>2, <2>1 DEF Waits
  <2>5. \A i \in DOMAIN q : s1.hist[q[i]] = session.hist[q[i]]
    <3>1. \A i \in DOMAIN q : q[i] \in Execs
      BY RangeIs
    <3>2. session.hist[session.active] = "running"
      BY <1>5, <1>7, <1>15
    <3>3. \A i \in DOMAIN q : session.hist[q[i]] # "running"
      BY <1>4, <2>4 DEF WaitInv, Ends
    <3> QED BY <1>7, <3>1, <3>2, <3>3
  <2>6. /\ Once(q) /\ \A i \in DOMAIN q : s1.hist[q[i]] \in {"queued"} \cup Ends
        /\ OnTime => \A i \in DOMAIN q : s1.hist[q[i]] = "queued"
        /\ OnTime /\ s1.status = "quarantined" => q = <<>>
        /\ astray = {} => Sorted(q)
    BY <1>4, <1>7, <2>4, <2>5 DEF WaitInv, FifoInv
  <2>7. session.hist[op.exec] \in Pending /\ s1.hist[op.exec] = "interrupted"
    BY <1>5, <1>7, <1>15 DEF Pending
  <2>8. s1.runtime # None
    BY <1>5, <2>2
  <2>9. op'.at \in {"stopping", "closing"} /\ (op'.at = "closing" => q = <<>>)
    BY <2>3
  <2> QED BY <1>1, <1>3, <1>7, <1>8, <1>9, <1>15, <2>2, <2>3, <2>6, <2>7, <2>8, <2>9, StopKeeps
<1> QED BY <1>10, <1>11, <1>12, <1>13, <1>14, <1>15

-----------------------------------------------------------------------------
(* Who asks, the loops that go on, and the saves.                          *)

LEMMA GrowsIs ==
  ASSUME NEW q \in Seq(Waiters), NEW w \in Waiters
  PROVE  /\ Append(q, w) \in Seq(Waiters)
         /\ \A i \in DOMAIN Append(q, w) : \/ i \in DOMAIN q /\ Append(q, w)[i] = q[i]
                                           \/ i = Len(q) + 1 /\ Append(q, w)[i] = w
OBVIOUS

\* One more waits for the lock.
LEMMA AskGrows ==
  ASSUME TypeOK, AskInv, NEW w \in Waiters, tail' = Append(tail, w), op' = op,
         HasRoom(session.hist) => HasRoom(session'.hist),
         Admits(w.kind) => ~Admits(op.kind) /\ \A i \in DOMAIN tail : ~Admits(tail[i].kind),
         w.kind = "submit" => HasRoom(session'.hist)
  PROVE  AskInv' /\ tail' \in Seq(Waiters)
<1>1. tail \in Seq(Waiters)
  BY DEF TypeOK
<1>2. tail' \in Seq(Waiters)
  BY <1>1, GrowsIs
<1>3. \A i \in DOMAIN tail' : \/ i \in DOMAIN tail /\ tail'[i] = tail[i]
                              \/ i = Len(tail) + 1 /\ tail'[i] = w
  BY <1>1, GrowsIs
<1>4. \A i, j \in DOMAIN tail' : Admits(tail'[i].kind) /\ Admits(tail'[j].kind) => i = j
  BY <1>3 DEF AskInv
<1>5. Admits(op'.kind) => \A i \in DOMAIN tail' : ~Admits(tail'[i].kind)
  BY <1>3 DEF AskInv
<1>6. Submits' => HasRoom(session'.hist)
  <2>1. Submits' => Submits \/ w.kind = "submit"
    BY <1>3 DEF Submits
  <2> QED BY <2>1 DEF AskInv
<1> QED BY <1>2, <1>4, <1>5, <1>6 DEF AskInv

LEMMA AskStays ==
  ASSUME AskInv, tail' = tail, op' = op, HasRoom(session.hist) => HasRoom(session'.hist)
  PROVE  AskInv'
BY DEF AskInv, Submits

LEMMA AskedKeeps ==
  ASSUME LifeInv, NEW kind \in Asks, Ask(kind)
  PROVE  LifeInv'
<1>1. TypeOK /\ AskInv /\ LoopInv /\ BootInv
  BY DEF LifeInv, Rest
<1>2. PICK w : w = [kind |-> kind, run |-> None]
  OBVIOUS
<1>3. w \in Waiters /\ w.kind = kind
  BY <1>2, LifecycleAssumption DEF Waiters, Kinds
<1>4. UNCHANGED <<session, entryVars, astray, disk, faults, op, loops, hostVars, serverVars, told, toldAnew>>
  BY DEF Ask
<1>5. tail' = Append(tail, w) /\ op' = op /\ session' = session
  BY <1>2, <1>4 DEF Ask
<1>6. Admits(kind) => ~Admits(op.kind) /\ \A i \in DOMAIN tail : ~Admits(tail[i].kind)
  BY DEF Ask, Admits
<1>7. kind = "submit" => HasRoom(session.hist)
  BY DEF Ask, HasRoom
<1>8. AskInv' /\ tail' \in Seq(Waiters)
  BY <1>1, <1>3, <1>5, <1>6, <1>7, AskGrows
<1>9. LoopInv'
  BY <1>1, <1>4 DEF LoopInv
<1>10. BootInv'
  BY <1>1, <1>4 DEF BootInv, Quiet, serverVars, entryVars
<1>11. spent' \in [asks : 0..MaxAsks, exits : 0..MaxTroubles, saves : 0..MaxSaves, restarts : 0..MaxTroubles]
  <2>1. /\ spent \in [asks : 0..MaxAsks, exits : 0..MaxTroubles, saves : 0..MaxSaves, restarts : 0..MaxTroubles]
        /\ spent' = [spent EXCEPT !.asks = spent.asks + 1] /\ spent.asks < MaxAsks
    BY <1>1 DEF TypeOK, Ask
  <2>2. spent.asks + 1 \in 0..MaxAsks
    BY <2>1, LifecycleAssumption
  <2> QED BY <2>1, <2>2
<1>12. loops' \subseteq LoopRecords /\ saved' \in BOOLEAN /\ up' \in BOOLEAN
  BY <1>1, <1>4 DEF TypeOK, serverVars
<1> QED BY <1>4, <1>8, <1>9, <1>10, <1>11, <1>12, QuietKeeps

LEMMA SaveKeeps ==
  ASSUME LifeInv, Save \/ RunOn
  PROVE  LifeInv'
<1>1. TypeOK /\ AskInv /\ LoopInv /\ BootInv
  BY DEF LifeInv, Rest
<1>2. /\ UNCHANGED <<session, entryVars, astray, disk, faults, op, loops, hostVars, told, toldAnew>>
      /\ tail' = tail /\ up' = up
  BY DEF Save, RunOn
<1>3. AskInv' /\ LoopInv'
  BY <1>1, <1>2, AskStays DEF LoopInv
<1>4. BootInv'
  <2>1. Quiet' = Quiet
    BY <1>2 DEF Quiet, entryVars
  <2>2. saved' \/ Quiet
    BY DEF Save, RunOn, Settled, Quiet
  <2> QED BY <1>1, <1>2, <2>1, <2>2 DEF BootInv
<1>5. spent' \in [asks : 0..MaxAsks, exits : 0..MaxTroubles, saves : 0..MaxSaves, restarts : 0..MaxTroubles]
  <2>1. spent \in [asks : 0..MaxAsks, exits : 0..MaxTroubles, saves : 0..MaxSaves, restarts : 0..MaxTroubles]
    BY <1>1 DEF TypeOK
  <2>2. CASE spent' = spent
    BY <2>1, <2>2
  <2>3. CASE spent' = [spent EXCEPT !.saves = spent.saves + 1] /\ spent.saves < MaxSaves
    <3>1. spent.saves + 1 \in 0..MaxSaves
      BY <2>1, <2>3, LifecycleAssumption
    <3> QED BY <2>1, <2>3, <3>1
  <2> QED BY <2>2, <2>3 DEF Save, RunOn
<1>6. tail' \in Seq(Waiters) /\ loops' \subseteq LoopRecords /\ saved' \in BOOLEAN /\ up' \in BOOLEAN
  BY <1>1, <1>2 DEF TypeOK, Save, RunOn
<1> QED BY <1>2, <1>3, <1>4, <1>5, <1>6, QuietKeeps

\* A drain loop ends, or goes on, and leaves the session as it is.
LEMMA LoopKeeps ==
  ASSUME LifeInv, NEW l \in loops, UNCHANGED <<session, astray, disk, faults, ending, told, toldAnew>>,
         Unlocked, tail' \in Seq(Waiters), AskInv', NEW m \in LoopRecords,
         loops' \in {loops \ {l}, (loops \ {l}) \cup {m}},
         l.at = "write" /\ delayed => Settled, l.at = "done" => l.exec \in session.resolved,
         l.at # "write" => m.at \in {"top", "saved"},
         l.at = "write" => m = [l EXCEPT !.at = "done"]
  PROVE  LifeInv'
<1>1. TypeOK /\ LoopInv /\ BootInv
  BY DEF LifeInv, Rest
<1>2. l \in LoopRecords /\ loops' \subseteq LoopRecords
  BY <1>1 DEF TypeOK
<1>3. l.at = "write" => m.at = "done" /\ m.exec = l.exec
  BY <1>2 DEF LoopRecords
<1>4. l.at \in {"top", "saved", "write", "done"}
  BY <1>2 DEF LoopRecords
<1>5. LoopInv'
  <2>1. l.at = "write" => m.exec \in Execs
    BY <1>1, <1>3 DEF LoopInv
  <2>2. m.at = "write" => FALSE
    BY <1>3
  <2>3. m.at \in {"write", "done"} => m.exec \in Execs
    BY <1>3, <2>1
  <2> QED BY <1>1, <2>2, <2>3 DEF LoopInv
<1>6. BootInv'
  <2>1. /\ session' = session /\ op' = op /\ saved' = saved /\ delayed' = delayed
    BY DEF Unlocked, entryVars, serverVars
  <2>2. ASSUME session.endHeld, ~saved PROVE Quiet'
    <3>1. Quiet
      BY <1>1, <2>2 DEF BootInv
    <3>2. l.at \notin {"write", "done"}
      BY <2>2, <3>1 DEF Quiet, Settled
    <3>3. m.at \in {"top", "saved"}
      BY <3>2
    <3> QED BY <2>1, <3>1, <3>3 DEF Quiet
  <2>3. ASSUME op.at = "booting", session.bootOk
        PROVE  Quiet' /\ \A k \in loops' : k.at \notin {"top", "saved"}
    <3>1. Quiet /\ Boot \in session.resolved /\ \A k \in loops : k.at \notin {"top", "saved"}
      BY <1>1, <2>3 DEF BootInv
    <3>2. l.at \notin {"write", "done", "top", "saved"}
      BY <2>3, <3>1 DEF Quiet, Settled
    <3> QED BY <1>4, <3>2
  <2> QED BY <1>1, <2>1, <2>2, <2>3 DEF BootInv
<1>7. UNCHANGED <<session, entryVars, astray, disk, faults, op, hostVars, told, toldAnew>>
  BY DEF Unlocked, hostVars
<1>8. /\ saved' \in BOOLEAN /\ up' \in BOOLEAN
      /\ spent' \in [asks : 0..MaxAsks, exits : 0..MaxTroubles, saves : 0..MaxSaves, restarts : 0..MaxTroubles]
  BY <1>1 DEF TypeOK, Unlocked, serverVars
<1> QED BY <1>2, <1>5, <1>6, <1>7, <1>8, QuietKeeps

LEMMA LoopsOnKeeps ==
  ASSUME LifeInv, NEW l \in loops, LoopEnds(l) \/ LoopWaits(l) \/ LoopRunsOn(l) \/ LoopGoesOn(l)
  PROVE  LifeInv'
<1>1. TypeOK /\ AskInv
  BY DEF LifeInv, Rest
<1>2. l \in LoopRecords /\ Top \in LoopRecords /\ Top.at = "top" /\ tail \in Seq(Waiters)
  BY <1>1, TopIs DEF TypeOK
<1>3. /\ UNCHANGED <<session, astray, disk, faults, ending, told, toldAnew>> /\ Unlocked
      /\ op' = op /\ session' = session
  BY DEF LoopEnds, LoopWaits, LoopRunsOn, LoopGoesOn, Unlocked
<1>4. CASE LoopEnds(l) \/ LoopRunsOn(l)
  <2>1. /\ tail' = tail /\ loops' \in {loops \ {l}, (loops \ {l}) \cup {Top}} /\ l.at \in {"top", "saved"}
    BY <1>4 DEF LoopEnds, LoopRunsOn
  <2>2. AskInv'
    BY <1>1, <1>3, <2>1, AskStays
  <2> QED BY <1>2, <1>3, <2>1, <2>2, LoopKeeps
<1>5. CASE LoopWaits(l)
  <2>1. PICK m : m = [l EXCEPT !.at = "saved"]
    OBVIOUS
  <2>2. m \in LoopRecords /\ m.at = "saved"
    BY <1>2, <2>1 DEF LoopRecords
  <2>3. /\ tail' = tail /\ loops' = (loops \ {l}) \cup {m} /\ l.at = "top" /\ saved
    BY <1>5, <2>1 DEF LoopWaits
  <2>4. AskInv'
    BY <1>1, <1>3, <2>3, AskStays
  <2> QED BY <1>2, <1>3, <2>2, <2>3, <2>4, LoopKeeps
<1>6. CASE LoopGoesOn(l)
  <2>1. l.at = "done" /\ l.exec \in session.resolved /\ loops' \in {loops \ {l}, (loops \ {l}) \cup {Top}}
    BY <1>6 DEF LoopGoesOn
  <2>2. AskInv' /\ tail' \in Seq(Waiters)
    <3>1. CASE tail' = tail
      BY <1>1, <1>2, <1>3, <3>1, AskStays
    <3>2. CASE tail' = Append(tail, [kind |-> "budget", run |-> session.runtime])
      <4>1. PICK w : w = [kind |-> "budget", run |-> session.runtime]
        OBVIOUS
      <4>2. session.runtime \in {None} \cup Runtimes
        BY <1>1, EntryFields DEF TypeOK
      <4>3. w \in Waiters /\ w.kind = "budget" /\ ~Admits(w.kind)
        BY <4>1, <4>2 DEF Waiters, Kinds, Admits
      <4> QED BY <1>1, <1>3, <3>2, <4>1, <4>3, AskGrows
    <3> QED BY <1>6, <3>1, <3>2 DEF LoopGoesOn
  <2> QED BY <1>2, <1>3, <2>1, <2>2, LoopKeeps
<1> QED BY <1>4, <1>5, <1>6

-----------------------------------------------------------------------------
(* A loop runs an exec, and what it writes fails.                          *)

\* failExecStartup's end, the exec ended in `u`.
LEMMA FailedKeeps ==
  ASSUME LifeInv, NEW u \in Entries, Sound(u), u.runtime = session.runtime, NEW e \in Execs,
         session' = Quarantined([u EXCEPT !.detached = u.detached \ {e}]),
         NEW fault \in Faults, Persist(session', fault), TellEnd(e, "error", fault),
         ending' = ending \cup ({session.runtime} \ {None}),
         Unlocked, tail' = tail, loops' \subseteq loops,
         astray \subseteq astray', astray' \subseteq {"early", "late", "revived"},
         HasRoom(session.hist) => HasRoom(u.hist),
         \A x \in Execs : /\ session.hist[x] \in {"running"} \cup Ends => u.hist[x] \in {"running"} \cup Ends
                          /\ session.hist[x] \in {"queued"} \cup Ends => u.hist[x] \in {"queued"} \cup Ends,
         op.at = "booting" => ~u.bootOk,
         OnTime' => /\ op.at \notin {"stopping", "starting"} /\ listed
                    /\ \A d \in Execs : session.hist[d] \in Ends => u.hist[d] = session.hist[d]
                    /\ session.hist[e] \in Pending /\ u.hist[e] = "error"
  PROVE  LifeInv'
<1>1. TypeOK /\ HostInv /\ "error" \in Ends
  BY DEF LifeInv, Rest, Ends
<1>2. PICK t : t = [u EXCEPT !.detached = u.detached \ {e}]
  OBVIOUS
<1>3. /\ t \in Entries /\ t.hist = u.hist /\ t.runtime = u.runtime /\ t.bootOk = u.bootOk
      /\ t.queue = u.queue /\ t.active = u.active /\ t.endHeld = u.endHeld
      /\ t.subscribed = u.subscribed
  BY <1>2 DEF Entries
<1>4. Sound(t)
  BY <1>3 DEF Sound, Idle
<1>5. session' \in Entries
  BY <1>2, <1>3, <1>4, QuarantinedIs
<1>6. /\ UNCHANGED <<op, listed, closed, runtimes, saved, delayed, durable, boots, up, dead, spent>>
  BY DEF Unlocked, entryVars, serverVars
<1>7. TypeOK'
  <2>1. disk' \in [catalog : {"none"} \cup Statuses, hist : Histories] /\ faults' \in 0..MaxTroubles
    BY <1>1, <1>5, PersistIs
  <2>2. told' \in [Execs -> {"none"} \cup Ends] /\ toldAnew' \in BOOLEAN
    BY <1>1, TellIs
  <2>3. ending' \subseteq Runtimes
    BY <1>1, EntryFields DEF TypeOK
  <2> QED BY <1>1, <1>5, <1>6, <2>1, <2>2, <2>3 DEF TypeOK
<1>8. dead \subseteq dead' /\ dead' \subseteq 1..runtimes
  BY <1>1, <1>6 DEF HostInv
<1>9. ending' = ending \cup ({t.runtime} \ {None}) /\ session' = Quarantined(t)
  BY <1>2, <1>3
<1>10. OnTime' => /\ op.at \notin {"stopping", "starting"} /\ listed
                  /\ \A d \in Execs : session.hist[d] \in Ends => t.hist[d] = session.hist[d]
                  /\ e \in Execs => session.hist[e] \in Pending /\ t.hist[e] = "error"
  BY <1>3
<1>11. /\ HasRoom(session.hist) => HasRoom(t.hist)
       /\ \A x \in Execs : /\ session.hist[x] \in {"running"} \cup Ends => t.hist[x] \in {"running"} \cup Ends
                           /\ session.hist[x] \in {"queued"} \cup Ends => t.hist[x] \in {"queued"} \cup Ends
       /\ op.at = "booting" => ~t.bootOk
  BY <1>3
<1>12. UNCHANGED <<op, listed, closed, runtimes, saved, delayed>> /\ t.runtime = session.runtime
  BY <1>3, <1>6
<1> QED BY <1>1, <1>3, <1>4, <1>7, <1>8, <1>9, <1>10, <1>11, <1>12, ContainKeeps

\* The transport's write fails, of an exec whose record is its session's or not.
LEMMA WriteEndsKeeps ==
  ASSUME LifeInv, NEW l \in loops, WriteEnds(l)
  PROVE  LifeInv'
<1>1. /\ TypeOK /\ AskInv /\ LoopInv /\ LockInv /\ BootInv /\ session \in Entries /\ Entry(session)
      /\ Sound(session)
  BY DEF LifeInv, Rest, TypeOK, EntryInv, Entry
<1>2. l \in LoopRecords /\ l.at = "write" /\ (delayed => Settled) /\ Unlocked /\ tail' = tail
  BY <1>1 DEF TypeOK, WriteEnds
<1>3. tail' \in Seq(Waiters) /\ op' = op
  BY <1>1, <1>2 DEF TypeOK, Unlocked
<1>4. PICK m : m = [l EXCEPT !.at = "done"]
  OBVIOUS
<1>5. m \in LoopRecords
  BY <1>2, <1>4 DEF LoopRecords
<1>6. CASE /\ UNCHANGED <<session, astray, disk, faults, ending, told, toldAnew>>
           /\ loops' \in {loops \ {l}, (loops \ {l}) \cup {m}}
  <2>1. AskInv'
    BY <1>1, <1>2, <1>3, <1>6, AskStays
  <2> QED BY <1>2, <1>3, <1>4, <1>5, <1>6, <2>1, LoopKeeps
<1>7. CASE /\ l.run \in dead /\ loops' = loops \ {l}
           /\ \E fault \in Faults : FailStartup(l.exec, session, fault)
           /\ GoesAstray("late", l.exec \in session.detached)
  <2>1. PICK e \in Execs : e = l.exec /\ session.hist[e] \in {"running"} \cup Ends
    BY <1>1, <1>2 DEF LoopInv
  <2>2. PICK fault \in Faults : FailStartup(e, session, fault)
    BY <1>7, <2>1
  <2>3. session.hist \in Histories
    BY <1>1, EntryFields
  <2>4. CASE ~(e \in session.detached \/ session.hist[e] \in Pending)
    <3>1. /\ UNCHANGED <<session, disk, faults, ending, told, toldAnew>> /\ astray' = astray
      BY <1>7, <2>1, <2>2, <2>4 DEF FailStartup, GoesAstray, TellNothing
    <3> QED BY <1>6, <1>7, <3>1
  <2>5. CASE e \in session.detached \/ session.hist[e] \in Pending
    <3>1. PICK u : u = IF session.active = e THEN Finished(session, "error")
                       ELSE IF e \in session.detached THEN session
                       ELSE [session EXCEPT !.hist = [session.hist EXCEPT ![e] = "error"]]
      OBVIOUS
    <3>2. /\ session' = Quarantined([u EXCEPT !.detached = u.detached \ {e}])
          /\ Persist(session', fault) /\ TellEnd(e, "error", fault)
          /\ ending' = ending \cup ({session.runtime} \ {None})
      BY <2>2, <2>5, <3>1 DEF FailStartup
    <3>3. /\ u \in Entries /\ Sound(u) /\ u.runtime = session.runtime /\ u.bootOk = session.bootOk
          /\ Follows(session.hist, u.hist) /\ (e \notin session.detached => u.hist[e] = "error")
      <4>1. CASE session.active = e
        <5>1. "error" \in Ends /\ u = Finished(session, "error")
          BY <3>1, <4>1 DEF Ends
        <5> QED BY <1>1, <4>1, <5>1, FinishedIs DEF Entry
      <4>2. CASE session.active # e /\ e \in session.detached
        <5>1. u = session
          BY <3>1, <4>2
        <5>2. Follows(session.hist, session.hist)
          BY <2>3 DEF Follows, Histories, Pending, Ends
        <5> QED BY <1>1, <4>2, <5>1, <5>2
      <4>3. CASE session.active # e /\ e \notin session.detached
        <5>1. session.hist[e] = "running"
          BY <2>1, <2>5, <4>3 DEF Pending, Ends
        <5>2. PICK h : h = [session.hist EXCEPT ![e] = "error"]
          OBVIOUS
        <5>3. h \in Histories /\ h[e] = "error" /\ \A d \in Execs : d # e => h[d] = session.hist[d]
          BY <2>3, <5>2 DEF Histories, Ends
        <5>4. Follows(session.hist, h)
          BY <2>3, <5>1, <5>3 DEF Follows, Histories, Pending, Ends
        <5>5. u = [session EXCEPT !.hist = h]
          BY <3>1, <4>3, <5>2
        <5>6. /\ u \in Entries /\ u.hist = h /\ u.runtime = session.runtime /\ u.bootOk = session.bootOk
          BY <1>1, <5>3, <5>5 DEF Entries
        <5>7. Ordered(h) /\ Runs(h) \subseteq Runs(session.hist)
          BY <1>1, <5>4, StaysOrdered DEF Sound
        <5>8. /\ u.active = session.active /\ u.queue = session.queue /\ u.endHeld = session.endHeld
              /\ u.subscribed = session.subscribed
          BY <1>1, <5>5 DEF Entries
        <5>9. Still(session.hist) => Still(u.hist)
          BY <5>6, <5>7 DEF Still
        <5>10. Sound(u)
          BY <1>1, <5>6, <5>7, <5>8, <5>9 DEF Sound, Idle
        <5> QED BY <5>3, <5>4, <5>6, <5>10
      <4> QED BY <4>1, <4>2, <4>3
    <3>4. HasRoom(session.hist) => HasRoom(u.hist)
      BY <1>1, <3>3, StaysOrdered DEF Sound
    <3>5. \A x \in Execs :
             /\ session.hist[x] \in {"running"} \cup Ends => u.hist[x] \in {"running"} \cup Ends
             /\ session.hist[x] \in {"queued"} \cup Ends => u.hist[x] \in {"queued"} \cup Ends
      <4>1. u.hist \in Histories
        BY <3>3, EntryFields
      <4> QED BY <2>3, <3>3, <4>1 DEF Follows, Histories, Pending, Ends
    <3>6. op.at = "booting" => ~u.bootOk
      BY <1>1, <1>2, <3>3 DEF BootInv, Quiet, Settled
    <3>7. astray \subseteq astray' /\ astray' \subseteq {"early", "late", "revived"}
      BY <1>1, <1>7 DEF GoesAstray, TypeOK
    <3>8. OnTime' => e \notin session.detached /\ ~Revived
      BY <1>7, <2>1, <3>7 DEF GoesAstray, OnTime, Revived
    <3>9. OnTime' => /\ op.at \notin {"stopping", "starting"} /\ listed
                     /\ \A d \in Execs : session.hist[d] \in Ends => u.hist[d] = session.hist[d]
                     /\ session.hist[e] \in Pending /\ u.hist[e] = "error"
      <4>1. SUFFICES ASSUME e \notin session.detached, ~Revived
                     PROVE  /\ op.at \notin {"stopping", "starting"} /\ listed
                            /\ \A d \in Execs : session.hist[d] \in Ends => u.hist[d] = session.hist[d]
                            /\ session.hist[e] \in Pending /\ u.hist[e] = "error"
        BY <3>8
      <4>2. session.hist[e] = "running" /\ e \in Runs(session.hist)
        BY <2>1, <2>5, <4>1 DEF Pending, Ends, Runs
      <4>3. ~Idle(session) /\ session.runtime # None
        BY <1>1, <4>1, <4>2 DEF Sound, Idle, Still
      <4>4. op.at \notin {"stopping", "starting"} /\ listed
        BY <1>1, <4>3 DEF LockInv
      <4>5. session.hist[e] \in Pending /\ u.hist[e] = "error"
        BY <3>3, <4>1, <4>2 DEF Pending
      <4> QED BY <3>3, <4>4, <4>5 DEF Follows
    <3>10. loops' \subseteq loops
      BY <1>7
    <3> QED BY <1>2, <3>2, <3>3, <3>4, <3>5, <3>6, <3>7, <3>9, <3>10, FailedKeeps
  <2> QED BY <2>4, <2>5
<1> QED BY <1>4, <1>6, <1>7 DEF WriteEnds

\* The exec that is run is the first of those that wait.
LEMMA HeadIs ==
  ASSUME NEW q \in Seq(Execs), q # <<>>, Once(q)
  PROVE  /\ Tail(q) \in Seq(Execs) /\ Head(q) \in Execs /\ Head(q) \in Range(q)
         /\ Once(Tail(q)) /\ Range(Tail(q)) = Range(q) \ {Head(q)}
         /\ 1 \in DOMAIN q /\ Head(q) = q[1]
         /\ \A i \in DOMAIN Tail(q) : i + 1 \in DOMAIN q /\ Tail(q)[i] = q[i + 1] /\ Tail(q)[i] # Head(q)
         /\ Sorted(q) => Sorted(Tail(q)) /\ \A d \in Range(Tail(q)) : Head(q) < d
<1>1. /\ Tail(q) \in Seq(Execs) /\ 1 \in DOMAIN q /\ Head(q) = q[1] /\ Head(q) \in Execs
      /\ DOMAIN q = 1..Len(q) /\ DOMAIN Tail(q) = 1..(Len(q) - 1) /\ Len(q) \in Nat
      /\ \A i \in 1..(Len(q) - 1) : Tail(q)[i] = q[i + 1]
  OBVIOUS
<1>2. \A i \in DOMAIN Tail(q) : i \in Nat /\ i + 1 \in DOMAIN q /\ i + 1 # 1 /\ Tail(q)[i] = q[i + 1]
  BY <1>1
<1>3. \A i \in DOMAIN Tail(q) : Tail(q)[i] # Head(q)
  BY <1>1, <1>2 DEF Once
<1>4. Once(Tail(q))
  <2>1. \A i, j \in DOMAIN Tail(q) : Tail(q)[i] = Tail(q)[j] => i + 1 = j + 1
    BY <1>2 DEF Once
  <2> QED BY <1>2, <2>1 DEF Once
<1>5. Range(Tail(q)) = Range(q) \ {Head(q)}
  <2>1. Range(q) = {q[i] : i \in DOMAIN q} /\ Range(Tail(q)) = {Tail(q)[i] : i \in DOMAIN Tail(q)}
    BY <1>1, RangeIs
  <2>2. Range(Tail(q)) \subseteq Range(q) \ {Head(q)}
    BY <1>2, <1>3, <2>1
  <2>3. ASSUME NEW i \in DOMAIN q, q[i] # Head(q) PROVE q[i] \in Range(Tail(q))
    <3>1. i - 1 \in DOMAIN Tail(q) /\ Tail(q)[i - 1] = q[i]
      BY <1>1, <2>3
    <3> QED BY <2>1, <3>1
  <2> QED BY <2>1, <2>2, <2>3
<1>6. Head(q) \in Range(q)
  BY <1>1, RangeIs
<1>7. ASSUME Sorted(q) PROVE Sorted(Tail(q)) /\ \A d \in Range(Tail(q)) : Head(q) < d
  <2>1. Sorted(Tail(q))
    <3>1. ASSUME NEW i \in DOMAIN Tail(q), NEW j \in DOMAIN Tail(q), i < j
          PROVE  Tail(q)[i] < Tail(q)[j]
      <4>1. i + 1 \in DOMAIN q /\ j + 1 \in DOMAIN q /\ i + 1 < j + 1
        BY <1>2, <3>1
      <4> QED BY <1>2, <1>7, <4>1 DEF Sorted
    <3> QED BY <3>1 DEF Sorted
  <2>2. \A i \in DOMAIN Tail(q) : 1 < i + 1
    BY <1>1
  <2>3. \A i \in DOMAIN Tail(q) : Head(q) < Tail(q)[i]
    BY <1>1, <1>2, <1>7, <2>2 DEF Sorted
  <2>4. Range(Tail(q)) = {Tail(q)[i] : i \in DOMAIN Tail(q)}
    BY <1>1, RangeIs
  <2> QED BY <2>1, <2>3, <2>4
<1> QED BY <1>1, <1>2, <1>3, <1>4, <1>5, <1>6, <1>7

\* What a session that runs its next exec is.
Performed(s, e, q) ==
    [s EXCEPT !.queue = q, !.status = "live_busy", !.active = e,
              !.hist = [s.hist EXCEPT ![e] = "running"], !.interrupted = FALSE, !.endHeld = FALSE]

LEMMA PerformedIs ==
  ASSUME NEW s \in Entries, Entry(s), HasNext(s), NEW e \in Execs, s.hist[e] # "none",
         NEW q \in Seq(Execs),
         NEW t, t = Performed(s, e, q)
  PROVE  /\ t \in Entries /\ Entry(t) /\ t.runtime = s.runtime /\ t.bootOk = s.bootOk
         /\ t.status = "live_busy" /\ t.queue = q /\ t.active = e /\ ~t.endHeld
         /\ t.hist[e] = "running" /\ \A d \in Execs : d # e => t.hist[d] = s.hist[d]
         /\ t.resolved = s.resolved
<1>1. s.hist \in Histories
  BY EntryFields
<1>2. PICK h : h = [s.hist EXCEPT ![e] = "running"]
  OBVIOUS
<1>3. h \in Histories /\ h[e] = "running" /\ \A d \in Execs : d # e => h[d] = s.hist[d]
  BY <1>1, <1>2 DEF Histories, Pending
<1>4. t = [s EXCEPT !.queue = q, !.status = "live_busy", !.active = e,
                    !.hist = h, !.interrupted = FALSE, !.endHeld = FALSE]
  BY <1>2 DEF Performed
<1>5. e \in 0..Boot /\ "live_busy" \in Statuses
  BY Places3 DEF Statuses
<1>6. /\ t \in Entries /\ t.runtime = s.runtime /\ t.bootOk = s.bootOk
      /\ t.status = "live_busy" /\ t.queue = q /\ t.active = e /\ t.endHeld = FALSE
      /\ t.hist = h /\ t.resolved = s.resolved
  <2>1. t \in Entries
    BY <1>3, <1>4, <1>5 DEF Entries
  <2>2. /\ t.runtime = s.runtime /\ t.bootOk = s.bootOk
        /\ t.status = "live_busy" /\ t.queue = q /\ t.active = e /\ t.endHeld = FALSE
        /\ t.hist = h /\ t.resolved = s.resolved
    BY <1>4 DEF Entries
  <2> QED BY <2>1, <2>2
<1>7. Ordered(h)
  BY <1>3 DEF Entry, Sound, Ordered
<1>8. Entry(t)
  BY <1>3, <1>6, <1>7 DEF Entry, Sound, HasNext
<1> QED BY <1>3, <1>6, <1>8

LEMMA PerformKeeps ==
  ASSUME LifeInv, NEW l \in loops, Perform(l)
  PROVE  LifeInv'
<1>1. /\ TypeOK /\ AskInv /\ LoopInv /\ LockInv /\ HostInv /\ WaitInv /\ FifoInv /\ DiskInv /\ BootInv
      /\ session \in Entries /\ Entry(session) /\ Ordered(disk.hist)
  BY DEF LifeInv, Rest, TypeOK, EntryInv
<1>2. /\ up /\ l.at = "top" /\ HasNext(session) /\ Unlocked /\ tail' = tail
      /\ session.runtime # None /\ session.active = None /\ session.queue # <<>>
  BY DEF Perform, HasNext
<1>3. /\ op.at \notin {"stopping", "starting", "closing", "quarantining"} /\ listed
      /\ session.status # "closed"
  BY <1>1, <1>2 DEF LockInv, Idle, Entry
<1>4. Waits = session.queue
  BY <1>3 DEF Waits
<1>5. PICK q \in Seq(Execs) : q = session.queue
  BY <1>1, EntryFields
<1>6. /\ Once(q) /\ q # <<>> /\ \A i \in DOMAIN q : session.hist[q[i]] \in {"queued"} \cup Ends
      /\ OnTime => \A i \in DOMAIN q : session.hist[q[i]] = "queued"
      /\ OnTime => session.status # "quarantined"
  BY <1>1, <1>2, <1>4, <1>5 DEF WaitInv
<1>7. PICK e : e = Head(q)
  OBVIOUS
<1>8. /\ Tail(q) \in Seq(Execs) /\ e \in Execs /\ e \in Range(q) /\ Once(Tail(q))
      /\ Range(Tail(q)) = Range(q) \ {e} /\ 1 \in DOMAIN q /\ e = q[1]
      /\ \A i \in DOMAIN Tail(q) : i + 1 \in DOMAIN q /\ Tail(q)[i] = q[i + 1] /\ Tail(q)[i] # e
      /\ Sorted(q) => Sorted(Tail(q)) /\ \A d \in Range(Tail(q)) : e < d
  BY <1>6, <1>7, HeadIs
<1>9. session.hist[e] \in {"queued"} \cup Ends /\ session.hist[e] # "none" /\ (OnTime => session.hist[e] = "queued")
  BY <1>6, <1>8 DEF Ends
<1>10. PICK s1 : s1 = Performed(session, e, Tail(q))
  OBVIOUS
<1>11. /\ s1 \in Entries /\ Entry(s1) /\ s1.runtime = session.runtime /\ s1.bootOk = session.bootOk
       /\ s1.status = "live_busy" /\ s1.queue = Tail(q) /\ s1.active = e /\ ~s1.endHeld
       /\ s1.hist[e] = "running" /\ \A d \in Execs : d # e => s1.hist[d] = session.hist[d]
       /\ s1.resolved = session.resolved
  <2>1. session \in Entries /\ Entry(session) /\ HasNext(session)
    BY <1>1, <1>2
  <2>2. PICK r \in Seq(Execs) : r = Tail(q)
    BY <1>8
  <2>3. s1 = Performed(session, e, r)
    BY <1>10, <2>2
  <2>4. e \in Execs /\ session.hist[e] # "none"
    BY <1>8, <1>9
  <2>5. /\ s1 \in Entries /\ Entry(s1) /\ s1.runtime = session.runtime /\ s1.bootOk = session.bootOk
        /\ s1.status = "live_busy" /\ s1.queue = r /\ s1.active = e /\ ~s1.endHeld
        /\ s1.hist[e] = "running" /\ \A d \in Execs : d # e => s1.hist[d] = session.hist[d]
        /\ s1.resolved = session.resolved
    BY <2>1, <2>3, <2>4, PerformedIs
  <2> QED BY <2>2, <2>5
<1>12. op.at = "booting" => ~session.bootOk
  BY <1>1, <1>2 DEF BootInv
<1>13. /\ astray \subseteq astray' /\ astray' \subseteq {"early", "late", "revived"}
       /\ OnTime' => OnTime
       /\ astray' = {} => astray = {} /\ op.at \notin {"prompting", "clearing", "failing"}
  BY <1>1 DEF Perform, GoesAstray, TypeOK, OnTime
<1>14. PICK fault \in Faults :
         IF fault = "none"
         THEN /\ session' = s1 /\ Persist(s1, fault)
              /\ loops' = (loops \ {l}) \cup {[at |-> "write", exec |-> e, run |-> s1.runtime]}
              /\ TellNothing /\ UNCHANGED ending
         ELSE loops' = loops \ {l} /\ FailStartup(e, s1, fault)
  BY <1>5, <1>7, <1>10 DEF Perform, Performed
<1>15. \A d \in Execs : session.hist[d] # "none" <=> s1.hist[d] # "none"
  BY <1>9, <1>11
<1>16. \A x \in Execs : session.hist[x] \in {"running"} \cup Ends => s1.hist[x] \in {"running"} \cup Ends
  BY <1>11
<1>17. HasRoom(session.hist) => HasRoom(s1.hist)
  BY <1>15 DEF HasRoom
<1>18. OnTime => \A d \in Execs : session.hist[d] \in Ends => d # e /\ s1.hist[d] = session.hist[d]
  BY <1>9, <1>11 DEF Ends
<1>19. ASSUME fault # "none" PROVE LifeInv'
  <2>1. PICK u : u = Finished(s1, "error")
    OBVIOUS
  <2>2. "error" \in Ends
    BY DEF Ends
  <2>3. /\ u \in Entries /\ Entry(u) /\ u.runtime = session.runtime /\ u.bootOk = session.bootOk
        /\ Follows(s1.hist, u.hist) /\ u.hist[e] = "error"
        /\ \A d \in Execs : d # e => u.hist[d] = session.hist[d]
    BY <1>8, <1>11, <2>1, <2>2, FinishedIs
  <2>4. FailStartup(e, s1, fault) /\ loops' \subseteq loops
    BY <1>14, <1>19
  <2>5. /\ session' = Quarantined([u EXCEPT !.detached = u.detached \ {e}])
        /\ Persist(session', fault) /\ TellEnd(e, "error", fault)
        /\ ending' = ending \cup ({session.runtime} \ {None})
    BY <1>11, <2>1, <2>4 DEF FailStartup, Pending
  <2>6. HasRoom(session.hist) => HasRoom(u.hist)
    BY <1>11, <1>17, <2>3, StaysOrdered DEF Entry, Sound
  <2>7. \A x \in Execs : /\ session.hist[x] \in {"running"} \cup Ends => u.hist[x] \in {"running"} \cup Ends
                         /\ session.hist[x] \in {"queued"} \cup Ends => u.hist[x] \in {"queued"} \cup Ends
    BY <2>2, <2>3
  <2>8. OnTime' => /\ op.at \notin {"stopping", "starting"} /\ listed
                   /\ \A d \in Execs : session.hist[d] \in Ends => u.hist[d] = session.hist[d]
                   /\ session.hist[e] \in Pending /\ u.hist[e] = "error"
    BY <1>3, <1>9, <1>13, <1>18, <2>3 DEF Pending
  <2>9. op.at = "booting" => ~u.bootOk
    BY <1>12, <2>3
  <2>10. Sound(u)
    BY <2>3 DEF Entry
  <2> QED BY <1>2, <1>8, <1>13, <2>3, <2>4, <2>5, <2>6, <2>7, <2>8, <2>9, <2>10, FailedKeeps
<1>20. ASSUME fault = "none" PROVE LifeInv'
  <2>1. PICK m : m = [at |-> "write", exec |-> e, run |-> session.runtime]
    OBVIOUS
  <2>2. /\ session' = s1 /\ Persist(session', fault) /\ loops' = (loops \ {l}) \cup {m}
        /\ TellNothing /\ ending' = ending
    BY <1>11, <1>14, <1>20, <2>1
  <2>3. /\ UNCHANGED <<op, listed, closed, runtimes, saved, delayed, durable, boots, up, dead, spent>>
    BY <1>2 DEF Unlocked, entryVars, serverVars
  <2>4. m \in LoopRecords /\ m.at = "write" /\ m.exec = e
    BY <1>1, <1>8, <2>1, EntryFields DEF LoopRecords
  <2>5. "error" \in Ends /\ None \notin Execs
    BY Places3 DEF Ends
  <2>6. TypeOK'
    <3>1. disk' \in [catalog : {"none"} \cup Statuses, hist : Histories] /\ faults' \in 0..MaxTroubles
      BY <1>1, <1>11, <2>2, PersistIs
    <3>2. loops' \subseteq LoopRecords
      BY <1>1, <2>2, <2>4 DEF TypeOK
    <3> QED BY <1>1, <1>2, <1>11, <1>13, <2>2, <2>3, <3>1, <3>2 DEF TypeOK, TellNothing
  <2>7. EntryInv'
    <3>1. Ordered(disk'.hist)
      BY <1>1, <1>11, <2>2, PersistIs DEF Entry, Sound
    <3> QED BY <1>11, <1>13, <2>2, <3>1, StillSo DEF EntryInv
  <2>8. HostInv'
    <3>1. runtimes \in Nat /\ session'.runtime = session.runtime /\ (session.runtime \in ending => Revived)
      BY <1>1, <1>2, <1>5, <1>11, <2>2 DEF TypeOK, HostInv
    <3>2. Revived => Revived'
      BY <1>13, StillSo
    <3> QED BY <1>1, <1>2, <2>2, <2>3, <3>1, <3>2, HostsStay
  <2>9. LockInv'
    <3>1. op.at \in {"prompting", "failing"} =>
             Range(session'.queue) \subseteq Range(op.kept) /\ op.kept # <<>>
      <4>1. op.at \in {"prompting", "failing"} => Range(q) \subseteq Range(op.kept)
        BY <1>1, <1>5 DEF LockInv
      <4>2. op.kept = <<>> => Range(op.kept) = {}
        <5>1. DOMAIN <<>> = {}
          OBVIOUS
        <5> QED BY <5>1 DEF Range
      <4> QED BY <1>8, <1>11, <2>2, <4>1, <4>2
    <3>2. session'.active # Boot /\ session'.runtime = session.runtime /\ session'.status # "closed"
      BY <1>8, <1>11, <2>2, Places3
    <3> QED BY <1>1, <1>2, <1>3, <2>3, <3>1, <3>2 DEF LockInv
  <2>10. LoopInv'
    BY <1>1, <1>8, <1>11, <1>16, <2>2, <2>4 DEF LoopInv
  <2>11. AskInv'
    BY <1>1, <1>2, <1>17, <2>2, <2>3, AskStays
  <2>12. Waits' = Tail(q)
    BY <1>3, <1>11, <2>2, <2>3 DEF Waits
  <2>13. \A i \in DOMAIN Tail(q) : s1.hist[Tail(q)[i]] = session.hist[q[i + 1]] /\ i + 1 \in DOMAIN q
    <3>1. \A i \in DOMAIN q : q[i] \in Execs
      BY RangeIs
    <3> QED BY <1>8, <1>11, <3>1
  <2>14. WaitInv'
    BY <1>6, <1>8, <1>11, <1>13, <2>2, <2>12, <2>13 DEF WaitInv
  <2>15. FifoInv'
    <3>1. SUFFICES ASSUME astray' = {}
                   PROVE  /\ Runs(s1.hist) \subseteq {s1.active}
                          /\ op.at \notin {"prompting", "clearing", "failing"}
                          /\ Sorted(Tail(q))
                          /\ Queues(s1.hist) \subseteq Range(Tail(q))
                          /\ \A x \in Runs(s1.hist), d \in Queues(s1.hist) : x < d
      BY <2>2, <2>3, <2>12 DEF FifoInv
    <3>2. astray = {} /\ op.at \notin {"prompting", "clearing", "failing"} /\ OnTime
      BY <1>13, <3>1 DEF OnTime
    <3>3. /\ Runs(session.hist) \subseteq {None} /\ Sorted(q) /\ Queues(session.hist) \subseteq Range(q)
      BY <1>1, <1>2, <1>3, <1>4, <1>5, <1>6, <3>2 DEF FifoInv
    <3>4. Runs(s1.hist) \subseteq {e}
      <4>1. \A x \in Execs : session.hist[x] # "running"
        BY <3>3, Places3 DEF Runs
      <4> QED BY <1>11, <4>1 DEF Runs
    <3>5. Queues(s1.hist) \subseteq Queues(session.hist) \ {e}
      BY <1>11 DEF Queues
    <3> QED BY <1>8, <1>11, <3>2, <3>3, <3>4, <3>5
  <2>16. DiskInv'
    <3>1. OnTime' => \A d \in Execs : session.hist[d] \in Ends => session'.hist[d] = session.hist[d]
      BY <1>13, <1>18, <2>2
    <3> QED BY <1>1, <1>3, <1>11, <1>13, <2>2, <2>3, <2>5, <3>1, DiskKeeps
  <2>17. BootInv'
    BY <1>11, <1>12, <2>2, <2>3 DEF BootInv
  <2> QED BY <2>6, <2>7, <2>8, <2>9, <2>10, <2>11, <2>14, <2>15, <2>16, <2>17 DEF LifeInv, Rest
<1> QED BY <1>19, <1>20

-----------------------------------------------------------------------------
(* An exec ends, and a runtime.                                            *)

\* What runs is neither waited for nor removed.
LEMMA RunsIs ==
  ASSUME LifeInv, session.active # None \/ session.subscribed
  PROVE  /\ session \in Entries /\ Entry(session) /\ session.runtime # None /\ session.runtime \in Runtimes
         /\ session.status \notin {"quarantined", "closed"} /\ listed /\ (session.runtime \in ending => Revived)
         /\ op.at \notin {"stopping", "starting", "closing", "quarantining"}
<1>1. /\ session \in Entries /\ Entry(session) /\ LockInv /\ HostInv
  BY DEF LifeInv, Rest, TypeOK, EntryInv
<1>2. session.runtime # None /\ ~Idle(session) /\ session.status # "quarantined"
  BY <1>1 DEF Entry, Sound, Idle
<1>3. session.runtime \in Runtimes /\ session.status # "closed"
  BY <1>1, <1>2, EntryFields DEF Entry
<1> QED BY <1>1, <1>2, <1>3 DEF LockInv, HostInv

LEMMA SameLock ==
  ASSUME LifeInv, UNCHANGED <<op, listed>>, dead \subseteq dead', session.active # None \/ session.subscribed,
         session'.runtime = session.runtime, session'.queue = session.queue, session'.active # Boot,
         session'.status # "closed", Runs(session'.hist) \subseteq Runs(session.hist),
         astray \subseteq astray'
  PROVE  LockInv'
<1>1. LockInv
  BY DEF LifeInv, Rest
<1>2. /\ session.runtime # None /\ listed
      /\ op.at \notin {"stopping", "starting", "closing", "quarantining"}
  BY RunsIs
<1>3. Still(session.hist) => Still(session.hist)'
  BY StillSo DEF Still
<1> QED BY <1>1, <1>2, <1>3 DEF LockInv

LEMMA EndExecKeeps ==
  ASSUME LifeInv, NEW end \in {"ok", "error"}, NEW settles \in BOOLEAN, NEW fault \in Faults,
         EndExec(end, settles, fault), session.active # None,
         UNCHANGED <<entryVars, op, serverVars, dead, runtimes, spent, astray, loops, tail>>,
         Quiet, \A l \in loops : l.at \notin {"top", "saved"}
  PROVE  LifeInv'
<1>1. TypeOK /\ HostInv /\ AskInv /\ LoopInv /\ BootInv
  BY DEF LifeInv, Rest
<1>2. /\ session \in Entries /\ Entry(session) /\ session.runtime # None /\ session.runtime \in Runtimes
      /\ session.status \notin {"quarantined", "closed"} /\ listed /\ (session.runtime \in ending => Revived)
      /\ op.at \notin {"stopping", "starting", "closing", "quarantining"}
  BY RunsIs
<1>3. /\ UNCHANGED <<listed, closed, durable, boots, delayed, op, saved, up, dead, runtimes, spent,
                     astray, loops, tail>>
  BY DEF entryVars, serverVars
<1>4. PICK how \in Ends : how = CASE fault # "none" -> "error"
                                [] fault = "none" /\ session.interrupted -> "interrupted"
                                [] OTHER -> IF settles THEN end ELSE "error"
  BY DEF Ends
<1>5. ~settles \/ fault # "none" => how # "ok"
  BY <1>4
<1>6. PICK u : u = Finished(session, how)
  OBVIOUS
<1>7. /\ u \in Entries /\ Entry(u) /\ u.status = session.status /\ u.runtime = session.runtime
      /\ u.queue = session.queue /\ u.active = None /\ ~u.endHeld /\ u.subscribed = session.subscribed
      /\ u.resolved = session.resolved \cup ({session.active} \ {None})
      /\ Follows(session.hist, u.hist)
      /\ session.active \in Execs => u.hist[session.active] = how /\ session.hist[session.active] = "running"
      /\ \A e \in Execs : e # session.active => u.hist[e] = session.hist[e]
  <2>1. session \in Entries /\ Entry(session) /\ how \in Ends
    BY <1>2, <1>4
  <2>2. /\ u \in Entries /\ Entry(u) /\ u.status = session.status /\ u.runtime = session.runtime
        /\ u.queue = session.queue /\ u.subscribed = session.subscribed /\ u.active = None /\ ~u.endHeld
    BY <1>6, <2>1, FinishedIs
  <2>3. /\ u.resolved = session.resolved \cup ({session.active} \ {None})
        /\ Follows(session.hist, u.hist)
    BY <1>6, <2>1, FinishedIs
  <2>4. /\ session.active \in Execs => u.hist[session.active] = how /\ session.hist[session.active] = "running"
        /\ \A e \in Execs : e # session.active => u.hist[e] = session.hist[e]
    BY <1>6, <2>1, FinishedIs
  <2> QED BY <2>2, <2>3, <2>4
<1>8. PICK b \in BOOLEAN : b = (session.active = Boot /\ how = "ok")
  OBVIOUS
<1>9. PICK s1 : s1 = [u EXCEPT !.bootOk = b, !.status = "live_idle"]
  OBVIOUS
<1>10. /\ IF settles /\ fault = "none" /\ s1.status # "quarantined"
          THEN session' = s1 /\ UNCHANGED ending
          ELSE /\ session' = Quarantined(s1)
               /\ ending' = ending \cup {session.runtime}
       /\ Persist(session', fault) /\ TellEnd(session.active, how, fault)
  BY <1>2, <1>4, <1>6, <1>7, <1>8, <1>9 DEF EndExec
<1>11. "live_idle" \in Statuses
  BY DEF Statuses
<1>12. s1 \in Entries
  BY <1>7, <1>9, <1>11 DEF Entries
<1>13. /\ s1.status = "live_idle" /\ s1.runtime = u.runtime /\ s1.queue = u.queue
       /\ s1.active = u.active /\ s1.endHeld = u.endHeld /\ s1.subscribed = u.subscribed
       /\ s1.resolved = u.resolved /\ s1.hist = u.hist /\ s1.bootOk = b
  BY <1>7, <1>9 DEF Entries
<1>14. Sound(s1) /\ Ordered(u.hist)
  BY <1>7, <1>13 DEF Entry, Sound, Idle
<1>15. /\ HasRoom(session.hist) => HasRoom(s1.hist)
       /\ Runs(s1.hist) \subseteq Runs(session.hist)
  BY <1>2, <1>7, <1>13, StaysOrdered DEF Entry, Sound
<1>16. ASSUME session' \in Entries, ending' \subseteq Runtimes PROVE TypeOK'
  <2>1. disk' \in [catalog : {"none"} \cup Statuses, hist : Histories] /\ faults' \in 0..MaxTroubles
    BY <1>1, <1>10, <1>16, PersistIs
  <2>2. told' \in [Execs -> {"none"} \cup Ends] /\ toldAnew' \in BOOLEAN
    BY <1>1, <1>10, TellIs
  <2> QED BY <1>1, <1>3, <1>16, <2>1, <2>2 DEF TypeOK
<1>17. ASSUME settles, fault = "none" PROVE LifeInv'
  <2>1. session' = s1 /\ ending' = ending
    BY <1>10, <1>13, <1>17
  <2>2. /\ session'.hist = u.hist /\ session'.runtime = session.runtime /\ session'.queue = session.queue
        /\ session'.active = None /\ ~session'.endHeld /\ session'.status = "live_idle"
    BY <1>7, <1>13, <2>1
  <2>3. TypeOK'
    BY <1>1, <1>12, <1>16, <2>1 DEF TypeOK
  <2>4. HostInv'
    <3>1. runtimes \in Nat /\ Revived' = Revived
      BY <1>1, <1>3 DEF TypeOK, Revived
    <3> QED BY <1>1, <1>2, <1>3, <2>1, <2>2, <3>1, HostsStay
  <2>5. LockInv'
    BY <1>3, <1>13, <1>15, <2>1, <2>2, Places3, SameLock
  <2>6. AskInv'
    BY <1>1, <1>3, <1>15, <2>1, AskStays
  <2>7. BootInv'
    <3>1. b => session.active = Boot
      BY <1>8
    <3>2. session'.bootOk => Boot \in session'.resolved
      BY <1>7, <1>13, <2>1, <3>1, Places3
    <3>3. session.active = Boot => Quiet'
      <4>1. \A l \in loops : l.at = "done" => l.exec \in Execs
        BY <1>1 DEF LoopInv
      <4>2. session.active = Boot => session'.resolved \subseteq session.resolved \cup {Boot}
        BY <1>7, <1>13, <2>1
      <4> QED BY <1>3, <4>1, <4>2, Places3 DEF Quiet
    <3> QED BY <1>2, <1>3, <1>13, <2>1, <2>2, <3>1, <3>2, <3>3 DEF BootInv
  <2> QED BY <1>2, <1>3, <1>6, <1>10, <2>2, <2>3, <2>4, <2>5, <2>6, <2>7, FinishKeeps
<1>18. ASSUME ~settles \/ fault # "none" PROVE LifeInv'
  <2>1. session' = Quarantined(s1) /\ ending' = ending \cup ({s1.runtime} \ {None})
    BY <1>2, <1>7, <1>10, <1>13, <1>18
  <2>2. session' \in Entries
    BY <1>12, <1>14, <2>1, QuarantinedIs
  <2>3. TypeOK'
    BY <1>1, <1>2, <1>7, <1>13, <1>16, <2>1, <2>2 DEF TypeOK
  <2>4. ~s1.bootOk
    BY <1>5, <1>8, <1>13, <1>18
  <2>5. \A x \in Execs : /\ session.hist[x] \in {"running"} \cup Ends => s1.hist[x] \in {"running"} \cup Ends
                         /\ session.hist[x] \in {"queued"} \cup Ends => s1.hist[x] \in {"queued"} \cup Ends
    BY <1>7, <1>13 DEF Ends
  <2>6. dead \subseteq dead' /\ dead' \subseteq 1..runtimes
    BY <1>1, <1>3 DEF HostInv
  <2>7. /\ op.at \notin {"stopping", "starting"} /\ listed
        /\ \A d \in Execs : session.hist[d] \in Ends => s1.hist[d] = session.hist[d]
        /\ session.active \in Execs => session.hist[session.active] \in Pending /\ s1.hist[session.active] = how
    BY <1>2, <1>7, <1>13 DEF Follows, Pending
  <2>8. s1.runtime = session.runtime
    BY <1>7, <1>13
  <2> QED BY <1>3, <1>10, <1>12, <1>14, <1>15, <2>1, <2>3, <2>4, <2>5, <2>6, <2>7, <2>8, ContainKeeps
<1> QED BY <1>17, <1>18

LEMMA ExecDoneKeeps ==
  ASSUME LifeInv, ExecDone
  PROVE  LifeInv'
<1>1. TypeOK /\ EntryInv /\ HostInv /\ LockInv /\ AskInv /\ BootInv
  BY DEF LifeInv, Rest
<1>2. /\ Settled /\ session.active # None /\ session.subscribed /\ Unlocked
      /\ UNCHANGED <<astray, loops, tail>>
  BY DEF ExecDone
<1>3. /\ session \in Entries /\ Entry(session) /\ session.runtime # None
      /\ session.status \notin {"quarantined", "closed"} /\ listed /\ (session.runtime \in ending => Revived)
      /\ op.at \notin {"stopping", "starting", "closing", "quarantining"}
  BY <1>2, RunsIs
<1>4. CASE saved
  <2>1. session' = [session EXCEPT !.endHeld = TRUE] /\ UNCHANGED <<disk, faults, ending, told, toldAnew>>
    BY <1>4 DEF ExecDone
  <2>2. /\ session' \in Entries /\ session'.hist = session.hist /\ session'.status = session.status
        /\ session'.resolved = session.resolved /\ session'.queue = session.queue
        /\ session'.runtime = session.runtime /\ session'.active = session.active
        /\ session'.subscribed = session.subscribed /\ session'.bootOk = session.bootOk
    BY <1>3, <2>1 DEF Entries
  <2>3. /\ UNCHANGED <<listed, closed, durable, boots, delayed, op, saved, up, dead, runtimes, spent>>
    BY <1>2 DEF Unlocked, entryVars, serverVars
  <2>4. TypeOK'
    BY <1>1, <1>2, <2>1, <2>2, <2>3 DEF TypeOK
  <2>5. Entry(session')
    BY <1>2, <1>3, <2>2 DEF Entry, Sound
  <2>5a. /\ (Idle(session) => Idle(session)') /\ Revived' = Revived
         /\ (Still(session.hist) => Still(session.hist)')
    BY <1>2, <1>3, <2>2, StillSo DEF Revived, Still, Idle
  <2>6. HostInv'
    BY <1>1, <2>1, <2>2, <2>3, <2>5a DEF HostInv
  <2>7. LockInv'
    BY <1>1, <1>3, <2>2, <2>3, <2>5a, RunsIs DEF LockInv
  <2>8. AskInv'
    BY <1>1, <1>2, <2>2, <2>3, AskStays
  <2>9. Waits' = Waits
    BY <2>2, <2>3 DEF Waits
  <2>10. op'.at = "booting" => ~session'.bootOk
    BY <1>1, <1>2, <2>2, <2>3 DEF BootInv
  <2>11. astray = {} /\ op'.at \in {"prompting", "clearing", "failing"} => session'.active = None
    BY <2>2, <2>3 DEF LifeInv, Rest, FifoInv
  <2>12. UNCHANGED <<listed, closed, astray, saved, delayed, disk, loops>> /\ TellNothing
    BY <1>2, <2>1, <2>3 DEF TellNothing
  <2> QED BY <1>4, <2>2, <2>4, <2>5, <2>6, <2>7, <2>8, <2>9, <2>10, <2>11, <2>12, GoesOnKeeps
<1>5. CASE ~saved
  <2>1. PICK end \in {"ok", "error"}, settles \in BOOLEAN, fault \in Faults : EndExec(end, settles, fault)
    BY <1>5 DEF ExecDone
  <2>2. Quiet /\ \A l \in loops : l.at \notin {"top", "saved"}
    BY <1>2, <1>5 DEF Settled, Quiet
  <2>3. UNCHANGED <<entryVars, op, serverVars, dead, runtimes, spent, astray, loops, tail>>
    BY <1>2 DEF Unlocked
  <2> QED BY <1>2, <2>1, <2>2, <2>3, EndExecKeeps
<1> QED BY <1>4, <1>5

\* The active exec ends, and nothing else of the entry is lost.
LEMMA EndsKeep ==
  ASSUME LifeInv, session.active # None \/ session.subscribed, NEW end \in Ends,
         NEW u, u = Finished(session, end), session' \in Entries,
         session'.hist = u.hist, session'.runtime = u.runtime, session'.queue = u.queue,
         session'.active = u.active, session'.endHeld = u.endHeld, session'.bootOk = u.bootOk,
         session'.status \notin {"quarantined", "closed"},
         UNCHANGED <<listed, closed, durable, boots, delayed, astray, op, loops, saved, ending, runtimes>>,
         up' \in BOOLEAN, dead \subseteq dead', dead' \subseteq 1..runtimes, AskInv', tail' \in Seq(Waiters),
         spent' \in [asks : 0..MaxAsks, exits : 0..MaxTroubles,
                     saves : 0..MaxSaves, restarts : 0..MaxTroubles],
         NEW fault \in Faults, Persist(session', fault), TellEnd(session.active, end, fault) \/ TellNothing,
         op.at = "booting" => ~session.bootOk
  PROVE  LifeInv'
<1>1. TypeOK /\ HostInv /\ session \in Entries /\ Entry(session)
  BY DEF LifeInv, Rest, TypeOK, EntryInv
<1>2. /\ session.runtime # None /\ session.status # "quarantined" /\ listed
      /\ op.at \notin {"stopping", "starting", "closing", "quarantining"}
      /\ (session.runtime \in ending => Revived)
  BY RunsIs
<1>3. /\ u.runtime = session.runtime /\ u.queue = session.queue /\ u.active = None /\ ~u.endHeld
      /\ u.bootOk = session.bootOk /\ Runs(u.hist) \subseteq Runs(session.hist)
  BY <1>1, FinishedIs, SMTT(20)
<1>4. TypeOK'
  <2>1. disk' \in [catalog : {"none"} \cup Statuses, hist : Histories] /\ faults' \in 0..MaxTroubles
    BY <1>1, PersistIs
  <2>2. told' \in [Execs -> {"none"} \cup Ends] /\ toldAnew' \in BOOLEAN
    BY <1>1, TellIs
  <2>3. dead' \subseteq Runtimes
    <3>1. runtimes \in 0..MaxRuntimes /\ MaxRuntimes \in Nat
      BY <1>1, LifecycleAssumption DEF TypeOK
    <3>2. 1..runtimes \subseteq Runtimes
      BY <3>1 DEF Runtimes
    <3> QED BY <3>2
  <2> QED BY <1>1, <2>1, <2>2, <2>3 DEF TypeOK
<1>5. HostInv'
  <2>1. session'.runtime = session.runtime /\ Revived' = Revived
    BY <1>3 DEF Revived
  <2> QED BY <1>1, <1>2, <2>1 DEF HostInv
<1>6. LockInv'
  <2>1. session'.runtime = session.runtime /\ session'.queue = session.queue /\ session'.active # Boot
        /\ session'.status # "closed" /\ Runs(session'.hist) \subseteq Runs(session.hist)
    BY <1>3, Places3
  <2> QED BY <2>1, SameLock
<1>7. BootInv'
  BY <1>3 DEF BootInv
<1> QED BY <1>2, <1>3, <1>4, <1>5, <1>6, <1>7, FinishKeeps

LEMMA HeldEndsKeeps ==
  ASSUME LifeInv, HeldEnds
  PROVE  LifeInv'
<1>1. TypeOK /\ EntryInv /\ AskInv /\ BootInv /\ HostInv
  BY DEF LifeInv, Rest
<1>2. /\ session.endHeld /\ ~saved /\ \A l \in loops : l.at \notin {"saved", "top"}
      /\ UNCHANGED <<entryVars, astray, op, saved, dead, runtimes, loops, tail, spent>>
  BY DEF HeldEnds
<1>3. Quiet /\ session.active # None /\ session \in Entries /\ Entry(session)
  BY <1>1, <1>2 DEF BootInv, EntryInv, Entry, TypeOK
<1>4. CASE /\ \E end \in {"ok", "error"}, settles \in BOOLEAN : EndExec(end, settles, "none")
           /\ UNCHANGED up
  <2>1. PICK end \in {"ok", "error"}, settles \in BOOLEAN : EndExec(end, settles, "none")
    BY <1>4
  <2>2. UNCHANGED <<entryVars, op, serverVars, dead, runtimes, spent, astray, loops, tail>>
    BY <1>2, <1>4 DEF serverVars
  <2>3. "none" \in Faults /\ \A l \in loops : l.at \notin {"top", "saved"}
    BY <1>2 DEF Faults
  <2> QED BY <1>3, <2>1, <2>2, <2>3, EndExecKeeps
<1>5. CASE /\ \E fault \in Faults \ {"none"} :
                 \E end \in {"ok", "error"} :
                   /\ session' = [Finished(session, end) EXCEPT !.resolved = session.resolved]
                   /\ Persist(session', fault)
           /\ up' = FALSE
           /\ TellNothing /\ UNCHANGED ending
  <2>1. PICK fault \in Faults \ {"none"}, end \in {"ok", "error"} :
           /\ session' = [Finished(session, end) EXCEPT !.resolved = session.resolved]
           /\ Persist(session', fault)
    BY <1>5
  <2>2. end \in Ends /\ fault \in Faults
    BY DEF Ends
  <2>3. PICK u : u = Finished(session, end)
    OBVIOUS
  <2>4. /\ u \in Entries /\ u.status = session.status
    BY <1>3, <2>2, <2>3, FinishedIs
  <2>5. session' = [u EXCEPT !.resolved = session.resolved]
    BY <2>1, <2>3
  <2>6. /\ session' \in Entries /\ session'.hist = u.hist /\ session'.runtime = u.runtime
        /\ session'.queue = u.queue /\ session'.active = u.active /\ session'.endHeld = u.endHeld
        /\ session'.bootOk = u.bootOk /\ session'.status = u.status
    <3>1. session.resolved \subseteq 1..Boot
      BY <1>3, EntryFields
    <3>2. session' \in Entries
      BY <2>4, <2>5, <3>1 DEF Entries
    <3>3. /\ session'.hist = u.hist /\ session'.runtime = u.runtime
          /\ session'.queue = u.queue /\ session'.active = u.active /\ session'.endHeld = u.endHeld
          /\ session'.bootOk = u.bootOk /\ session'.status = u.status
      BY <2>4, <2>5 DEF Entries
    <3> QED BY <3>2, <3>3
  <2>7. session'.status \notin {"quarantined", "closed"}
    BY <1>3, <2>4, <2>6, RunsIs
  <2>8. AskInv'
    <3>1. HasRoom(session.hist) => HasRoom(session'.hist)
      <4>1. Follows(session.hist, u.hist) /\ Ordered(session.hist)
        BY <1>3, <2>2, <2>3, FinishedIs DEF Entry, Sound
      <4> QED BY <2>6, <4>1, StaysOrdered
    <3> QED BY <1>1, <1>2, <3>1, AskStays
  <2>9. /\ UNCHANGED <<listed, closed, durable, boots, delayed, astray, op, loops, saved, ending, runtimes>>
        /\ up' \in BOOLEAN /\ dead \subseteq dead' /\ dead' \subseteq 1..runtimes /\ tail' \in Seq(Waiters)
        /\ spent' \in [asks : 0..MaxAsks, exits : 0..MaxTroubles, saves : 0..MaxSaves, restarts : 0..MaxTroubles]
    BY <1>1, <1>2, <1>5 DEF entryVars, TypeOK, HostInv
  <2>10. op.at = "booting" => ~session.bootOk
    BY <1>1, <1>3 DEF BootInv
  <2>11. TellNothing /\ Persist(session', fault)
    BY <1>5, <2>1
  <2> QED BY <1>3, <2>2, <2>3, <2>6, <2>7, <2>8, <2>9, <2>10, <2>11, EndsKeep
<1> QED BY <1>4, <1>5 DEF HeldEnds

\* A runtime's process is gone, and nobody is told.
LEMMA DeadKeeps ==
  ASSUME LifeInv, NEW r \in 1..runtimes, dead' = dead \cup {r},
         UNCHANGED <<session, entryVars, astray, disk, faults, op, loops, tail, ending, runtimes,
                     serverVars, told, toldAnew>>,
         spent' \in [asks : 0..MaxAsks, exits : 0..MaxTroubles,
                     saves : 0..MaxSaves, restarts : 0..MaxTroubles]
  PROVE  LifeInv'
<1>1. TypeOK /\ EntryInv /\ HostInv /\ LockInv /\ LoopInv /\ AskInv /\ WaitInv /\ FifoInv /\ DiskInv /\ BootInv
  BY DEF LifeInv, Rest
<1>2. /\ session' = session /\ listed' = listed /\ durable' = durable /\ boots' = boots
      /\ delayed' = delayed /\ closed' = closed /\ astray' = astray /\ disk' = disk
      /\ faults' = faults /\ op' = op /\ loops' = loops /\ tail' = tail /\ ending' = ending
      /\ runtimes' = runtimes /\ saved' = saved /\ up' = up /\ told' = told /\ toldAnew' = toldAnew
  BY DEF entryVars, serverVars
<1>3. TypeOK'
  <2>1. runtimes \in 0..MaxRuntimes /\ MaxRuntimes \in Nat
    BY <1>1, LifecycleAssumption DEF TypeOK
  <2>2. r \in Runtimes
    BY <2>1 DEF Runtimes
  <2>3. dead' \subseteq Runtimes
    BY <1>1, <2>2 DEF TypeOK
  <2> QED BY <1>1, <1>2, <2>3 DEF TypeOK
<1>3a. /\ (Entry(session) => Entry(session)') /\ (Idle(session) => Idle(session)')
       /\ (Still(session.hist) => Still(session.hist)') /\ Revived' = Revived
  BY <1>2, StillSo DEF Revived
<1>4. HostInv'
  BY <1>1, <1>2, <1>3a DEF HostInv
<1>5. EntryInv' /\ LockInv' /\ LoopInv'
  BY <1>1, <1>2, <1>3a DEF EntryInv, LockInv, LoopInv
<1>6. Waits' = Waits /\ OnTime' = OnTime /\ Quiet' = Quiet
  BY <1>2 DEF Waits, OnTime, Quiet
<1>7. WaitInv' /\ FifoInv'
  BY <1>1, <1>2, <1>6 DEF WaitInv, FifoInv
<1>8. DiskInv' /\ BootInv'
  BY <1>1, <1>2, <1>6 DEF DiskInv, BootInv
<1>9. AskInv'
  BY <1>1, <1>2, AskStays
<1> QED BY <1>3, <1>4, <1>5, <1>7, <1>8, <1>9 DEF LifeInv, Rest

LEMMA ExitKeeps ==
  ASSUME LifeInv, NEW r \in Runtimes, Exit(r)
  PROVE  LifeInv'
<1>1. /\ TypeOK /\ EntryInv /\ HostInv /\ AskInv /\ BootInv /\ session \in Entries /\ Entry(session)
  BY DEF LifeInv, Rest, TypeOK, EntryInv
<1>2. /\ Settled /\ r \in 1..runtimes /\ r \notin dead /\ dead' = dead \cup {r}
      /\ UNCHANGED <<entryVars, astray, op, serverVars, runtimes, loops>>
  BY DEF Exit
<1>3. /\ spent \in [asks : 0..MaxAsks, exits : 0..MaxTroubles, saves : 0..MaxSaves, restarts : 0..MaxTroubles]
      /\ tail \in Seq(Waiters)
  BY <1>1 DEF TypeOK
<1>4. CASE Terminating(r)
  <2>1. UNCHANGED <<session, disk, faults, tail, ending, told, toldAnew, spent>>
    BY <1>4 DEF Exit
  <2> QED BY <1>2, <1>3, <2>1, DeadKeeps
<1>5. CASE ~Terminating(r)
  <2>1. Trouble("exit") /\ spent' = [spent EXCEPT !.exits = spent.exits + 1]
    BY <1>5 DEF Exit
  <2>2. spent' \in [asks : 0..MaxAsks, exits : 0..MaxTroubles, saves : 0..MaxSaves, restarts : 0..MaxTroubles]
    <3>1. spent.exits + 1 \in 0..MaxTroubles
      <4>1. faults \in 0..MaxTroubles /\ spent.exits \in 0..MaxTroubles /\ spent.restarts \in 0..MaxTroubles
        BY <1>1 DEF TypeOK
      <4>2. MaxTroubles \in Nat
        BY LifecycleAssumption
      <4> QED BY <2>1, <4>1, <4>2 DEF Trouble
    <3> QED BY <1>3, <2>1, <3>1
  <2>3. CASE UNCHANGED <<session, disk, faults, tail, ending, told, toldAnew>>
    BY <1>2, <2>2, <2>3, DeadKeeps
  <2>4. CASE /\ session.runtime = r /\ session.subscribed
             /\ \E fault \in Faults : Contained(r, fault) \/ MemoryKilled(r, fault)
    <3>1. PICK fault \in Faults : Contained(r, fault) \/ MemoryKilled(r, fault)
      BY <2>4
    <3>2. /\ session.runtime # None /\ session.status \notin {"quarantined", "closed"} /\ listed
          /\ op.at \notin {"stopping", "starting", "closing", "quarantining"}
      BY <2>4, RunsIs
    <3>3. op.at = "booting" => ~session.bootOk
      BY <1>1, <1>2 DEF BootInv, Settled
    <3>4. "error" \in Ends
      BY DEF Ends
    <3>5. PICK u : u = Finished(session, "error")
      OBVIOUS
    <3>6. /\ u \in Entries /\ Entry(u) /\ u.status = session.status /\ u.runtime = session.runtime
          /\ u.bootOk = session.bootOk
      BY <1>1, <3>4, <3>5, FinishedIs
    <3>7. /\ Follows(session.hist, u.hist)
          /\ session.active \in Execs => u.hist[session.active] = "error" /\ session.hist[session.active] = "running"
          /\ \A e \in Execs : e # session.active => u.hist[e] = session.hist[e]
      BY <1>1, <3>4, <3>5, FinishedIs
    <3>8. HasRoom(session.hist) => HasRoom(u.hist)
      BY <1>1, <3>7, StaysOrdered DEF Entry, Sound
    <3>9. dead \subseteq dead' /\ dead' \subseteq 1..runtimes
      BY <1>1, <1>2 DEF HostInv
    <3>10. UNCHANGED <<listed, closed, durable, boots, delayed, astray, op, loops, saved, up, runtimes>>
      BY <1>2 DEF entryVars, serverVars
    <3>11. CASE Contained(r, fault)
      <4>1. /\ session' = Quarantined(u) /\ Persist(session', fault) /\ ending' = ending \cup {r}
            /\ TellEnd(session.active, "error", fault) /\ tail' = tail
        BY <3>5, <3>11 DEF Contained
      <4>2. ending' = ending \cup ({u.runtime} \ {None})
        BY <2>4, <3>2, <3>6, <4>1
      <4>3. session' \in Entries
        BY <3>6, <4>1, QuarantinedIs DEF Entry
      <4>4. TypeOK'
        <5>1. disk' \in [catalog : {"none"} \cup Statuses, hist : Histories] /\ faults' \in 0..MaxTroubles
          BY <1>1, <4>1, <4>3, PersistIs
        <5>2. told' \in [Execs -> {"none"} \cup Ends] /\ toldAnew' \in BOOLEAN
          BY <1>1, <3>4, <4>1, TellIs
        <5>3. dead' \subseteq Runtimes /\ ending' \subseteq Runtimes
          BY <1>1, <1>2, <4>1 DEF TypeOK
        <5> QED BY <1>1, <2>2, <3>10, <4>1, <4>3, <5>1, <5>2, <5>3 DEF TypeOK
      <4>5. \A x \in Execs : /\ session.hist[x] \in {"running"} \cup Ends => u.hist[x] \in {"running"} \cup Ends
                             /\ session.hist[x] \in {"queued"} \cup Ends => u.hist[x] \in {"queued"} \cup Ends
        BY <3>4, <3>7
      <4>6. /\ op.at \notin {"stopping", "starting"} /\ listed
            /\ \A d \in Execs : session.hist[d] \in Ends => u.hist[d] = session.hist[d]
            /\ session.active \in Execs => session.hist[session.active] \in Pending /\ u.hist[session.active] = "error"
        BY <3>2, <3>7 DEF Follows, Pending
      <4>7. astray \subseteq astray' /\ loops' \subseteq loops /\ Sound(u) /\ (op.at = "booting" => ~u.bootOk)
        BY <3>3, <3>6, <3>10 DEF Entry
      <4> QED BY <3>4, <3>6, <3>8, <3>9, <3>10, <4>1, <4>2, <4>4, <4>5, <4>6, <4>7, ContainKeeps
    <3>12. CASE MemoryKilled(r, fault)
      <4>1. /\ session' = [u EXCEPT !.killed = TRUE, !.status = "recovering"]
            /\ Persist(session', fault) /\ ending' = ending
            /\ tail' = Append(tail, [kind |-> "memory", run |-> r])
            /\ TellEnd(session.active, "error", fault)
        BY <3>5, <3>12 DEF MemoryKilled
      <4>2. "recovering" \in Statuses /\ "recovering" \notin {"quarantined", "closed"}
        BY DEF Statuses
      <4>3. session' \in Entries
        BY <3>6, <4>1, <4>2 DEF Entries
      <4>4. /\ session'.hist = u.hist /\ session'.runtime = u.runtime /\ session'.queue = u.queue
            /\ session'.active = u.active /\ session'.endHeld = u.endHeld /\ session'.bootOk = u.bootOk
            /\ session'.status = "recovering"
        BY <3>6, <4>1 DEF Entries
      <4>5. PICK w : w = [kind |-> "memory", run |-> r]
        OBVIOUS
      <4>6. w \in Waiters /\ w.kind = "memory" /\ ~Admits(w.kind)
        BY <4>5 DEF Waiters, Kinds, Admits
      <4>7. tail' = Append(tail, w) /\ op' = op
        BY <3>10, <4>1, <4>5
      <4>8. HasRoom(session.hist) => HasRoom(session'.hist)
        BY <3>8, <4>4
      <4>9. AskInv' /\ tail' \in Seq(Waiters)
        BY <1>1, <4>6, <4>7, <4>8, AskGrows
      <4>10. /\ UNCHANGED <<listed, closed, durable, boots, delayed, astray, op, loops, saved, ending, runtimes>>
             /\ up' \in BOOLEAN
        BY <1>1, <3>10, <4>1 DEF TypeOK
      <4> QED BY <2>2, <2>4, <3>3, <3>4, <3>5, <3>9, <4>1, <4>2, <4>3, <4>4, <4>9, <4>10, EndsKeep
    <3> QED BY <3>1, <3>11, <3>12
  <2> QED BY <1>5, <2>3, <2>4 DEF Exit
<1> QED BY <1>4, <1>5

LEMMA EndingEndsKeeps ==
  ASSUME LifeInv, NEW r \in Runtimes, EndingEnds(r)
  PROVE  LifeInv'
<1>1. /\ TypeOK /\ EntryInv /\ HostInv /\ LockInv /\ AskInv /\ BootInv /\ session \in Entries /\ Entry(session)
  BY DEF LifeInv, Rest, TypeOK, EntryInv
<1>2. /\ Settled /\ r \in ending /\ r \in dead /\ ending' = ending \ {r} /\ session' = Ended(session, r)
      /\ UNCHANGED <<listed, durable, boots, delayed, closed, astray, disk, op, tail, loops, dead, runtimes,
                     saved, up, told, toldAnew, faults, spent>>
  BY DEF EndingEnds, entryVars, serverVars
<1>3. session.runtime = r => /\ Revived \/ (session.queue = <<>> /\ session.active = None)
                             /\ Still(session.hist)
  BY <1>1, <1>2 DEF HostInv, Entry, Still
<1>4. PICK t : t = Ended(session, r)
  OBVIOUS
<1>5. /\ t \in Entries /\ Entry(t) /\ t.status = session.status /\ t.bootOk = session.bootOk
      /\ t.hist = session.hist /\ t.resolved = session.resolved
      /\ session.runtime # r => t = session
      /\ session.runtime = r => t.runtime = None /\ Idle(t)
  BY <1>1, <1>3, <1>4, EndedIs
<1>6. session' = t
  BY <1>2, <1>4
<1>7. /\ \/ t.queue = session.queue /\ t.active = session.active
         \/ Revived /\ t.queue = <<>> /\ t.active = None
      /\ t.endHeld => session.endHeld
      /\ t.queue \in {session.queue, <<>>} /\ t.active \in {session.active, None}
  BY <1>3, <1>5 DEF Idle
<1>8. TypeOK'
  <2>1. ending' \subseteq Runtimes
    BY <1>1, <1>2 DEF TypeOK
  <2> QED BY <1>1, <1>2, <1>5, <1>6, <2>1 DEF TypeOK
<1>9. HostInv'
  <2>1. dead' \cup ending' \cup ({session'.runtime, op'.run} \ {None}) \subseteq 1..runtimes'
    BY <1>1, <1>2, <1>5, <1>6 DEF HostInv
  <2>2. \A x \in 1..runtimes' \ dead' : x = session'.runtime
    BY <1>1, <1>2, <1>5, <1>6 DEF HostInv
  <2>3. session'.runtime \in ending' =>
           Revived' \/ (session'.status = "quarantined" /\ session'.queue = <<>>)
    BY <1>1, <1>2, <1>5, <1>6, <1>7, StillSo DEF HostInv
  <2> QED BY <2>1, <2>2, <2>3 DEF HostInv
<1>10. LockInv'
  <2>1. op.run # None => session'.runtime = op.run \/ (session'.runtime = None /\ op.run \in dead)
    BY <1>1, <1>2, <1>5, <1>6 DEF LockInv
  <2>2. op.at = "starting" => session'.runtime = None
    BY <1>1, <1>5, <1>6 DEF LockInv
  <2>3. op.at \in {"stopping", "closing", "quarantining"} => Idle(session)'
    BY <1>1, <1>2, <1>5, <1>6, StillSo DEF LockInv
  <2>3a. /\ Range(session'.queue) \subseteq Range(session.queue)
         /\ Still(session.hist) => Still(session.hist)'
    BY <1>2, <1>5, <1>6, <1>7, StillSo DEF Range
  <2>4. ~listed \/ session'.status = "closed" => op = NoOp /\ session'.runtime = None
    BY <1>1, <1>5, <1>6 DEF LockInv
  <2> QED BY <1>1, <1>2, <1>5, <1>6, <1>7, <2>1, <2>2, <2>3, <2>3a, <2>4, Places3 DEF LockInv
<1>11. AskInv'
  BY <1>1, <1>2, <1>5, <1>6, AskStays
<1>12. /\ Waits' = Waits \/ (Waits' = <<>> /\ Revived)
       /\ session'.active = session.active \/ Still(session.hist)
  BY <1>2, <1>6, <1>7 DEF Waits, Still
<1>13. op'.at = "booting" => ~session'.bootOk
  BY <1>1, <1>2, <1>5, <1>6 DEF BootInv, Settled
<1>14. astray = {} /\ op'.at \in {"prompting", "clearing", "failing"} => session'.active = None
  BY <1>2, <1>6, <1>7 DEF LifeInv, Rest, FifoInv
<1>15. UNCHANGED <<listed, closed, astray, saved, delayed, disk, loops>> /\ TellNothing
  BY <1>2 DEF TellNothing
<1> QED BY <1>5, <1>6, <1>7, <1>8, <1>9, <1>10, <1>11, <1>12, <1>13, <1>14, <1>15, GoesOnKeeps

-----------------------------------------------------------------------------
(* The server dies, and another loads what is on the disk.                 *)

\* What the next server finds of the execs: those that were pending ended.
Found(h) == [e \in Execs |-> IF h[e] \in Pending THEN "interrupted" ELSE h[e]]

LEMMA FoundIs ==
  ASSUME NEW h \in Histories
  PROVE  /\ Found(h) \in Histories /\ Runs(Found(h)) = {} /\ Queues(Found(h)) = {}
         /\ Ordered(h) => Ordered(Found(h))
         /\ \A e \in Execs : h[e] \in Ends => Found(h)[e] = h[e]
<1>1. /\ Found(h) \in Histories /\ Runs(Found(h)) = {} /\ Queues(Found(h)) = {}
      /\ \A e \in Execs : h[e] \in Ends => Found(h)[e] = h[e]
      /\ \A e \in Execs : h[e] # "none" <=> Found(h)[e] # "none"
  BY DEF Found, Histories, Runs, Queues, Pending, Ends
<1>2. Ordered(h) => Ordered(Found(h))
  BY <1>1 DEF Ordered
<1> QED BY <1>1, <1>2

LEMMA NoExecsIs ==
  /\ NoExecs \in Histories /\ Ordered(NoExecs) /\ Runs(NoExecs) = {} /\ Queues(NoExecs) = {}
  /\ \A e \in Execs : NoExecs[e] = "none"
BY DEF NoExecs, Histories, Ordered, Runs, Queues

LEMMA FreshIs ==
  ASSUME NEW status \in Statuses, NEW runtime \in {None} \cup Runtimes
  PROVE  /\ Fresh(status, runtime) \in Entries
         /\ Fresh(status, runtime).status = status /\ Fresh(status, runtime).hist = NoExecs
         /\ Fresh(status, runtime).runtime = runtime /\ Fresh(status, runtime).queue = <<>>
         /\ Fresh(status, runtime).active = None /\ Fresh(status, runtime).endHeld = FALSE
         /\ Fresh(status, runtime).bootOk = FALSE
         /\ Fresh(status, runtime).subscribed = (runtime # None)
<1>1. NoExecs \in Histories /\ <<>> \in Seq(Execs) /\ None \in 0..Boot
  BY NoExecsIs, Places3
<1>2. PICK b \in BOOLEAN : b = (runtime # None)
  OBVIOUS
<1>3. Fresh(status, runtime) =
        [status |-> status, hist |-> NoExecs, detached |-> {}, runtime |-> runtime,
         queue |-> <<>>, active |-> None, interrupted |-> FALSE, endHeld |-> FALSE,
         killed |-> FALSE, subscribed |-> b, resolved |-> {}, bootOk |-> FALSE]
  BY <1>2 DEF Fresh
<1>4. Fresh(status, runtime) \in Entries
  BY <1>1, <1>3 DEF Entries
<1> QED BY <1>2, <1>3, <1>4

LEMMA RestartKeeps ==
  ASSUME LifeInv, Restart
  PROVE  LifeInv'
<1>1. TypeOK /\ EntryInv /\ HostInv /\ DiskInv
  BY DEF LifeInv, Rest
<1>2. PICK found \in BOOLEAN : found = (durable /\ disk.catalog \notin {"none", "closed"})
  OBVIOUS
<1>3. PICK status \in {"quarantined", "suspended"} :
         status = IF disk.catalog = "quarantined" THEN "quarantined" ELSE "suspended"
  OBVIOUS
<1>4. status \in Statuses /\ None \in {None} \cup Runtimes
  BY DEF Statuses
<1>5. /\ disk.hist \in Histories /\ Ordered(disk.hist) /\ told \in [Execs -> {"none"} \cup Ends]
      /\ runtimes \in 0..MaxRuntimes /\ MaxRuntimes \in Nat
  BY <1>1, LifecycleAssumption DEF TypeOK, EntryInv
<1>6. PICK h \in Histories : h = IF found THEN Found(disk.hist) ELSE NoExecs
  BY <1>5, FoundIs, NoExecsIs
<1>7. Ordered(h) /\ Runs(h) = {} /\ Queues(h) = {}
  BY <1>5, <1>6, FoundIs, NoExecsIs
<1>8. /\ listed' = found
      /\ session' = [Fresh(status, None) EXCEPT !.hist = h]
      /\ disk' = IF found THEN [catalog |-> status, hist |-> h] ELSE [catalog |-> "none", hist |-> h]
  BY <1>2, <1>3, <1>6 DEF Restart, Found
<1>9. /\ op' = NoOp /\ tail' = <<>> /\ loops' = {} /\ ending' = {} /\ dead' = 1..runtimes
      /\ saved' = FALSE /\ up' = TRUE
      /\ UNCHANGED <<durable, boots, delayed, closed, astray, runtimes, told, toldAnew, faults>>
  BY DEF Restart
<1>10. PICK f : f = Fresh(status, None)
  OBVIOUS
<1>11. /\ f \in Entries /\ f.status = status /\ f.runtime = None /\ f.queue = <<>> /\ f.active = None
       /\ f.endHeld = FALSE /\ f.bootOk = FALSE /\ f.subscribed = FALSE
  <2>1. /\ Fresh(status, None) \in Entries /\ Fresh(status, None).status = status
        /\ Fresh(status, None).runtime = None /\ Fresh(status, None).queue = <<>>
        /\ Fresh(status, None).active = None /\ Fresh(status, None).endHeld = FALSE
        /\ Fresh(status, None).bootOk = FALSE
    BY <1>4, FreshIs
  <2>2. (None # None) = FALSE
    OBVIOUS
  <2>3. Fresh(status, None).subscribed = FALSE
    BY <2>2 DEF Fresh
  <2> QED BY <1>10, <2>1, <2>3, Zenon
<1>12. /\ session' \in Entries /\ session'.status = status /\ session'.runtime = None
       /\ session'.queue = <<>> /\ session'.active = None /\ session'.endHeld = FALSE
       /\ session'.bootOk = FALSE /\ session'.subscribed = FALSE /\ session'.hist = h
  <2>1. session' = [f EXCEPT !.hist = h]
    BY <1>8, <1>10
  <2> QED BY <1>6, <1>11, <2>1 DEF Entries
<1>13. /\ disk' \in [catalog : {"none"} \cup Statuses, hist : Histories] /\ disk'.hist = h
       /\ disk'.catalog = IF found THEN status ELSE "none"
  BY <1>4, <1>6, <1>8
<1>14. TypeOK'
  <2>1. spent' \in [asks : 0..MaxAsks, exits : 0..MaxTroubles, saves : 0..MaxSaves, restarts : 0..MaxTroubles]
    <3>1. /\ spent \in [asks : 0..MaxAsks, exits : 0..MaxTroubles, saves : 0..MaxSaves, restarts : 0..MaxTroubles]
          /\ spent' = [spent EXCEPT !.restarts = spent.restarts + 1] /\ Trouble("restart")
      BY <1>1 DEF TypeOK, Restart
    <3>2. spent.restarts + 1 \in 0..MaxTroubles
      <4>1. faults \in 0..MaxTroubles /\ spent.exits \in 0..MaxTroubles /\ spent.restarts \in 0..MaxTroubles
        BY <1>1 DEF TypeOK
      <4>2. MaxTroubles \in Nat
        BY LifecycleAssumption
      <4> QED BY <3>1, <4>1, <4>2 DEF Trouble
    <3> QED BY <3>1, <3>2
  <2>2. dead' \subseteq Runtimes
    BY <1>5, <1>9 DEF Runtimes
  <2>3. tail' \in Seq(Waiters) /\ loops' \subseteq LoopRecords /\ ending' \subseteq Runtimes
    BY <1>9
  <2>4. listed' \in BOOLEAN
    BY <1>8
  <2> QED BY <1>1, <1>9, <1>12, <1>13, <2>1, <2>2, <2>3, <2>4 DEF TypeOK
<1>15. EntryInv'
  BY <1>3, <1>7, <1>12, <1>13, Places3 DEF EntryInv, Entry, Sound, Idle, Still
<1>16. HostInv'
  BY <1>9, <1>12, NoOpIs, Places3 DEF HostInv
<1>17. LockInv'
  BY <1>3, <1>9, <1>12, NoOpIs, Places3 DEF LockInv
<1>18. LoopInv'
  BY <1>9 DEF LoopInv
<1>19. AskInv'
  <2>1. DOMAIN <<>> = {}
    OBVIOUS
  <2> QED BY <1>9, <2>1, NoOpIs DEF AskInv, Submits, Admits
<1>20. WaitInv' /\ FifoInv'
  <2>1. Waits' = <<>> /\ DOMAIN <<>> = {}
    BY <1>9, <1>12, NoOpIs DEF Waits
  <2> QED BY <1>7, <1>9, <1>12, <2>1, NoOpIs DEF WaitInv, FifoInv, Once, Sorted
<1>21. DiskInv'
  <2>1. OnTime' = OnTime /\ toldAnew' = toldAnew /\ closed' = closed /\ told' = told
    BY <1>9 DEF OnTime
  <2>2. found => disk.catalog # "none"
    BY <1>2
  <2>3. disk'.catalog # "none" <=> found
    BY <1>3, <1>13
  <2>4. OnTime /\ found => \A e \in Execs : told[e] # "none" => h[e] = told[e]
    <3>1. OnTime /\ found => \A e \in Execs : told[e] # "none" => disk.hist[e] = told[e] /\ told[e] \in Ends
      BY <1>1, <1>5, <2>2 DEF DiskInv
    <3> QED BY <1>5, <1>6, <3>1, FoundIs
  <2> QED BY <1>1, <1>8, <1>12, <1>13, <2>1, <2>2, <2>3, <2>4 DEF DiskInv
<1>22. BootInv'
  BY <1>9, <1>12, NoOpIs DEF BootInv
<1> QED BY <1>14, <1>15, <1>16, <1>17, <1>18, <1>19, <1>20, <1>21, <1>22 DEF LifeInv, Rest

-----------------------------------------------------------------------------
(* Every step, and the first state.                                        *)

LEMMA LifeInit ==
  ASSUME Init
  PROVE  LifeInv
<1>1. /\ \/ session = Fresh("live_idle", 1) /\ durable \in BOOLEAN /\ runtimes = 1
         \/ session = Fresh("suspended", None) /\ durable = TRUE /\ runtimes = 0
      /\ boots \in BOOLEAN /\ delayed \in LineDelays
      /\ disk = [catalog |-> session.status, hist |-> NoExecs]
      /\ listed = TRUE /\ op = NoOp /\ tail = <<>> /\ loops = {}
      /\ ending = {} /\ dead = {} /\ saved = FALSE /\ up = TRUE
      /\ told = NoExecs /\ toldAnew = FALSE /\ closed = FALSE
      /\ astray = {} /\ faults = 0 /\ spent = [asks |-> 0, exits |-> 0, saves |-> 0, restarts |-> 0]
  BY DEF Init
<1>2. /\ MaxRuntimes \in Nat \ {0} /\ MaxAsks \in Nat /\ MaxTroubles \in Nat /\ MaxSaves \in Nat
      /\ 1 \in Runtimes /\ 1 # None
  BY LifecycleAssumption DEF Runtimes, None
<1>3. PICK status \in {"live_idle", "suspended"}, run \in {None, 1} :
         /\ session = Fresh(status, run) /\ run = runtimes
  BY <1>1 DEF None
<1>4. status \in Statuses /\ run \in {None} \cup Runtimes
  BY <1>2 DEF Statuses
<1>5. /\ session \in Entries /\ session.status = status /\ session.hist = NoExecs
      /\ session.runtime = run /\ session.queue = <<>> /\ session.active = None
      /\ session.endHeld = FALSE /\ session.bootOk = FALSE /\ session.subscribed = (run # None)
  BY <1>3, <1>4, FreshIs
<1>6. /\ NoExecs \in Histories /\ Ordered(NoExecs) /\ Runs(NoExecs) = {} /\ Queues(NoExecs) = {}
      /\ \A e \in Execs : NoExecs[e] = "none"
  BY NoExecsIs
<1>7. TypeOK
  <2>1. disk \in [catalog : {"none"} \cup Statuses, hist : Histories]
    BY <1>1, <1>4, <1>5, <1>6
  <2>2. spent \in [asks : 0..MaxAsks, exits : 0..MaxTroubles, saves : 0..MaxSaves, restarts : 0..MaxTroubles]
    BY <1>1, <1>2
  <2>3. told \in [Execs -> {"none"} \cup Ends]
    BY <1>1 DEF NoExecs
  <2>4. runtimes \in 0..MaxRuntimes /\ tail \in Seq(Waiters)
    BY <1>1, <1>2
  <2> QED BY <1>1, <1>2, <1>5, <2>1, <2>2, <2>3, <2>4 DEF TypeOK
<1>8. EntryInv
  BY <1>1, <1>3, <1>5, <1>6, Places3 DEF EntryInv, Entry, Sound, Idle, Still
<1>9. HostInv
  <2>1. 1..runtimes = {run} \ {None}
    BY <1>2, <1>3 DEF None
  <2> QED BY <1>1, <1>5, <2>1, NoOpIs DEF HostInv
<1>10. LockInv
  BY <1>1, <1>3, <1>5, NoOpIs, Places3 DEF LockInv
<1>11. LoopInv
  BY <1>1 DEF LoopInv
<1>12. AskInv
  <2>1. DOMAIN <<>> = {}
    OBVIOUS
  <2> QED BY <1>1, <2>1, NoOpIs DEF AskInv, Submits, Admits
<1>13. WaitInv /\ FifoInv
  <2>1. Waits = <<>> /\ DOMAIN <<>> = {}
    BY <1>1, <1>5, NoOpIs DEF Waits
  <2> QED BY <1>1, <1>3, <1>5, <1>6, <2>1, NoOpIs DEF WaitInv, FifoInv, Once, Sorted
<1>14. DiskInv
  <2>1. disk.catalog # "none"
    BY <1>1, <1>3, <1>5
  <2> QED BY <1>1, <1>6, <2>1 DEF DiskInv
<1>15. BootInv
  BY <1>1, <1>5, NoOpIs DEF BootInv
<1> QED BY <1>7, <1>8, <1>9, <1>10, <1>11, <1>12, <1>13, <1>14, <1>15 DEF LifeInv, Rest

LEMMA OperationsKeep ==
  ASSUME LifeInv, Operations
  PROVE  LifeInv'
<1>1. CASE \E kind \in Kinds : Refused(kind)
  BY <1>1, RefusedKeeps
<1>2. CASE BeginSubmit \/ BeginReset \/ BeginInterrupt \/ BeginClose
  BY <1>2, BeginSubmitKeeps, BeginResetKeeps, BeginInterruptKeeps, BeginCloseKeeps
<1>3. CASE BeginBudget \/ BeginMemory \/ MemoryWaited
  BY <1>3, BeginBudgetKeeps, BeginMemoryKeeps, MemoryWaitedKeeps
<1>4. CASE Stopped \/ Started \/ StartFails \/ Prompted \/ Clears \/ Cleared
             \/ LaunchFailed \/ Booted
  BY <1>4, StoppedKeeps, StartedKeeps, StartFailsKeeps, PromptedKeeps, ClearsKeeps, ClearedKeeps,
     LaunchFailedKeeps, BootedKeeps
<1>5. CASE \E mode \in {"soft", "recycle"} : InterruptEnds(mode)
  BY <1>5, InterruptEndsKeeps
<1>6. CASE QuarantineEnds \/ Closes
  BY <1>6, QuarantineEndsKeeps, ClosesKeeps
<1> QED BY <1>1, <1>2, <1>3, <1>4, <1>5, <1>6 DEF Operations

LEMMA StillLife ==
  ASSUME LifeInv, UNCHANGED vars
  PROVE  LifeInv'
<1>1. /\ UNCHANGED <<session, entryVars, astray, disk, faults, op, hostVars, told, toldAnew>>
      /\ tail' = tail /\ loops' = loops /\ saved' = saved /\ up' = up /\ spent' = spent
      /\ session' = session /\ op' = op /\ delayed' = delayed
  BY DEF vars, entryVars, hostVars
<1>2. TypeOK /\ LoopInv /\ AskInv /\ BootInv
  BY DEF LifeInv, Rest
<1>3. LoopInv' /\ AskInv' /\ BootInv'
  BY <1>1, <1>2, AskStays DEF LoopInv, BootInv, Quiet
<1> QED BY <1>1, <1>2, <1>3, QuietKeeps DEF TypeOK

LEMMA LifeStep ==
  ASSUME LifeInv, [Next]_vars
  PROVE  LifeInv'
<1>1. CASE \E kind \in Asks : Ask(kind)
  BY <1>1, AskedKeeps
<1>2. CASE Operations \/ PromptFails
  BY <1>2, OperationsKeep, PromptFailsKeeps
<1>3. CASE Loops
  <2>1. PICK l \in loops : LoopEnds(l) \/ LoopWaits(l) \/ LoopRunsOn(l) \/ Perform(l)
                           \/ WriteEnds(l) \/ LoopGoesOn(l)
    BY <1>3 DEF Loops
  <2>2. CASE LoopEnds(l) \/ LoopWaits(l) \/ LoopRunsOn(l) \/ LoopGoesOn(l)
    BY <2>2, LoopsOnKeeps
  <2>3. CASE Perform(l)
    BY <2>3, PerformKeeps
  <2>4. CASE WriteEnds(l)
    BY <2>4, WriteEndsKeeps
  <2> QED BY <2>1, <2>2, <2>3, <2>4
<1>4. CASE Hosts
  BY <1>4, ExecDoneKeeps, HeldEndsKeeps, EndingEndsKeeps DEF Hosts
<1>5. CASE \E r \in Runtimes : Exit(r)
  BY <1>5, ExitKeeps
<1>6. CASE Save \/ RunOn \/ Restart
  BY <1>6, SaveKeeps, RestartKeeps
<1>7. CASE UNCHANGED vars
  BY <1>7, StillLife
<1> QED BY <1>1, <1>2, <1>3, <1>4, <1>5, <1>6, <1>7 DEF Next

\* What the model is, at every step: none of it depends on what runs when.
LEMMA LifeAlways == Spec => []LifeInv
<1>1. Init => LifeInv
  BY LifeInit
<1>2. LifeInv /\ [Next]_vars => LifeInv'
  BY LifeStep
<1> QED BY <1>1, <1>2, PTL DEF Spec

-----------------------------------------------------------------------------
(* What the runs check.                                                    *)

\* TypeOK: the session's entry, its disk, its lock and its loops keep their shape.
THEOREM TypeCorrect == Spec => []TypeOK
<1>1. LifeInv => TypeOK
  BY DEF LifeInv, Rest
<1> QED BY <1>1, LifeAlways, PTL

\* HostsAreOwned: no operation, failure or order of them leaves a host alive that
\* neither its session, nor the operation that launches it, nor a termination under
\* way would stop.
THEOREM HostsOwned == Spec => []HostsAreOwned
<1>1. LifeInv => HostsAreOwned
  BY DEF LifeInv, Rest, HostInv, HostsAreOwned
<1> QED BY <1>1, LifeAlways, PTL

\* SingleFlightFifo: one exec runs at a time, the active one, and none before one
\* submitted earlier, through every recycle.
THEOREM SingleFlight == Spec => []SingleFlightFifo
<1>1. ASSUME LifeInv
      PROVE  SingleFlightFifo
  <2>1. SUFFICES ASSUME astray = {}
                 PROVE  /\ Running \subseteq {session.active}
                        /\ \A d, e \in Execs :
                             d < e /\ session.hist[e] = "running" => session.hist[d] # "queued"
    BY DEF SingleFlightFifo
  <2>2. /\ Runs(session.hist) \subseteq {session.active}
        /\ \A e \in Runs(session.hist), d \in Queues(session.hist) : e < d
    BY <1>1, <2>1 DEF LifeInv, Rest, FifoInv
  <2>3. \A d, e \in Execs : d < e => ~(e < d)
    BY LifecycleAssumption DEF Execs
  <2> QED BY <2>2, <2>3 DEF Running, Runs, Queues
<1> QED BY <1>1, LifeAlways, PTL

\* ToldIsOnDisk: an exec's end, once told, is on the disk and in the history, in this
\* server and the next, and no other end is told.
THEOREM ToldOnDisk == Spec => []ToldIsOnDisk
<1>1. LifeInv => ToldIsOnDisk
  BY DEF LifeInv, Rest, DiskInv, OnTime, ToldIsOnDisk
<1> QED BY <1>1, LifeAlways, PTL

\* ClosedStaysClosed: a session told closed is not found on the disk again.
THEOREM ClosedStays == Spec => []ClosedStaysClosed
<1>1. LifeInv => ClosedStaysClosed
  BY DEF LifeInv, Rest, DiskInv, OnTime, ClosedStaysClosed
<1> QED BY <1>1, LifeAlways, PTL

-----------------------------------------------------------------------------
(* What a step never does.                                                 *)

\* A quarantine of whatever entry leaves it quarantined.
LEMMA QuarantineSets ==
  ASSUME NEW s, NEW t \in Entries, t = Quarantined(s)
  PROVE  t.status = "quarantined"
<1>1. PICK u : u = Stopping(s, {})
  OBVIOUS
<1>2. t = [u EXCEPT !.status = "quarantined"]
  BY <1>1 DEF Quarantined
<1>3. "status" \in DOMAIN t
  BY DEF Entries
<1> QED BY <1>2, <1>3

\* What ends or stops a session's runtime leaves its status.
LEMMA StatusKept ==
  ASSUME NEW s \in Entries, Sound(s), NEW run, NEW kept
  PROVE  Ended(s, run).status = s.status /\ Stopping(s, kept).status = s.status
<1>1. Stopping(s, kept).status = s.status
  BY StoppingIs
<1>2. Ended(s, run).status = s.status
  BY DEF Ended, Entries
<1> QED BY <1>1, <1>2

\* A recycle of a quarantined session leaves it quarantined.
LEMMA RecycleStays ==
  ASSUME session \in Entries, Sound(session), session' \in Entries, session.status = "quarantined",
         NEW kind, NEW fault, Recycle(kind, session, fault)
  PROVE  session'.status = "quarantined"
<1>1. \/ session' = Quarantined(session)
      \/ session' = Stopping(session, Range(session.queue))
      \/ session' = session
  BY DEF Recycle, Quarantine
<1> QED BY <1>1, QuarantineSets, StatusKept

\* A removal leaves the session closed.
LEMMA RemoveCloses ==
  ASSUME NEW s \in Entries, NEW fault, Remove(s, fault)
  PROVE  session'.status = "closed"
<1>1. session' = [s EXCEPT !.status = "closed"]
  BY DEF Remove
<1> QED BY <1>1 DEF Entries

\* What a quarantined session has left of it: nothing runs, and nothing waits.
LEMMA NothingLeft ==
  ASSUME LifeInv, OnTime, session.status = "quarantined"
  PROVE  /\ session \in Entries /\ Sound(session)
         /\ session.active = None /\ ~session.endHeld /\ ~session.subscribed
         /\ ~HasNext(session)
         /\ op.at = "booting" => ~session.bootOk
         /\ op.at = "interrupting" => session.active # op.exec
<1>1. session \in Entries /\ Entry(session) /\ LockInv /\ WaitInv /\ BootInv
  BY DEF LifeInv, Rest, TypeOK, EntryInv
<1>2. session.active = None /\ ~session.endHeld /\ ~session.subscribed
  BY <1>1 DEF Entry
<1>3. ~HasNext(session)
  <2>1. CASE op.at = "stopping"
    BY <1>1, <2>1 DEF LockInv, Idle, HasNext
  <2>2. CASE op.at = "starting"
    BY <1>1, <2>2 DEF LockInv, HasNext
  <2>3. CASE op.at \notin {"stopping", "starting"}
    BY <1>1, <2>3 DEF WaitInv, Waits, HasNext
  <2> QED BY <2>1, <2>2, <2>3
<1>4. op.at = "booting" => ~session.bootOk
  BY <1>1 DEF BootInv
<1>5. op.at = "interrupting" => session.active # op.exec
  BY <1>1, <1>2, Places3 DEF LockInv
<1> QED BY <1>1, <1>2, <1>3, <1>4, <1>5 DEF Entry

\* What went astray stays told.
LEMMA AstrayGrows ==
  ASSUME Next
  PROVE  astray \subseteq astray'
<1>1. CASE \E kind \in Asks : Ask(kind)
  BY <1>1 DEF Ask
<1>2. CASE Operations \/ PromptFails
  <2>1. CASE \/ \E kind \in Kinds : Refused(kind)
             \/ BeginSubmit \/ BeginReset \/ BeginInterrupt \/ BeginClose
             \/ BeginBudget \/ BeginMemory
    BY <2>1 DEF Refused, BeginSubmit, BeginReset, BeginInterrupt, BeginClose, BeginBudget, BeginMemory,
                Granted, Acquire
  <2>2. CASE \/ MemoryWaited \/ Stopped \/ Started \/ StartFails \/ Prompted \/ Clears \/ LaunchFailed
             \/ Booted \/ (\E mode \in {"soft", "recycle"} : InterruptEnds(mode))
             \/ QuarantineEnds \/ Closes \/ PromptFails
    BY <2>2 DEF MemoryWaited, Stopped, Started, StartFails, Prompted, Clears, Launched, LaunchFailed,
                Booted, InterruptEnds, QuarantineEnds, Closes, PromptFails, Resumes
  <2>3. CASE Cleared
    BY <2>3 DEF Cleared, GoesAstray
  <2> QED BY <1>2, <2>1, <2>2, <2>3 DEF Operations
<1>3. CASE Loops
  BY <1>3 DEF Loops, LoopEnds, LoopWaits, LoopRunsOn, LoopGoesOn, Perform, WriteEnds, GoesAstray
<1>4. CASE Hosts \/ \E r \in Runtimes : Exit(r)
  BY <1>4 DEF Hosts, ExecDone, HeldEnds, EndingEnds, Exit
<1>5. CASE Save \/ RunOn \/ Restart
  BY <1>5 DEF Save, RunOn, Restart
<1> QED BY <1>1, <1>2, <1>3, <1>4, <1>5 DEF Next

\* Nothing brings a quarantined session back.
LEMMA StaysQuarantined ==
  ASSUME LifeInv, LifeInv', Next, OnTime', session.status = "quarantined",
         spent'.restarts = spent.restarts
  PROVE  session'.status \in {"quarantined", "closed"}
<1>1. /\ session \in Entries /\ Sound(session) /\ session.active = None /\ ~session.endHeld
      /\ ~session.subscribed /\ ~HasNext(session)
      /\ op.at = "booting" => ~session.bootOk
      /\ op.at = "interrupting" => session.active # op.exec
  BY AstrayGrows, StillSo, NothingLeft
<1>2. session' \in Entries
  BY DEF LifeInv, Rest, TypeOK
<1>3. ASSUME NEW s, session' = Quarantined(s)
      PROVE  session'.status = "quarantined"
  BY <1>2, <1>3, QuarantineSets
<1>4. ASSUME NEW kind, NEW s, NEW fault, Quarantine(kind, s, fault)
      PROVE  session'.status = "quarantined"
  BY <1>3, <1>4 DEF Quarantine
<1>5. ASSUME NEW run
      PROVE  /\ Ended(session, run).status = "quarantined"
             /\ Ended(session, run) \in Entries
  <2>1. Ended(session, run) \in Entries
    <3>1. <<>> \in Seq(Execs) /\ None \in 0..Boot
      BY Places3
    <3> QED BY <1>1, <3>1 DEF Ended, Entries
  <2> QED BY <1>1, <2>1, StatusKept
<1>6. CASE session' = session
  BY <1>6
<1>7. CASE \E kind \in Asks : Ask(kind)
  BY <1>6, <1>7 DEF Ask
<1>8. CASE \E kind \in Kinds : Refused(kind)
  BY <1>6, <1>8 DEF Refused
<1>9. CASE BeginSubmit \/ BeginInterrupt
  <2>1. session' = session
    BY <1>1, <1>9 DEF BeginSubmit, BeginInterrupt, Released
  <2> QED BY <1>6, <2>1
<1>10. CASE BeginReset \/ BeginBudget \/ BeginMemory \/ MemoryWaited
  <2>1. \/ session' = session
        \/ \E kind \in Kinds, fault \in Faults : Recycle(kind, session, fault)
    BY <1>10 DEF BeginReset, BeginBudget, BeginMemory, MemoryWaited, Released, Kinds
  <2> QED BY <1>1, <1>2, <1>6, <2>1, RecycleStays
<1>11. CASE BeginClose
  <2>1. \/ \E fault \in Faults : Remove(session, fault)
        \/ session' = Stopping(session, {})
    BY <1>11 DEF BeginClose
  <2> QED BY <1>1, <2>1, RemoveCloses, StatusKept
<1>12. CASE Stopped
  <2>1. PICK s : s = Ended(session, op.run)
    OBVIOUS
  <2>2. \/ \E fault \in Faults : Quarantine(op.kind, s, fault)
        \/ session' = s
    BY <1>12, <2>1 DEF Stopped
  <2> QED BY <1>4, <1>5, <2>1, <2>2
<1>13. CASE Started
  BY <1>1, <1>13 DEF Started, Entries
<1>14. CASE StartFails \/ LaunchFailed
  BY <1>4, <1>14 DEF StartFails, LaunchFailed
<1>15. CASE Prompted \/ Clears
  BY <1>15 DEF Prompted, Clears, Launched
<1>15a. CASE Cleared
  BY <1>15a DEF Cleared, GoesAstray, OnTime
<1>16. CASE Booted
  BY <1>1, <1>4, <1>16 DEF Booted, Resumes, GoesOn
<1>17. CASE \E mode \in {"soft", "recycle"} : InterruptEnds(mode)
  <2>1. session' = session \/ \E fault \in Faults : Quarantine("interrupt", session, fault)
    BY <1>1, <1>17 DEF InterruptEnds, Resumes, GoesOn
  <2> QED BY <1>4, <1>6, <2>1
<1>18. CASE QuarantineEnds
  BY <1>5, <1>18 DEF QuarantineEnds
<1>19. CASE Closes
  <2>1. PICK s : s = Ended(session, op.run)
    OBVIOUS
  <2>2. session' = s \/ \E fault \in Faults : Remove(s, fault)
    BY <1>19, <2>1 DEF Closes
  <2> QED BY <1>5, <2>1, <2>2, RemoveCloses
<1>20. CASE PromptFails
  BY <1>1, <1>20 DEF PromptFails, Entries
<1>21. CASE Loops
  <2>1. PICK l \in loops : LoopEnds(l) \/ LoopWaits(l) \/ LoopRunsOn(l) \/ Perform(l)
                           \/ WriteEnds(l) \/ LoopGoesOn(l)
    BY <1>21 DEF Loops
  <2>2. ~Perform(l)
    BY <1>1 DEF Perform
  <2>3. CASE WriteEnds(l)
    <3>1. session' = session \/ \E s : session' = Quarantined(s)
      BY <2>3 DEF WriteEnds, FailStartup
    <3> QED BY <1>3, <1>6, <3>1
  <2>4. CASE LoopEnds(l) \/ LoopWaits(l) \/ LoopRunsOn(l) \/ LoopGoesOn(l)
    BY <1>6, <2>4 DEF LoopEnds, LoopWaits, LoopRunsOn, LoopGoesOn
  <2> QED BY <2>1, <2>2, <2>3, <2>4
<1>22. CASE Hosts
  <2>1. PICK r \in Runtimes : session' = Ended(session, r)
    BY <1>1, <1>22 DEF Hosts, ExecDone, HeldEnds, EndingEnds
  <2> QED BY <1>5, <2>1
<1>23. CASE \E r \in Runtimes : Exit(r)
  BY <1>1, <1>6, <1>23 DEF Exit
<1>24. CASE Save \/ RunOn
  BY <1>6, <1>24 DEF Save, RunOn
<1>25. ~Restart
  <2>1. spent.restarts \in Nat /\ spent \in [asks : 0..MaxAsks, exits : 0..MaxTroubles,
                                             saves : 0..MaxSaves, restarts : 0..MaxTroubles]
    BY LifecycleAssumption DEF LifeInv, Rest, TypeOK
  <2>2. Restart => spent'.restarts = spent.restarts + 1
    BY <2>1 DEF Restart
  <2> QED BY <2>1, <2>2
<1> QED
  BY <1>7, <1>8, <1>9, <1>10, <1>11, <1>12, <1>13, <1>14, <1>15, <1>15a, <1>16, <1>17, <1>18, <1>19, <1>20,
     <1>21, <1>22, <1>23, <1>24, <1>25 DEF Next, Operations

\* QuarantineIsFinal: nothing in a server that runs brings a quarantined session back,
\* whatever was under way as it was quarantined, but a late failure's recycle, or one
\* that removes what the host before left.
THEOREM QuarantineFinal == Spec => QuarantineIsFinal
<1>1. ASSUME LifeInv, LifeInv', [Next]_vars
      PROVE  [/\ session.status = "quarantined" /\ {"late", "revived"} \cap astray' = {}
              /\ up /\ up' /\ spent'.restarts = spent.restarts
              => session'.status \in {"quarantined", "closed"}]_vars
  BY <1>1, StaysQuarantined DEF OnTime
<1> QED BY <1>1, LifeAlways, PTL DEF Spec, QuarantineIsFinal
=============================================================================
