----------------------- MODULE ProcessSnapshotsProofs -----------------------
(***************************************************************************)
(* Proofs about ProcessSnapshots, for any sessions, PIDs, servers, and     *)
(* failures of any kind.                                                   *)
(***************************************************************************)
EXTENDS ProcessSnapshots, WellFoundedInduction, TLAPS

Named(s) == {entry[s].snap, record[s].snap}

\* Nothing holds more work than was told, and what holds all of it is no less than the
\* checkpoint does; the images of a snapshot that is named have their scratch files; and
\* what a session on its way back is restored from is what the catalog names.
WorkOk(s) ==
    /\ checkpoint[s] =< told[s] /\ mem[s] =< told[s] /\ \A snap \in Named(s) : snap.mem =< told[s]
    /\ (mem[s] = told[s] \/ \E snap \in Named(s) : snap.mem = told[s]) => checkpoint[s] = told[s]
    /\ \A snap \in Named(s) : snap # NoSnapshot /\ snap = images[s] => scratch[s]
    /\ at[s] \in {"restored", "hydrated", "live"} => scratch[s] /\ host[s].root \in host[s].pids
    /\ at[s] \in {"recovering", "restored", "failed"} =>
          entry[s].snap = record[s].snap /\ record[s].snap # NoSnapshot
    /\ at[s] = "restored" => images[s] = record[s].snap

\* Of a session not reset over its snapshot: the checkpoint holds all its work, and so
\* does what can be restored of it, and its memory once it is back; by then no snapshot
\* is named, so that none is older than what it does next.
KeptOk(s) ==
    /\ checkpoint[s] = told[s]
    /\ \A snap \in Named(s) : snap # NoSnapshot /\ snap = images[s] => snap.mem = told[s]
    /\ at[s] \in {"restored", "hydrated", "live"} => mem[s] = told[s]
    /\ at[s] \in {"spent", "hydrated", "live"} => record[s].snap = NoSnapshot
    /\ at[s] = "live" => entry[s].snap = NoSnapshot

SessionOk(s) == WorkOk(s) /\ (s \notin resetOver => KeptOk(s))

PhaseInv ==
    /\ phase \in {"down", "advancing"} => \A s \in Sessions : at[s] = "away"
    /\ phase = "advancing" => record = entry

SnapInv == TypeOK /\ PhaseInv /\ \A s \in Sessions : SessionOk(s)

Snaps == Snapshots \cup {NoSnapshot}
Listing == [status : Statuses, snap : Snaps]
Trees == [root : Pids \cup {0}, pids : SUBSET Pids]

-----------------------------------------------------------------------------
(* The values.                                                             *)

LEMMA Values ==
  /\ PidMax \in Nat /\ MaxWork \in Nat /\ MaxWork + 1 \in Nat
  /\ NoSnapshot \in Snaps /\ Partial.mem = MaxWork + 1
  /\ \A snap \in Snaps : snap.mem \in 0..MaxWork /\ snap # Partial
  /\ NoSnapshot.mem = 0 /\ Unread \in Listing /\ Unread.snap = NoSnapshot
  /\ NoHost \in Trees
<1>1. PidMax \in Nat /\ MaxWork \in Nat /\ MaxWork + 1 \in Nat
  BY PidAssumption, BoundAssumption
<1>2. Partial.mem = MaxWork + 1 /\ NoSnapshot.mem = 0
  BY DEF Partial, NoSnapshot
<1>3. \A snap \in Snaps : snap.mem \in 0..MaxWork
  BY <1>1, <1>2 DEF Snaps, Snapshots
<1>4. \A snap \in Snaps : snap # Partial
  BY <1>1, <1>2, <1>3
<1>5. NoSnapshot \in Snaps /\ Unread \in Listing /\ Unread.snap = NoSnapshot
  BY DEF Snaps, Unread, Listing, Statuses
<1>6. NoHost \in Trees
  BY DEF NoHost, Trees
<1> QED BY <1>1, <1>2, <1>3, <1>4, <1>5, <1>6

LEMMA PidsAreNat ==
  \A p \in Pids : p \in Nat /\ p >= 1 /\ p < PidMax
BY PidAssumption DEF Pids

LEMMA BeforeIs ==
  ASSUME NEW from \in Pids, NEW pid \in Pids
  PROVE  pidsBefore(from, pid) \in Nat
<1>1. LOWEST_WRAPPED_PID \in Nat /\ PidMax \in Nat /\ PID_ADVANCE_BUDGET \in Nat
  BY PidAssumption
<1> QED BY <1>1, PidsAreNat DEF pidsBefore, Never

\* A set of numbers with a bound has a greatest.
LEMMA MaxIs ==
  ASSUME NEW n \in Nat, NEW S \in SUBSET (0..n), S # {}
  PROVE  Max(S) \in S /\ \A y \in S : y =< Max(S)
<1> DEFINE T == {k \in Nat : \E x \in S : k = n - x}
<1>1. T \subseteq Nat /\ T # {}
  <2>1. PICK x \in S : TRUE
    OBVIOUS
  <2>2. n - x \in Nat
    BY <2>1
  <2> QED BY <2>2
<1> HIDE DEF T
<1>2. PICK k \in T : \A j \in T : ~(<<j, k>> \in OpToRel(<, Nat))
  BY <1>1, NatLessThanWellFounded, WFMin
<1>3. \A j \in T : k =< j
  <2> TAKE j \in T
  <2>1. j \in Nat /\ k \in Nat
    BY <1>1
  <2>2. ~(j < k)
    BY <1>2, <2>1 DEF OpToRel
  <2> QED BY <2>1, <2>2
<1> USE DEF T
<1>4. PICK x \in S : k = n - x
  BY <1>2
<1>5. \A y \in S : y =< x
  <2> TAKE y \in S
  <2>1. n - y \in T
    OBVIOUS
  <2> QED BY <1>3, <1>4, <2>1
<1> QED BY <1>5 DEF Max

LEMMA MinIs ==
  ASSUME NEW a \in Nat, NEW b \in Nat
  PROVE  Min({a, b}) \in {a, b} /\ Min({a, b}) =< a /\ Min({a, b}) =< b
<1>1. \E x \in {a, b} : \A y \in {a, b} : x =< y
  <2>1. CASE a =< b
    BY <2>1
  <2>2. CASE b =< a
    BY <2>2
  <2> QED BY <2>1, <2>2
<1> QED BY <1>1 DEF Min

\* What the counter does as it hands out PIDs.
LEMMA MovesTyped ==
  ASSUME last \in Pids, since \in 0..(2 * PidMax), NEW p \in Pids, NEW kept, MovesTo(p, kept)
  PROVE  last' \in Pids /\ since' \in 0..(2 * PidMax) /\ safe' \subseteq safe
<1>1. PICK moved : moved = since + pidsBefore(last, p) + 1
  OBVIOUS
<1>2. moved \in Nat /\ 2 * PidMax \in Nat
  BY <1>1, BeforeIs, PidAssumption
<1>3. since' = IF phase \in {"advancing", "up"} /\ Stored # {} THEN Min({moved, 2 * PidMax}) ELSE 0
  BY <1>1 DEF MovesTo
<1>4. since' \in 0..(2 * PidMax)
  BY <1>2, <1>3, MinIs
<1> QED BY <1>4 DEF MovesTo

LEMMA NextIsPid ==
  NextPids \subseteq Pids
BY DEF NextPids

\* The parts of TypeOK.
LEMMA Typed ==
  TypeOK <=>
    /\ entry \in [Sessions -> Listing] /\ record \in [Sessions -> Listing]
    /\ images \in [Sessions -> Snaps \cup {Partial}]
    /\ scratch \in [Sessions -> BOOLEAN] /\ checkpoint \in [Sessions -> 0..MaxWork]
    /\ mem \in [Sessions -> 0..MaxWork] /\ told \in [Sessions -> 0..MaxWork]
    /\ at \in [Sessions -> Places] /\ host \in [Sessions -> Trees]
    /\ foreign \subseteq Sessions /\ safe \subseteq Sessions /\ resetOver \subseteq Sessions
    /\ phase \in {"down", "advancing", "up", "stopping"}
    /\ last \in Pids /\ others \subseteq Pids /\ ours \subseteq Pids /\ since \in 0..(2 * PidMax)
    /\ advance \in [past : Pids \cup {0}, wrapping : BOOLEAN, near : SUBSET Sessions]
<1>1. Snapshots \cup {NoSnapshot, Partial} = Snaps \cup {Partial}
  BY DEF Snaps
<1> QED BY <1>1 DEF TypeOK, Listing, Snaps, Trees

\* A session a step leaves as it was.
LEMMA SameKeeps ==
  ASSUME NEW t \in Sessions, SessionOk(t),
         checkpoint'[t] = checkpoint[t], told'[t] = told[t], mem'[t] = mem[t],
         entry'[t].snap = entry[t].snap, record'[t].snap = record[t].snap,
         images'[t] = images[t], scratch'[t] = scratch[t], at'[t] = at[t],
         at[t] = "away" \/ host'[t].root = host[t].root,
         at[t] = "away" \/ host[t].pids \subseteq host'[t].pids,
         t \in resetOver' <=> t \in resetOver
  PROVE  SessionOk(t)'
BY DEF SessionOk, WorkOk, KeptOk, Named

\* A step of the PIDs' alone, or of what no session's way back is about.
LEMMA PidsKeep ==
  ASSUME SnapInv, TypeOK', UNCHANGED <<entry, images, scratch, checkpoint, phase, record, at, mem, told>>,
         resetOver' = resetOver, host' = host
  PROVE  SnapInv'
<1>1. PhaseInv'
  BY DEF SnapInv, PhaseInv
<1>2. ASSUME NEW t \in Sessions
      PROVE  SessionOk(t)'
  BY SameKeeps DEF SnapInv
<1> QED BY <1>1, <1>2 DEF SnapInv

\* A step of one session's.
LEMMA OneKeeps ==
  ASSUME SnapInv, TypeOK', PhaseInv', NEW s \in Sessions, SessionOk(s)',
         \A t \in Sessions \ {s} :
            /\ checkpoint'[t] = checkpoint[t] /\ told'[t] = told[t] /\ mem'[t] = mem[t]
            /\ entry'[t] = entry[t] /\ record'[t] = record[t]
            /\ images'[t] = images[t] /\ scratch'[t] = scratch[t] /\ at'[t] = at[t]
            /\ host'[t] = host[t]
            /\ t \in resetOver' <=> t \in resetOver
  PROVE  SnapInv'
<1>1. ASSUME NEW t \in Sessions \ {s}
      PROVE  SessionOk(t)'
  BY <1>1, SameKeeps DEF SnapInv
<1> QED BY <1>1 DEF SnapInv

\* The lemmas below prove the parts of TypeOK a step changes.
LEMMA OthersMoveKeeps ==
  ASSUME SnapInv, OthersMove
  PROVE  SnapInv'
<1>1. TypeOK
  BY DEF SnapInv
<1>2. PICK p \in Pids : MovesTo(p, {p}) /\ others' = others \cup {p}
  BY DEF OthersMove, Free
<1>3. last' \in Pids /\ since' \in 0..(2 * PidMax) /\ safe' \subseteq safe
  BY <1>1, <1>2, MovesTyped, Typed
<1>4. TypeOK'
  BY <1>1, <1>2, <1>3 DEF TypeOK, OthersMove, diskVars
<1> QED BY <1>4, PidsKeep DEF OthersMove, diskVars

LEMMA ForksKeeps ==
  ASSUME SnapInv, NEW s \in Sessions, Forks(s)
  PROVE  SnapInv'
<1>1. TypeOK
  BY DEF SnapInv
<1>2. PICK p \in Pids : MovesTo(p, {p}) /\ host' = [host EXCEPT ![s].pids = @ \cup {p}]
  BY NextIsPid DEF Forks
<1>3. last' \in Pids /\ since' \in 0..(2 * PidMax) /\ safe' \subseteq safe
  BY <1>1, <1>2, MovesTyped, Typed
<1>4. /\ host' \in [Sessions -> Trees]
      /\ \A t \in Sessions : host'[t].root = host[t].root /\ host[t].pids \subseteq host'[t].pids
  BY <1>1, <1>2, Typed DEF Trees
<1>5. UNCHANGED <<entry, images, scratch, checkpoint, foreign, phase, advance, ours, others, record,
                  at, mem, told, resetOver>>
  BY DEF Forks, diskVars
<1>6. TypeOK'
  BY <1>1, <1>3, <1>4, <1>5 DEF TypeOK, Trees
<1>7. PhaseInv'
  BY <1>5 DEF SnapInv, PhaseInv
<1>8. ASSUME NEW t \in Sessions
      PROVE  SessionOk(t)'
  BY <1>4, <1>5, SameKeeps DEF SnapInv
<1> QED BY <1>6, <1>7, <1>8 DEF SnapInv

LEMMA AdvancePastFloorKeeps ==
  ASSUME SnapInv, advancePastFloor
  PROVE  SnapInv'
<1>1. TypeOK
  BY DEF SnapInv
<1>2. PICK p \in Pids : MovesTo(p, {})
  BY DEF advancePastFloor
<1>3. last' \in Pids /\ since' \in 0..(2 * PidMax) /\ safe' \subseteq safe
  BY <1>1, <1>2, MovesTyped, Typed
<1>4. TypeOK'
  BY <1>1, <1>3 DEF TypeOK, advancePastFloor, diskVars
<1> QED BY <1>4, PidsKeep DEF advancePastFloor, diskVars

LEMMA BeginsStopKeeps ==
  ASSUME SnapInv, BeginsStop
  PROVE  SnapInv'
<1>1. /\ phase' = "stopping"
      /\ UNCHANGED <<entry, images, scratch, checkpoint, foreign, last, others, ours, since, safe,
                     record, at, host, mem, advance, told, resetOver>>
  BY DEF BeginsStop, diskVars, pidVars
<1>2. TypeOK'
  BY <1>1 DEF SnapInv, TypeOK
<1>3. PhaseInv'
  BY <1>1 DEF PhaseInv
<1>4. ASSUME NEW t \in Sessions
      PROVE  SessionOk(t)'
  BY <1>1, SameKeeps DEF SnapInv
<1> QED BY <1>2, <1>3, <1>4 DEF SnapInv

LEMMA ChangesKeeps ==
  ASSUME SnapInv, Changes
  PROVE  SnapInv'
<1>1. TypeOK'
  BY DEF SnapInv, TypeOK, Changes, pidVars
<1> QED BY <1>1, PidsKeep DEF Changes, pidVars

LEMMA ExecsKeeps ==
  ASSUME SnapInv, NEW s \in Sessions, Execs(s)
  PROVE  SnapInv'
<1>1. TypeOK /\ SessionOk(s)
  BY DEF SnapInv
<1>2. /\ at[s] = "live" /\ told[s] < MaxWork
      /\ mem' = [mem EXCEPT ![s] = @ + 1] /\ checkpoint' = [checkpoint EXCEPT ![s] = mem'[s]]
      /\ told' = [told EXCEPT ![s] = @ + 1]
      /\ UNCHANGED <<entry, images, scratch, foreign, phase, advance, ours, others, record, at, host,
                     last, since, safe, resetOver>>
  BY DEF Execs, InMemory, StillPids
<1>3. /\ mem[s] \in 0..MaxWork /\ told[s] \in 0..MaxWork /\ mem[s] =< told[s]
      /\ \A snap \in Named(s) : snap.mem \in 0..MaxWork /\ snap.mem =< told[s]
  <2>1. Named(s) \subseteq Snaps
    BY <1>1, Typed DEF Named, Listing
  <2> QED BY <1>1, <2>1, Typed, Values DEF SessionOk, WorkOk
<1>4. mem[s] + 1 \in 0..MaxWork /\ told[s] + 1 \in 0..MaxWork
  BY <1>2, <1>3, Values
<1>5. /\ mem'[s] = mem[s] + 1 /\ checkpoint'[s] = mem[s] + 1 /\ told'[s] = told[s] + 1
      /\ mem' \in [Sessions -> 0..MaxWork] /\ checkpoint' \in [Sessions -> 0..MaxWork]
      /\ told' \in [Sessions -> 0..MaxWork]
  BY <1>1, <1>2, <1>4, Typed
<1>6. TypeOK'
  BY <1>1, <1>2, <1>5 DEF TypeOK
<1>7. PhaseInv'
  BY <1>2 DEF SnapInv, PhaseInv
<1>8. SessionOk(s)'
  <2>1. WorkOk(s)'
    BY <1>1, <1>2, <1>3, <1>5 DEF SessionOk, WorkOk, Named
  <2>2. s \notin resetOver => KeptOk(s)'
    BY <1>1, <1>2, <1>3, <1>5 DEF SessionOk, KeptOk, Named
  <2> QED BY <1>2, <2>1, <2>2 DEF SessionOk
<1> QED BY <1>1, <1>2, <1>6, <1>7, <1>8, OneKeeps, Typed

\* What a session's operations begin with: its parts' types.
LEMMA SnapTyped ==
  ASSUME SnapInv
  PROVE  /\ TypeOK
         /\ entry \in [Sessions -> Listing] /\ record \in [Sessions -> Listing]
         /\ images \in [Sessions -> Snaps \cup {Partial}]
         /\ scratch \in [Sessions -> BOOLEAN] /\ checkpoint \in [Sessions -> 0..MaxWork]
         /\ mem \in [Sessions -> 0..MaxWork] /\ told \in [Sessions -> 0..MaxWork]
         /\ at \in [Sessions -> Places] /\ host \in [Sessions -> Trees]
         /\ \A s \in Sessions : /\ SessionOk(s) /\ record[s].snap \in Snaps /\ entry[s].snap \in Snaps
                                /\ mem[s] \in Nat /\ told[s] \in Nat /\ checkpoint[s] \in Nat
BY Typed, Values DEF SnapInv, Listing

\* A session's record and its entry of the catalog, with another status.
LEMMA MarkedIs ==
  ASSUME SnapInv, NEW s \in Sessions, NEW status \in Statuses, Marked(s, status)
  PROVE  /\ record' \in [Sessions -> Listing] /\ record'[s].snap = record[s].snap
         /\ \A t \in Sessions \ {s} : record'[t] = record[t]
BY SnapTyped DEF Marked, Listing

LEMMA ListedIs ==
  ASSUME SnapInv, NEW s \in Sessions, record' \in [Sessions -> Listing],
         entry' \in {entry, [entry EXCEPT ![s] = record'[s]]}
  PROVE  /\ entry' \in [Sessions -> Listing] /\ entry'[s] \in {entry[s], record'[s]}
         /\ \A t \in Sessions \ {s} : entry'[t] = entry[t]
BY SnapTyped

LEMMA GoesTo ==
  ASSUME SnapInv, NEW s \in Sessions, NEW place \in Places, To(s, place)
  PROVE  /\ at' \in [Sessions -> Places] /\ at'[s] = place
         /\ \A t \in Sessions \ {s} : at'[t] = at[t]
BY SnapTyped DEF To

LEMMA AwayIs ==
  ASSUME SnapInv, NEW s \in Sessions, Away(s)
  PROVE  /\ host' \in [Sessions -> Trees]
         /\ \A t \in Sessions \ {s} : host'[t] = host[t]
BY SnapTyped, Values DEF Away

LEMMA ServerStepPhase ==
  ASSUME PhaseInv, phase \in {"up", "stopping"}, phase' = phase
  PROVE  PhaseInv'
BY DEF PhaseInv

\* persist failed.
LEMMA QuarantinedKeeps ==
  ASSUME SnapInv, NEW s \in Sessions, Quarantined(s), phase = "up",
         at[s] \in {"away", "hydrated"}, StillPids,
         UNCHANGED <<foreign, phase, advance, ours, others, images, scratch, checkpoint, mem, told, resetOver>>
  PROVE  SnapInv'
<1>1. Marked(s, "quarantined") /\ To(s, "away") /\ Away(s)
      /\ entry' \in {entry, [entry EXCEPT ![s] = record'[s]]}
  BY DEF Quarantined
<1>2. /\ record' \in [Sessions -> Listing] /\ record'[s].snap = record[s].snap
      /\ \A t \in Sessions \ {s} : record'[t] = record[t]
  BY <1>1, MarkedIs DEF Statuses
<1>3. /\ entry' \in [Sessions -> Listing] /\ entry'[s] \in {entry[s], record'[s]}
      /\ \A t \in Sessions \ {s} : entry'[t] = entry[t]
  BY <1>1, <1>2, ListedIs
<1>4. /\ at' \in [Sessions -> Places] /\ at'[s] = "away"
      /\ \A t \in Sessions \ {s} : at'[t] = at[t]
  BY <1>1, GoesTo DEF Places
<1>5. /\ host' \in [Sessions -> Trees]
      /\ \A t \in Sessions \ {s} : host'[t] = host[t]
  BY <1>1, AwayIs
<1>6. TypeOK'
  BY <1>2, <1>3, <1>4, <1>5, SnapTyped DEF TypeOK, Listing, Snaps, Trees, StillPids
<1>7. PhaseInv'
  BY ServerStepPhase DEF SnapInv
<1>8. SessionOk(s)'
  BY <1>2, <1>3, <1>4, SnapTyped DEF SessionOk, WorkOk, KeptOk, Named
<1> QED BY <1>2, <1>3, <1>4, <1>5, <1>6, <1>7, <1>8, OneKeeps

LEMMA RecoverRuntimeKeeps ==
  ASSUME SnapInv, NEW s \in Sessions, recoverRuntime(s)
  PROVE  SnapInv'
<1>1. /\ phase = "up" /\ at[s] = "away" /\ StillPids
      /\ UNCHANGED <<foreign, phase, advance, ours, others, images, scratch, checkpoint, mem, told, resetOver>>
  BY DEF recoverRuntime, Admitted, InMemory
<1>2. CASE Quarantined(s)
  BY <1>1, <1>2, QuarantinedKeeps
<1>3. CASE /\ Marked(s, "recovering") /\ entry' = [entry EXCEPT ![s] = record'[s]]
           /\ To(s, IF record[s].snap = NoSnapshot THEN "spent" ELSE "recovering")
           /\ host' = host
  <2>1. /\ record' \in [Sessions -> Listing] /\ record'[s].snap = record[s].snap
        /\ \A t \in Sessions \ {s} : record'[t] = record[t]
    BY <1>3, MarkedIs DEF Statuses
  <2>2. /\ entry' \in [Sessions -> Listing] /\ entry'[s] = record'[s]
        /\ \A t \in Sessions \ {s} : entry'[t] = entry[t]
    BY <1>3, <2>1, SnapTyped
  <2>3. PICK place \in {"spent", "recovering"} :
           place = IF record[s].snap = NoSnapshot THEN "spent" ELSE "recovering"
    OBVIOUS
  <2>4. /\ at' \in [Sessions -> Places] /\ at'[s] = place
        /\ \A t \in Sessions \ {s} : at'[t] = at[t]
    BY <1>3, <2>3, GoesTo DEF Places
  <2>5. TypeOK'
    BY <1>1, <1>3, <2>1, <2>2, <2>4, SnapTyped DEF TypeOK, Listing, Snaps, StillPids
  <2>6. PhaseInv'
    BY <1>1, ServerStepPhase DEF SnapInv
  <2>7. SessionOk(s)'
    BY <1>1, <2>1, <2>2, <2>3, <2>4, SnapTyped DEF SessionOk, WorkOk, KeptOk, Named
  <2> QED BY <1>1, <1>3, <2>1, <2>2, <2>4, <2>5, <2>6, <2>7, OneKeeps
<1> QED BY <1>2, <1>3 DEF recoverRuntime

LEMMA RestoresKeeps ==
  ASSUME SnapInv, NEW s \in Sessions, Restores(s)
  PROVE  SnapInv'
<1>1. PICK criu \in Pids :
         /\ MovesTo(criu, {})
         /\ \/ /\ Restorable(s, criu) /\ To(s, "restored")
               /\ host' = [host EXCEPT ![s] = [root |-> record[s].snap.root, pids |-> record[s].snap.pids]]
               /\ mem' = [mem EXCEPT ![s] = record[s].snap.mem]
            \/ To(s, "failed") /\ UNCHANGED <<host, mem>>
  BY NextIsPid DEF Restores
<1>2. /\ phase = "up" /\ at[s] = "recovering"
      /\ UNCHANGED <<entry, images, scratch, checkpoint, foreign, phase, advance, ours, others, record,
                     told, resetOver>>
  BY DEF Restores, diskVars
<1>3. last' \in Pids /\ since' \in 0..(2 * PidMax) /\ safe' \subseteq safe
  BY <1>1, MovesTyped, Typed DEF SnapInv
<1>4. PhaseInv'
  BY <1>2, ServerStepPhase DEF SnapInv
<1>5. record[s].snap \in Snapshots
  BY <1>2, SnapTyped DEF SessionOk, WorkOk, Snaps
<1>6. CASE /\ Restorable(s, criu) /\ To(s, "restored")
           /\ host' = [host EXCEPT ![s] = [root |-> record[s].snap.root, pids |-> record[s].snap.pids]]
           /\ mem' = [mem EXCEPT ![s] = record[s].snap.mem]
  <2>1. images[s] = record[s].snap /\ scratch[s]
    BY <1>6 DEF Restorable
  <2>2. /\ host' \in [Sessions -> Trees] /\ host'[s].root \in host'[s].pids
        /\ \A t \in Sessions \ {s} : host'[t] = host[t]
    BY <1>5, <1>6, SnapTyped DEF Trees, Snapshots
  <2>3. /\ mem' \in [Sessions -> 0..MaxWork] /\ mem'[s] = record[s].snap.mem
        /\ \A t \in Sessions \ {s} : mem'[t] = mem[t]
    BY <1>5, <1>6, SnapTyped DEF Snapshots
  <2>4. /\ at' \in [Sessions -> Places] /\ at'[s] = "restored"
        /\ \A t \in Sessions \ {s} : at'[t] = at[t]
    BY <1>6, GoesTo DEF Places
  <2>5. TypeOK'
    BY <1>2, <1>3, <2>2, <2>3, <2>4, SnapTyped DEF TypeOK, Trees
  <2>6. SessionOk(s)'
    BY <1>2, <2>1, <2>2, <2>3, <2>4, SnapTyped DEF SessionOk, WorkOk, KeptOk, Named
  <2> QED BY <1>2, <1>4, <2>2, <2>3, <2>4, <2>5, <2>6, OneKeeps
<1>7. CASE To(s, "failed") /\ UNCHANGED <<host, mem>>
  <2>1. /\ at' \in [Sessions -> Places] /\ at'[s] = "failed"
        /\ \A t \in Sessions \ {s} : at'[t] = at[t]
    BY <1>7, GoesTo DEF Places
  <2>2. TypeOK'
    BY <1>2, <1>3, <1>7, <2>1, SnapTyped DEF TypeOK, Trees
  <2>3. SessionOk(s)'
    BY <1>2, <1>7, <2>1, SnapTyped DEF SessionOk, WorkOk, KeptOk, Named
  <2> QED BY <1>2, <1>4, <1>7, <2>1, <2>2, <2>3, OneKeeps
<1> QED BY <1>1, <1>6, <1>7

LEMMA SpendsKeeps ==
  ASSUME SnapInv, NEW s \in Sessions, Spends(s)
  PROVE  SnapInv'
<1>1. /\ phase = "up" /\ at[s] \in {"restored", "failed"} /\ StillPids
      /\ record' = [record EXCEPT ![s].snap = NoSnapshot]
      /\ images' = [images EXCEPT ![s] = NoSnapshot]
      /\ UNCHANGED <<foreign, phase, advance, ours, others, entry, scratch, checkpoint, mem, told, resetOver>>
  BY DEF Spends, InMemory
<1>2. PICK place \in {"hydrated", "spent"} :
         /\ To(s, place)
         /\ host' = host \/ (place = "spent" /\ Away(s))
         /\ place = "hydrated" => at[s] = "restored"
  BY DEF Spends
<1>3. /\ record' \in [Sessions -> Listing] /\ record'[s].snap = NoSnapshot
      /\ \A t \in Sessions \ {s} : record'[t] = record[t]
  BY <1>1, SnapTyped, Values DEF Listing
<1>4. /\ images' \in [Sessions -> Snaps \cup {Partial}] /\ images'[s] = NoSnapshot
      /\ \A t \in Sessions \ {s} : images'[t] = images[t]
  BY <1>1, SnapTyped, Values
<1>5. /\ at' \in [Sessions -> Places] /\ at'[s] = place
      /\ \A t \in Sessions \ {s} : at'[t] = at[t]
  BY <1>2, GoesTo DEF Places
<1>6. /\ host' \in [Sessions -> Trees]
      /\ place = "hydrated" => host' = host
      /\ \A t \in Sessions \ {s} : host'[t] = host[t]
  BY <1>2, AwayIs, SnapTyped
<1>7. TypeOK'
  BY <1>1, <1>3, <1>4, <1>5, <1>6, SnapTyped DEF TypeOK, Listing, Snaps, Trees, StillPids
<1>8. PhaseInv'
  BY <1>1, ServerStepPhase DEF SnapInv
<1>9. SessionOk(s)'
  BY <1>1, <1>2, <1>3, <1>4, <1>5, <1>6, SnapTyped, Values DEF SessionOk, WorkOk, KeptOk, Named
<1> QED BY <1>1, <1>3, <1>4, <1>5, <1>6, <1>7, <1>8, <1>9, OneKeeps

LEMMA StartSessionKeeps ==
  ASSUME SnapInv, NEW s \in Sessions, startSession(s)
  PROVE  SnapInv'
<1>1. PICK pid \in Pids :
         MovesTo(pid, {}) /\ host' = [host EXCEPT ![s] = [root |-> pid, pids |-> {pid}]]
  BY NextIsPid DEF startSession
<1>2. /\ phase = "up" /\ at[s] = "spent" /\ To(s, "hydrated")
      /\ mem' = [mem EXCEPT ![s] = checkpoint[s]] /\ scratch' = [scratch EXCEPT ![s] = TRUE]
      /\ UNCHANGED <<entry, images, checkpoint, foreign, phase, advance, ours, others, record, told, resetOver>>
  BY DEF startSession
<1>3. last' \in Pids /\ since' \in 0..(2 * PidMax) /\ safe' \subseteq safe
  BY <1>1, MovesTyped, Typed DEF SnapInv
<1>4. /\ host' \in [Sessions -> Trees] /\ host'[s].root \in host'[s].pids
      /\ \A t \in Sessions \ {s} : host'[t] = host[t]
  BY <1>1, SnapTyped DEF Trees
<1>5. /\ mem' \in [Sessions -> 0..MaxWork] /\ mem'[s] = checkpoint[s]
      /\ \A t \in Sessions \ {s} : mem'[t] = mem[t]
  BY <1>2, SnapTyped
<1>6. /\ scratch' \in [Sessions -> BOOLEAN] /\ scratch'[s]
      /\ \A t \in Sessions \ {s} : scratch'[t] = scratch[t]
  BY <1>2, SnapTyped
<1>7. /\ at' \in [Sessions -> Places] /\ at'[s] = "hydrated"
      /\ \A t \in Sessions \ {s} : at'[t] = at[t]
  BY <1>2, GoesTo DEF Places
<1>8. TypeOK'
  BY <1>2, <1>3, <1>4, <1>5, <1>6, <1>7, SnapTyped DEF TypeOK, Trees
<1>9. PhaseInv'
  BY <1>2, ServerStepPhase DEF SnapInv
<1>10. SessionOk(s)'
  BY <1>2, <1>4, <1>5, <1>6, <1>7, SnapTyped DEF SessionOk, WorkOk, KeptOk, Named
<1> QED BY <1>2, <1>4, <1>5, <1>6, <1>7, <1>8, <1>9, <1>10, OneKeeps

LEMMA ComesBackKeeps ==
  ASSUME SnapInv, NEW s \in Sessions, ComesBack(s)
  PROVE  SnapInv'
<1>1. /\ phase = "up" /\ at[s] = "hydrated" /\ StillPids
      /\ UNCHANGED <<foreign, phase, advance, ours, others, images, scratch, checkpoint, mem, told, resetOver>>
  BY DEF ComesBack, InMemory
<1>2. CASE Quarantined(s)
  BY <1>1, <1>2, QuarantinedKeeps
<1>3. CASE /\ Marked(s, "live_idle") /\ entry' = [entry EXCEPT ![s] = record'[s]]
           /\ To(s, "live") /\ host' = host
  <2>1. /\ record' \in [Sessions -> Listing] /\ record'[s].snap = record[s].snap
        /\ \A t \in Sessions \ {s} : record'[t] = record[t]
    BY <1>3, MarkedIs DEF Statuses
  <2>2. /\ entry' \in [Sessions -> Listing] /\ entry'[s] = record'[s]
        /\ \A t \in Sessions \ {s} : entry'[t] = entry[t]
    BY <1>3, <2>1, SnapTyped
  <2>3. /\ at' \in [Sessions -> Places] /\ at'[s] = "live"
        /\ \A t \in Sessions \ {s} : at'[t] = at[t]
    BY <1>3, GoesTo DEF Places
  <2>4. TypeOK'
    BY <1>1, <1>3, <2>1, <2>2, <2>3, SnapTyped DEF TypeOK, Listing, Snaps, StillPids
  <2>5. PhaseInv'
    BY <1>1, ServerStepPhase DEF SnapInv
  <2>6. SessionOk(s)'
    BY <1>1, <1>3, <2>1, <2>2, <2>3, SnapTyped DEF SessionOk, WorkOk, KeptOk, Named
  <2> QED BY <1>1, <1>3, <2>1, <2>2, <2>3, <2>4, <2>5, <2>6, OneKeeps
<1> QED BY <1>2, <1>3 DEF ComesBack

LEMMA ResetToCheckpointKeeps ==
  ASSUME SnapInv, NEW s \in Sessions, resetToCheckpoint(s)
  PROVE  SnapInv'
<1>1. /\ phase = "up" /\ at[s] = "away" /\ StillPids /\ To(s, "spent")
      /\ resetOver' = IF record[s].snap = NoSnapshot THEN resetOver ELSE resetOver \cup {s}
      /\ UNCHANGED <<foreign, phase, advance, ours, others, entry, images, scratch, checkpoint, record,
                     host, mem, told>>
  BY DEF resetToCheckpoint, Admitted
<1>2. /\ at' \in [Sessions -> Places] /\ at'[s] = "spent"
      /\ \A t \in Sessions \ {s} : at'[t] = at[t]
  BY <1>1, GoesTo DEF Places
<1>3. TypeOK'
  BY <1>1, <1>2, SnapTyped DEF TypeOK, StillPids
<1>4. PhaseInv'
  BY <1>1, ServerStepPhase DEF SnapInv
<1>5. SessionOk(s)'
  BY <1>1, <1>2, SnapTyped DEF SessionOk, WorkOk, KeptOk, Named
<1> QED BY <1>1, <1>2, <1>3, <1>4, <1>5, OneKeeps

-----------------------------------------------------------------------------
(* A server's start.                                                       *)

LEMMA HighestIs ==
  ASSUME NEW snap \in Snapshots
  PROVE  HighestOf(snap) \in snap.pids /\ HighestOf(snap) \in Pids
<1>1. snap.pids # {} /\ snap.pids \subseteq Pids
  BY DEF Snapshots
<1>2. snap.pids \in SUBSET (0..PidMax) /\ PidMax \in Nat
  BY <1>1, PidsAreNat, PidAssumption
<1>3. HighestOf(snap) \in snap.pids
  BY <1>1, <1>2, MaxIs DEF HighestOf
<1> QED BY <1>1, <1>3

\* What the counter is to move past, of those it is near.
LEMMA ReservationTyped ==
  ASSUME NEW from \in Pids, NEW records \in [Sessions -> Listing]
  PROVE  pidReservation(from, SnapshotsOf(records)) \in
             [past : Pids \cup {0}, wrapping : BOOLEAN, near : SUBSET Sessions]
<1> DEFINE snaps == SnapshotsOf(records)
           near == Near(from, snaps)
           needs == {Need(from, snaps[s]) : s \in near}
<1>1. DOMAIN snaps \subseteq Sessions /\ \A s \in DOMAIN snaps : snaps[s] \in Snapshots
  BY DEF SnapshotsOf, Listing, Snaps
<1>2. \A s \in DOMAIN snaps : HighestOf(snaps[s]) \in Pids /\ Need(from, snaps[s]) \in Nat
  BY <1>1, HighestIs, BeforeIs DEF Need
<1>3. near \subseteq DOMAIN snaps
  BY DEF Near
<1>4. CASE near = {}
  BY <1>4 DEF pidReservation, NoAdvance
<1>5. CASE near # {}
  <2>1. needs \in SUBSET (0..PID_ADVANCE_BUDGET) /\ needs # {} /\ PID_ADVANCE_BUDGET \in Nat
    BY <1>2, <1>5, PidAssumption DEF Near
  <2>2. PICK most \in needs : \A y \in needs : y =< most
    BY <2>1, MaxIs
  <2>3. \E s \in near : \A t \in near : Need(from, snaps[t]) =< Need(from, snaps[s])
    BY <2>2
  <2>4. PICK farthest \in near :
           farthest = CHOOSE s \in near : \A t \in near : Need(from, snaps[t]) =< Need(from, snaps[s])
    BY <2>3
  <2>5. HighestOf(snaps[farthest]) \in Pids /\ near \in SUBSET Sessions
    BY <1>1, <1>2, <1>3, <2>4
  <2>6. pidReservation(from, snaps) =
           [past |-> HighestOf(snaps[farthest]), wrapping |-> HighestOf(snaps[farthest]) =< from,
            near |-> near]
    BY <1>5, <2>4 DEF pidReservation
  <2> HIDE DEF snaps, near
  <2>7. (HighestOf(snaps[farthest]) =< from) \in BOOLEAN
    OBVIOUS
  <2> QED BY <2>5, <2>6, <2>7 DEF snaps
<1> QED BY <1>4, <1>5

LEMMA TakesTyped ==
  ASSUME SnapInv, TakesItsPids
  PROVE  /\ last' \in Pids /\ ours' \subseteq Pids /\ others' \subseteq Pids
         /\ since' \in 0..(2 * PidMax) /\ safe' \subseteq Sessions
<1>1. /\ last \in Pids /\ since \in 0..(2 * PidMax) /\ others \subseteq Pids /\ safe \subseteq Sessions
  BY Typed DEF SnapInv
<1>2. CASE /\ last' = Own /\ ours' = 1..Own /\ others' = {} /\ since' = 0
           /\ safe' = {s \in safe : LowestOf(entry[s].snap) = entry[s].snap.root}
  <2>1. Own \in Pids /\ 1..Own \subseteq Pids /\ 0 \in 0..(2 * PidMax)
    BY PidAssumption DEF Pids
  <2> QED BY <1>1, <1>2, <2>1
<1>3. CASE \E p \in Pids :
           LET taken == {q \in Pids : Free(q) /\ pidsBefore(last, q) =< pidsBefore(last, p)} IN
           MovesTo(p, taken) /\ ours' = taken /\ UNCHANGED others
  <2>1. PICK p \in Pids, taken \in SUBSET Pids :
           MovesTo(p, taken) /\ ours' = taken /\ UNCHANGED others
    BY <1>3
  <2>2. last' \in Pids /\ since' \in 0..(2 * PidMax) /\ safe' \subseteq safe
    BY <1>1, <2>1, MovesTyped
  <2> QED BY <1>1, <2>1, <2>2
<1> QED BY <1>2, <1>3 DEF TakesItsPids

LEMMA LoadsCatalogKeeps ==
  ASSUME SnapInv, LoadsCatalog
  PROVE  SnapInv'
<1>1. /\ phase = "down" /\ phase' = "advancing"
      /\ record' = [s \in Sessions |-> Normalized(s)] /\ entry' = record' /\ images' = Swept(record')
      /\ TakesItsPids /\ advance' = pidReservation(last', SnapshotsOf(record'))
      /\ UNCHANGED <<scratch, checkpoint, foreign, at, host, mem, told, resetOver>>
  BY DEF LoadsCatalog
<1>2. /\ record' \in [Sessions -> Listing]
      /\ \A t \in Sessions : record'[t].snap \in {NoSnapshot, entry[t].snap}
  <2>1. \A t \in Sessions : Normalized(t) \in Listing /\ Normalized(t).snap \in {NoSnapshot, entry[t].snap}
    BY SnapTyped, Values DEF Normalized, restorableSnapshot, Listing, Statuses
  <2> QED BY <1>1, <2>1
<1>3. /\ images' \in [Sessions -> Snaps \cup {Partial}]
      /\ \A t \in Sessions : record'[t].snap # NoSnapshot => images'[t] = images[t]
  <2>1. \A t \in Sessions : images'[t] = IF record'[t].snap = NoSnapshot THEN NoSnapshot ELSE images[t]
    BY <1>1 DEF Swept
  <2>2. images' \in [Sessions -> Snaps \cup {Partial}]
    BY <1>1, SnapTyped, Values DEF Swept
  <2> QED BY <2>1, <2>2
<1>4. /\ last' \in Pids /\ ours' \subseteq Pids /\ others' \subseteq Pids
      /\ since' \in 0..(2 * PidMax) /\ safe' \subseteq Sessions
  BY <1>1, TakesTyped
<1>5. advance' \in [past : Pids \cup {0}, wrapping : BOOLEAN, near : SUBSET Sessions]
  BY <1>1, <1>2, <1>4, ReservationTyped
<1>6. TypeOK'
  BY <1>1, <1>2, <1>3, <1>4, <1>5, SnapTyped DEF TypeOK, Listing, Snaps, Trees
<1>7. \A t \in Sessions : at[t] = "away"
  BY <1>1 DEF SnapInv, PhaseInv
<1>8. PhaseInv'
  BY <1>1, <1>7 DEF PhaseInv
<1>9. ASSUME NEW t \in Sessions
      PROVE  SessionOk(t)'
  <2>1. PICK snap \in {NoSnapshot, entry[t].snap} : entry'[t].snap = snap /\ record'[t].snap = snap
    BY <1>1, <1>2
  <2>2. Named(t)' = {snap} /\ (snap # NoSnapshot => images'[t] = images[t])
    BY <1>3, <2>1 DEF Named
  <2>3. SessionOk(t) /\ checkpoint[t] \in Nat /\ told[t] \in Nat
    BY SnapTyped
  <2>4. WorkOk(t)'
    BY <1>1, <1>7, <2>1, <2>2, <2>3, Values DEF SessionOk, WorkOk, Named
  <2>5. t \notin resetOver => KeptOk(t)'
    BY <1>1, <1>7, <2>1, <2>2, <2>3 DEF SessionOk, KeptOk, Named
  <2> QED BY <1>1, <2>4, <2>5 DEF SessionOk
<1> QED BY <1>6, <1>8, <1>9 DEF SnapInv

LEMMA UpKeeps ==
  ASSUME SnapInv, phase = "advancing", NEW to \in Pids, NEW moved \in Nat, NEW past, UpWith(to, moved, past)
  PROVE  SnapInv'
<1>1. /\ phase' = "up" /\ advance' = NoAdvance /\ scratch' = Emptied /\ last' = to
      /\ since' = Min({moved, 2 * PidMax})
      /\ UNCHANGED <<entry, images, checkpoint, foreign, others, ours, record, at, host, mem, told, resetOver>>
  BY DEF UpWith
<1>2. 2 * PidMax \in Nat
  BY PidAssumption
<1>3. since' \in 0..(2 * PidMax)
  BY <1>1, <1>2, MinIs
<1>4. safe' \subseteq Sessions
  BY SnapTyped DEF UpWith, TypeOK
<1>5. NoAdvance \in [past : Pids \cup {0}, wrapping : BOOLEAN, near : SUBSET Sessions]
  BY DEF NoAdvance
<1>6. /\ scratch' \in [Sessions -> BOOLEAN]
      /\ \A t \in Sessions : record[t].snap # NoSnapshot => scratch'[t] = scratch[t]
  BY <1>1, SnapTyped DEF Emptied
<1>7. TypeOK'
  BY <1>1, <1>3, <1>4, <1>5, <1>6, SnapTyped DEF TypeOK
<1>8. record = entry /\ \A t \in Sessions : at[t] = "away"
  BY DEF SnapInv, PhaseInv
<1>9. PhaseInv'
  BY <1>1 DEF PhaseInv
<1>10. ASSUME NEW t \in Sessions
       PROVE  SessionOk(t)'
  <2>1. SessionOk(t)
    BY SnapTyped
  <2>2. WorkOk(t)'
    BY <1>1, <1>6, <1>8, <2>1 DEF SessionOk, WorkOk, Named
  <2>3. t \notin resetOver => KeptOk(t)'
    BY <1>1, <1>8, <2>1 DEF SessionOk, KeptOk, Named
  <2> QED BY <1>1, <2>2, <2>3 DEF SessionOk
<1> QED BY <1>7, <1>9, <1>10 DEF SnapInv

LEMMA StartKeeps ==
  ASSUME SnapInv, Start
  PROVE  SnapInv'
<1>1. last \in Pids /\ since \in Nat
  BY Typed, PidAssumption DEF SnapInv
<1>2. CASE Advances
  <2>1. PICK to \in Pids, round \in {0, Cycle} :
           UpWith(to, since + pidsBefore(last, to) + 1 + round, HandedOut(to))
    BY <1>2 DEF Advances
  <2>2. Cycle \in Nat /\ pidsBefore(last, to) \in Nat
    BY <1>1, BeforeIs, PidAssumption DEF Cycle
  <2>3. since + pidsBefore(last, to) + 1 + round \in Nat
    BY <1>1, <2>2
  <2> QED BY <1>2, <2>1, <2>3, UpKeeps DEF Advances
<1>3. CASE ReservesNothing
  BY <1>1, <1>3, UpKeeps DEF ReservesNothing
<1> QED BY <1>2, <1>3, LoadsCatalogKeeps DEF Start

-----------------------------------------------------------------------------
(* Its stop.                                                               *)

LEMMA DumpsKeeps ==
  ASSUME SnapInv, NEW s \in Sessions, Dumps(s)
  PROVE  SnapInv'
<1>1. /\ phase = "stopping" /\ at[s] = "live" /\ To(s, "dumped") /\ Away(s)
      /\ record' = [record EXCEPT ![s].snap = TreeOf(s)] /\ images' = [images EXCEPT ![s] = TreeOf(s)]
      /\ last' \in NextPids
      /\ safe' = IF Promised(s, safe) THEN safe \cup {s} ELSE safe \ {s}
      /\ foreign' = foreign \ {s}
      /\ resetOver' = IF mem[s] = told[s] THEN resetOver \ {s} ELSE resetOver
      /\ UNCHANGED <<entry, scratch, checkpoint, others, ours, since, phase, mem, advance, told>>
  BY DEF Dumps, Turn
<1>2. /\ SessionOk(s) /\ mem[s] \in 0..MaxWork /\ host[s] \in Trees
  BY SnapTyped
<1>3. TreeOf(s) \in Snapshots /\ TreeOf(s).mem = mem[s]
  BY <1>1, <1>2 DEF SessionOk, WorkOk, TreeOf, Snapshots, Trees
<1>4. /\ record' \in [Sessions -> Listing] /\ record'[s].snap = TreeOf(s)
      /\ \A t \in Sessions \ {s} : record'[t] = record[t]
  BY <1>1, <1>3, SnapTyped DEF Listing, Snaps
<1>5. /\ images' \in [Sessions -> Snaps \cup {Partial}] /\ images'[s] = TreeOf(s)
      /\ \A t \in Sessions \ {s} : images'[t] = images[t]
  BY <1>1, <1>3, SnapTyped DEF Snaps
<1>6. /\ at' \in [Sessions -> Places] /\ at'[s] = "dumped"
      /\ \A t \in Sessions \ {s} : at'[t] = at[t]
  BY <1>1, GoesTo DEF Places
<1>7. /\ host' \in [Sessions -> Trees]
      /\ \A t \in Sessions \ {s} : host'[t] = host[t]
  BY <1>1, AwayIs
<1>8. last' \in Pids /\ safe' \subseteq Sessions /\ foreign' \subseteq Sessions /\ resetOver' \subseteq Sessions
  BY <1>1, NextIsPid, SnapTyped DEF TypeOK
<1>9. TypeOK'
  BY <1>1, <1>4, <1>5, <1>6, <1>7, <1>8, SnapTyped DEF TypeOK, Listing, Snaps, Trees
<1>10. PhaseInv'
  BY <1>1, ServerStepPhase DEF SnapInv
<1>11. Named(s)' = {entry[s].snap, TreeOf(s)}
  BY <1>1, <1>4 DEF Named
<1>12. WorkOk(s)'
  BY <1>1, <1>2, <1>3, <1>5, <1>6, <1>11 DEF SessionOk, WorkOk, Named
<1>13. ASSUME s \notin resetOver'
       PROVE  KeptOk(s)'
  <2>1. mem[s] = told[s] /\ checkpoint[s] = told[s]
    BY <1>1, <1>2, <1>13 DEF SessionOk, WorkOk, KeptOk
  <2> QED BY <1>1, <1>3, <1>5, <1>6, <1>11, <2>1 DEF KeptOk
<1> QED BY <1>1, <1>4, <1>5, <1>6, <1>7, <1>9, <1>10, <1>12, <1>13, OneKeeps DEF SessionOk

LEMMA DumpsNotKeeps ==
  ASSUME SnapInv, NEW s \in Sessions, DumpsNot(s)
  PROVE  SnapInv'
<1>1. /\ phase = "stopping" /\ To(s, "dumped") /\ Away(s) /\ StillPids
      /\ images' \in {images, [images EXCEPT ![s] = NoSnapshot]}
      /\ UNCHANGED <<foreign, phase, advance, ours, others, entry, scratch, checkpoint, record, mem, told, resetOver>>
  BY DEF DumpsNot, Turn, InMemory
<1>2. /\ images' \in [Sessions -> Snaps \cup {Partial}] /\ images'[s] \in {images[s], NoSnapshot}
      /\ \A t \in Sessions \ {s} : images'[t] = images[t]
  BY <1>1, SnapTyped, Values
<1>3. /\ at' \in [Sessions -> Places] /\ at'[s] = "dumped"
      /\ \A t \in Sessions \ {s} : at'[t] = at[t]
  BY <1>1, GoesTo DEF Places
<1>4. /\ host' \in [Sessions -> Trees]
      /\ \A t \in Sessions \ {s} : host'[t] = host[t]
  BY <1>1, AwayIs
<1>5. TypeOK'
  BY <1>1, <1>2, <1>3, <1>4, SnapTyped DEF TypeOK, Snaps, Trees, StillPids
<1>6. PhaseInv'
  BY <1>1, ServerStepPhase DEF SnapInv
<1>7. SessionOk(s)'
  BY <1>1, <1>2, <1>3, SnapTyped DEF SessionOk, WorkOk, KeptOk, Named
<1> QED BY <1>1, <1>2, <1>3, <1>4, <1>5, <1>6, <1>7, OneKeeps

LEMMA SuspendsKeeps ==
  ASSUME SnapInv, NEW s \in Sessions, Suspends(s)
  PROVE  SnapInv'
<1>1. /\ phase = "stopping" /\ at[s] = "dumped" /\ To(s, "away") /\ Marked(s, "suspended") /\ StillPids
      /\ entry' \in {entry, [entry EXCEPT ![s] = record'[s]]}
      /\ UNCHANGED <<foreign, phase, advance, ours, others, images, scratch, checkpoint, host, mem, told, resetOver>>
  BY DEF Suspends, InMemory
<1>2. /\ record' \in [Sessions -> Listing] /\ record'[s].snap = record[s].snap
      /\ \A t \in Sessions \ {s} : record'[t] = record[t]
  BY <1>1, MarkedIs DEF Statuses
<1>3. /\ entry' \in [Sessions -> Listing] /\ entry'[s] \in {entry[s], record'[s]}
      /\ \A t \in Sessions \ {s} : entry'[t] = entry[t]
  BY <1>1, <1>2, ListedIs
<1>4. /\ at' \in [Sessions -> Places] /\ at'[s] = "away"
      /\ \A t \in Sessions \ {s} : at'[t] = at[t]
  BY <1>1, GoesTo DEF Places
<1>5. TypeOK'
  BY <1>1, <1>2, <1>3, <1>4, SnapTyped DEF TypeOK, Listing, Snaps, StillPids
<1>6. PhaseInv'
  BY <1>1, ServerStepPhase DEF SnapInv
<1>7. SessionOk(s)'
  BY <1>1, <1>2, <1>3, <1>4, SnapTyped DEF SessionOk, WorkOk, KeptOk, Named
<1> QED BY <1>1, <1>2, <1>3, <1>4, <1>5, <1>6, <1>7, OneKeeps

\* However it goes, what is on disk stays; a directory it was at work in may be partial.
LEMMA GoneKeeps ==
  ASSUME SnapInv, Gone,
         images' \in {images} \cup {[images EXCEPT ![s] = Partial] : s \in Sessions}
  PROVE  SnapInv'
<1>1. /\ phase' = "down" /\ advance' = NoAdvance /\ ours' = {} /\ since' = 0
      /\ at' = [s \in Sessions |-> "away"] /\ host' = [s \in Sessions |-> NoHost]
      /\ record' = [s \in Sessions |-> Unread] /\ mem' = [s \in Sessions |-> 0]
      /\ UNCHANGED <<entry, scratch, checkpoint, foreign, last, others, told, resetOver>>
  BY DEF Gone
<1>2. safe' \subseteq Sessions
  BY SnapTyped DEF Gone, TypeOK
<1>3. NoAdvance \in [past : Pids \cup {0}, wrapping : BOOLEAN, near : SUBSET Sessions]
  BY DEF NoAdvance
<1>4. /\ images' \in [Sessions -> Snaps \cup {Partial}]
      /\ \A t \in Sessions : images'[t] \in {images[t], Partial}
  BY SnapTyped
<1>5. /\ at' \in [Sessions -> Places] /\ host' \in [Sessions -> Trees]
      /\ record' \in [Sessions -> Listing] /\ mem' \in [Sessions -> 0..MaxWork]
      /\ 0 \in 0..(2 * PidMax)
  BY <1>1, Values DEF Places
<1>6. TypeOK'
  BY <1>1, <1>2, <1>3, <1>4, <1>5, SnapTyped DEF TypeOK, Listing, Snaps, Trees
<1>7. PhaseInv'
  BY <1>1 DEF PhaseInv
<1>8. ASSUME NEW t \in Sessions
      PROVE  SessionOk(t)'
  <2>1. /\ Named(t)' = {entry[t].snap, NoSnapshot} /\ mem'[t] = 0 /\ at'[t] = "away"
        /\ NoSnapshot.mem = 0 /\ entry[t].snap # Partial /\ entry[t].snap.mem \in Nat
    BY <1>1, SnapTyped, Values DEF Named
  <2>2. SessionOk(t) /\ checkpoint[t] \in Nat /\ told[t] \in Nat
    BY SnapTyped
  <2>3. WorkOk(t)'
    BY <1>1, <1>4, <2>1, <2>2 DEF SessionOk, WorkOk, Named
  <2>4. t \notin resetOver => KeptOk(t)'
    BY <1>1, <1>4, <2>1, <2>2 DEF SessionOk, KeptOk, Named
  <2> QED BY <1>1, <2>3, <2>4 DEF SessionOk
<1> QED BY <1>6, <1>7, <1>8 DEF SnapInv

-----------------------------------------------------------------------------
(* The theorems.                                                           *)

LEMMA SnapStarts ==
  Init => SnapInv
<1> SUFFICES ASSUME Init PROVE SnapInv
  OBVIOUS
<1>1. NoAdvance \in [past : Pids \cup {0}, wrapping : BOOLEAN, near : SUBSET Sessions]
  BY DEF NoAdvance
<1>2. 1 \in Pids /\ 0 \in 0..(2 * PidMax) /\ 0 \in 0..MaxWork
  BY PidAssumption, BoundAssumption DEF Pids
<1>3. /\ \A s \in Sessions : entry[s] = Unread /\ images[s] = NoSnapshot
      /\ entry \in [Sessions -> Listing] /\ record \in [Sessions -> Listing]
  BY Values DEF Init, Unread
<1>4. TypeOK
  BY <1>1, <1>2, <1>3, Values DEF Init, TypeOK, Listing, Snaps, Trees, Places
<1>5. PhaseInv
  BY DEF Init, PhaseInv
<1>6. ASSUME NEW s \in Sessions
      PROVE  SessionOk(s)
  BY <1>3, Values DEF Init, SessionOk, WorkOk, KeptOk, Named
<1> QED BY <1>4, <1>5, <1>6 DEF SnapInv

LEMMA SnapSteps ==
  SnapInv /\ [Next]_vars => SnapInv'
<1> SUFFICES ASSUME SnapInv, [Next]_vars PROVE SnapInv'
  OBVIOUS
<1>1. CASE Start
  BY <1>1, StartKeeps
<1>2. ASSUME NEW s \in Sessions, Session(s)
      PROVE  SnapInv'
  BY <1>2, RecoverRuntimeKeeps, RestoresKeeps, SpendsKeeps, StartSessionKeeps, ComesBackKeeps,
     ResetToCheckpointKeeps, ForksKeeps, ExecsKeeps DEF Session
<1>3. CASE advancePastFloor
  BY <1>3, AdvancePastFloorKeeps
<1>4. CASE Stop
  <2>1. CASE Stops
    BY <2>1, GoneKeeps DEF Stops
  <2> QED BY <1>4, <2>1, BeginsStopKeeps, DumpsKeeps, DumpsNotKeeps, SuspendsKeeps DEF Stop
<1>5. CASE Killed
  BY <1>5, GoneKeeps DEF Killed, Underway
<1>6. CASE UNCHANGED vars
  <2>1. TypeOK'
    BY <1>6 DEF SnapInv, TypeOK, vars, diskVars, pidVars
  <2> QED BY <1>6, <2>1, PidsKeep DEF vars, diskVars
<1> QED BY <1>1, <1>2, <1>3, <1>4, <1>5, <1>6, ChangesKeeps, OthersMoveKeeps DEF Next, Done

\* The inductive invariant holds of every server, whatever it dumped, restored or was
\* killed at.
THEOREM SnapAlways == Spec => []SnapInv
BY SnapStarts, SnapSteps, PTL DEF Spec

\* The types of the catalog's entries, the images, the PIDs and the server's own state.
THEOREM TypeCorrect == Spec => []TypeOK
<1>1. SnapInv => TypeOK
  BY DEF SnapInv
<1> QED BY <1>1, SnapAlways, PTL

\* A session that has come back has in its memory all the work its execs told, through
\* stops, kills at any point, failed dumps and restores, in any number of servers, unless it
\* was reset to its checkpoint over a snapshot it had.
THEOREM WorkBack == Spec => []WorkComesBack
<1>1. SnapInv => WorkComesBack
  BY DEF SnapInv, SessionOk, KeptOk, WorkComesBack
<1> QED BY <1>1, SnapAlways, PTL

\* The images a record or the catalog names are never whole without the scratch files that
\* the tree in them maps, so that a start that empties scratch takes none from them.
ScratchKept ==
    \A s \in Sessions : \A snap \in Named(s) : snap # NoSnapshot /\ snap = images[s] => scratch[s]

\* What a snapshot's processes map is kept as long as its images are, whatever phase its server is in.
THEOREM ScratchBacksImages == Spec => []ScratchKept
<1>1. SnapInv => ScratchKept
  BY DEF SnapInv, SessionOk, WorkOk, ScratchKept
<1> QED BY <1>1, SnapAlways, PTL

-----------------------------------------------------------------------------
(* The PIDs: of a session whose snapshot's are promised, what they are     *)
(* apart from, and where the counter is.                                   *)

Idle == {"away", "recovering", "failed", "spent", "dumped"}

\* The trees that live are apart, from each other and from all else.
TreesApart ==
    \A s \in Sessions :
        /\ at[s] \in Idle => host[s] = NoHost
        /\ host[s].pids \cap (others \cup ours) = {}
        /\ \A t \in Sessions \ {s} : host[s].pids \cap host[t].pids = {}

\* Where a session's snapshot is: in the catalog until a server has loaded it, then in that
\* server's record, and as it stops in its directory.
Pinned(s) ==
    IF phase \in {"down", "advancing"} THEN entry[s].snap
    ELSE IF phase = "up" THEN record[s].snap ELSE images[s]

\* A server that is up has a record of what it has images of.
Recorded(s) ==
    phase \in {"advancing", "up"} =>
        /\ record[s].snap \in {entry[s].snap, NoSnapshot}
        /\ record[s].snap = NoSnapshot => images[s] = NoSnapshot

\* The PIDs promised are above the floor, and apart from what lives, but for the tree that
\* was just restored at them, and from every other snapshot there are images of.
Apart(s) ==
    /\ images[s] \in {Pinned(s), Partial, NoSnapshot}
    /\ Pinned(s).pids # {} => Pinned(s).root > SESSION_PID_FLOOR
    /\ Pinned(s).pids \cap (others \cup ours) = {}
    /\ \A t \in Sessions :
          Pinned(s).pids \cap host[t].pids = {} \/ (t = s /\ phase = "up" /\ at[s] = "restored")
    /\ \A t \in Sessions \ {s} : Pinned(s).pids \cap images[t].pids = {}

\* Past them all, the counter reaches none until it has gone a round less their span.
Ahead(snap, pid, moved) == \A q \in snap.pids : pidsBefore(pid, q) + moved + Span(snap) + 1 >= Cycle

\* How far the counter is from where a start read it.
Moved(from, to, moved) == (moved = 0 /\ to = from) \/ (moved < Cycle => moved = pidsBefore(from, to) + 1)

CounterInv ==
    /\ phase = "advancing" =>
          \E from \in Pids : /\ advance = pidReservation(from, SnapshotsOf(record))
                             /\ Stored # {} => Moved(from, last, since)
    /\ phase = "up" => \A s \in safe \cap Stored : Ahead(record[s].snap, last, since)

PidInv == TreesApart /\ CounterInv /\ (\A s \in Sessions : Recorded(s)) /\ \A s \in safe : Apart(s)

-----------------------------------------------------------------------------
(* The counter's distances.                                                *)

LEMMA Bounds ==
  /\ PidMax \in Nat /\ LOWEST_WRAPPED_PID \in Nat /\ Cycle \in Nat /\ 2 * PidMax \in Nat /\ Never \in Nat
  /\ Never >= 4 * PidMax /\ Never >= PID_ADVANCE_BUDGET /\ PID_ADVANCE_BUDGET \in Nat
  /\ Cycle = PidMax - LOWEST_WRAPPED_PID /\ Cycle =< PidMax
  /\ 1 =< LOWEST_WRAPPED_PID /\ LOWEST_WRAPPED_PID < PidMax
BY PidAssumption DEF Cycle, Never

LEMMA BeforeCases ==
  ASSUME NEW a \in Pids, NEW p \in Pids
  PROVE  /\ pidsBefore(a, p) \in Nat
         /\ p > a => pidsBefore(a, p) = p - a - 1
         /\ p =< a /\ p < LOWEST_WRAPPED_PID => pidsBefore(a, p) = Never
         /\ p =< a /\ p >= LOWEST_WRAPPED_PID =>
               pidsBefore(a, p) = PidMax - a - 1 + (p - LOWEST_WRAPPED_PID)
<1>1. a \in Nat /\ p \in Nat /\ a < PidMax /\ p < PidMax /\ ~(p >= PidMax)
  BY PidsAreNat, Bounds
<1> QED BY <1>1, BeforeIs, Bounds DEF pidsBefore

\* A step takes the counter no nearer to a PID than the PIDs it hands out.
LEMMA Nearer ==
  ASSUME NEW a \in Pids, NEW p \in Pids, NEW q \in Pids
  PROVE  pidsBefore(p, q) + pidsBefore(a, p) + 1 >= pidsBefore(a, q)
<1>1. a \in Nat /\ p \in Nat /\ q \in Nat /\ a < PidMax /\ p < PidMax /\ q < PidMax
  BY PidsAreNat
<1>2. CASE p > a /\ q > p
  BY <1>1, <1>2, BeforeCases, Bounds
<1>3. CASE p > a /\ q =< p
  BY <1>1, <1>3, BeforeCases, Bounds
<1>4. CASE p =< a /\ q > p
  BY <1>1, <1>4, BeforeCases, Bounds
<1>5. CASE p =< a /\ q =< p
  BY <1>1, <1>5, BeforeCases, Bounds
<1> QED BY <1>1, <1>2, <1>3, <1>4, <1>5

\* Less than a round, distances add up.
LEMMA AddsUp ==
  ASSUME NEW a \in Pids, NEW b \in Pids, NEW p \in Pids,
         pidsBefore(a, b) + pidsBefore(b, p) + 2 < Cycle
  PROVE  pidsBefore(a, p) = pidsBefore(a, b) + pidsBefore(b, p) + 1
<1>1. a \in Nat /\ p \in Nat /\ b \in Nat /\ a < PidMax /\ p < PidMax /\ b < PidMax
  BY PidsAreNat
<1>2. CASE b > a /\ p > b
  BY <1>1, <1>2, BeforeCases, Bounds
<1>3. CASE b > a /\ p =< b
  BY <1>1, <1>3, BeforeCases, Bounds
<1>4. CASE b =< a /\ p > b
  BY <1>1, <1>4, BeforeCases, Bounds
<1>5. CASE b =< a /\ p =< b
  BY <1>1, <1>5, BeforeCases, Bounds
<1> QED BY <1>1, <1>2, <1>3, <1>4, <1>5

LEMMA MovesOn ==
  ASSUME NEW from \in Pids, NEW to \in Pids, NEW p \in Pids, NEW moved \in Nat, Moved(from, to, moved)
  PROVE  Moved(from, p, Min({moved + pidsBefore(to, p) + 1, 2 * PidMax}))
<1> DEFINE more == moved + pidsBefore(to, p) + 1
<1>1. more \in Nat /\ pidsBefore(to, p) \in Nat /\ pidsBefore(from, to) \in Nat
  BY BeforeIs
<1>2. Min({more, 2 * PidMax}) \in {more, 2 * PidMax}
  BY <1>1, MinIs, Bounds
<1>3. CASE Min({more, 2 * PidMax}) = 2 * PidMax
  <2>1. ~(2 * PidMax < Cycle)
    BY Bounds
  <2> QED BY <1>3, <2>1 DEF Moved
<1>4. CASE Min({more, 2 * PidMax}) = more
  <2>1. ASSUME more < Cycle PROVE more = pidsBefore(from, p) + 1
    <3>1. CASE moved = 0 /\ to = from
      BY <1>1, <3>1
    <3>2. CASE moved = pidsBefore(from, to) + 1
      <4>1. pidsBefore(from, to) + pidsBefore(to, p) + 2 < Cycle
        BY <1>1, <2>1, <3>2, Bounds
      <4>2. pidsBefore(from, p) = pidsBefore(from, to) + pidsBefore(to, p) + 1
        BY <4>1, AddsUp
      <4> QED BY <1>1, <3>2, <4>2
    <3>3. moved < Cycle
      BY <1>1, <2>1, Bounds
    <3> QED BY <3>1, <3>2, <3>3 DEF Moved
  <2> QED BY <1>4, <2>1 DEF Moved
<1> QED BY <1>2, <1>3, <1>4

\* From past a tree's highest PID, the counter reaches none of it for a round less its span.
LEMMA PastIsAhead ==
  ASSUME NEW from \in Pids, NEW to \in Pids, NEW high \in Pids, NEW q \in Pids, NEW span \in Nat,
         q =< high, high =< q + span,
         pidsBefore(from, high) =< pidsBefore(from, to),
         pidsBefore(from, to) + 1 + span < Cycle
  PROVE  pidsBefore(to, q) + pidsBefore(from, to) + 1 + span + 1 >= Cycle
<1>1. /\ from \in Nat /\ to \in Nat /\ high \in Nat /\ q \in Nat
      /\ from < PidMax /\ to < PidMax /\ high < PidMax /\ q < PidMax
  BY PidsAreNat
<1>2. CASE to > from
  <2>1. high > from /\ high =< to /\ q =< to
    BY <1>1, <1>2, BeforeCases, Bounds
  <2> QED BY <1>1, <1>2, <2>1, BeforeCases, Bounds
<1>3. CASE to =< from /\ to >= LOWEST_WRAPPED_PID
  <2>1. pidsBefore(from, to) = PidMax - from - 1 + (to - LOWEST_WRAPPED_PID)
    BY <1>1, <1>3, BeforeCases
  <2>2. CASE q =< to
    <3>1. high >= LOWEST_WRAPPED_PID \/ high > from
      BY <1>1, <1>3, <2>1, BeforeCases, Bounds
    <3>2. q + span >= LOWEST_WRAPPED_PID
      BY <1>1, <1>3, <3>1, Bounds
    <3> QED BY <1>1, <1>3, <2>1, <2>2, <3>2, BeforeCases, Bounds
  <2>3. CASE q > to
    <3>1. high > from
      BY <1>1, <1>3, <2>1, <2>3, BeforeCases, Bounds
    <3> QED BY <1>1, <1>3, <2>1, <2>3, <3>1, BeforeCases, Bounds
  <2> QED BY <1>1, <2>2, <2>3
<1>4. CASE to =< from /\ to < LOWEST_WRAPPED_PID
  BY <1>1, <1>4, BeforeCases, Bounds
<1> QED BY <1>1, <1>2, <1>3, <1>4, Bounds

-----------------------------------------------------------------------------
(* What is ahead of the counter.                                           *)

LEMMA MinSetIs ==
  ASSUME NEW n \in Nat, NEW S \in SUBSET (0..n), S # {}
  PROVE  Min(S) \in S /\ \A y \in S : Min(S) =< y
<1> DEFINE T == {k \in 0..n : \E x \in S : k = n - x}
<1>1. T \in SUBSET (0..n) /\ T # {}
  <2>1. PICK x \in S : TRUE
    OBVIOUS
  <2>2. n - x \in 0..n
    BY <2>1
  <2> QED BY <2>2
<1>2. Max(T) \in T /\ \A k \in T : k =< Max(T)
  <2> HIDE DEF T
  <2> QED BY <1>1, MaxIs
<1>3. PICK x \in S : Max(T) = n - x
  BY <1>2
<1>4. \A y \in S : x =< y
  <2> TAKE y \in S
  <2>1. n - y \in T
    OBVIOUS
  <2>2. n - y =< n - x
    BY <1>2, <1>3, <2>1
  <2> QED BY <2>2
<1> QED BY <1>4 DEF Min

LEMMA SpanIs ==
  ASSUME NEW snap \in Snapshots
  PROVE  /\ HighestOf(snap) \in Pids /\ HighestOf(snap) \in snap.pids /\ Span(snap) \in Nat
         /\ snap.pids \subseteq Pids /\ snap.root \in snap.pids
         /\ \A q \in snap.pids : LowestOf(snap) =< q /\ q =< HighestOf(snap) /\ HighestOf(snap) =< q + Span(snap)
<1>1. snap.pids # {} /\ snap.pids \subseteq Pids /\ snap.root \in snap.pids
  BY DEF Snapshots
<1>2. snap.pids \in SUBSET (0..PidMax) /\ snap.pids \in SUBSET Nat /\ PidMax \in Nat
  BY <1>1, PidsAreNat, PidAssumption
<1>3. HighestOf(snap) \in snap.pids /\ \A q \in snap.pids : q =< HighestOf(snap)
  BY <1>1, <1>2, MaxIs DEF HighestOf
<1>4. LowestOf(snap) \in snap.pids /\ \A q \in snap.pids : LowestOf(snap) =< q
  BY <1>1, <1>2, MinSetIs DEF LowestOf
<1>5. HighestOf(snap) \in Nat /\ LowestOf(snap) \in Nat /\ LowestOf(snap) =< HighestOf(snap)
  BY <1>2, <1>3, <1>4
<1>6. Span(snap) = HighestOf(snap) - LowestOf(snap) /\ Span(snap) \in Nat
  BY <1>5 DEF Span
<1>7. \A q \in snap.pids : HighestOf(snap) =< q + Span(snap)
  BY <1>2, <1>4, <1>5, <1>6
<1> QED BY <1>1, <1>3, <1>4, <1>6, <1>7

LEMMA NonePinned ==
  /\ NoSnapshot.pids = {} /\ Partial.pids = {} /\ NoHost.pids = {}
  /\ \A snap \in Snaps : snap # NoSnapshot => snap \in Snapshots
BY DEF NoSnapshot, Partial, NoHost, Snaps

LEMMA StoredIs ==
  ASSUME NEW records
  PROVE  /\ DOMAIN SnapshotsOf(records) = {s \in Sessions : records[s].snap # NoSnapshot}
         /\ \A s \in DOMAIN SnapshotsOf(records) : SnapshotsOf(records)[s] = records[s].snap
BY DEF SnapshotsOf

\* The counter goes on, short of its round: it hands out none of the tree's PIDs.
LEMMA AheadMoves ==
  ASSUME NEW snap \in Snapshots, NEW a \in Pids, NEW p \in Pids, NEW moved \in Nat, Ahead(snap, a, moved)
  PROVE  Ahead(snap, p, moved + pidsBefore(a, p) + 1)
<1> SUFFICES ASSUME NEW q \in snap.pids
             PROVE  pidsBefore(p, q) + (moved + pidsBefore(a, p) + 1) + Span(snap) + 1 >= Cycle
  BY DEF Ahead
<1>1. q \in Pids /\ Span(snap) \in Nat
  BY SpanIs
<1>2. pidsBefore(a, q) + moved + Span(snap) + 1 >= Cycle
  BY DEF Ahead
<1>3. pidsBefore(a, q) \in Nat /\ pidsBefore(p, q) \in Nat /\ pidsBefore(a, p) \in Nat
  BY <1>1, BeforeIs
<1>4. pidsBefore(p, q) + pidsBefore(a, p) + 1 >= pidsBefore(a, q)
  BY <1>1, Nearer
<1> QED BY <1>1, <1>2, <1>3, <1>4, Bounds

LEMMA AheadMisses ==
  ASSUME NEW snap \in Snapshots, NEW a \in Pids, NEW p \in Pids, NEW moved \in Nat, Ahead(snap, a, moved),
         OutOfReach(snap, moved + pidsBefore(a, p) + 1)
  PROVE  p \notin snap.pids
<1> SUFFICES ASSUME p \in snap.pids PROVE FALSE
  OBVIOUS
<1>1. Span(snap) \in Nat /\ pidsBefore(a, p) \in Nat
  BY SpanIs, BeforeIs
<1>2. pidsBefore(a, p) + moved + Span(snap) + 1 >= Cycle
  BY DEF Ahead
<1>3. moved + pidsBefore(a, p) + 1 + Span(snap) < Cycle
  BY DEF OutOfReach
<1> QED BY <1>1, <1>2, <1>3, Bounds

\* What is out of reach was moved past in less than a round, as since counts it.
LEMMA ReachCounts ==
  ASSUME NEW snap \in Snapshots, NEW moved \in Nat, OutOfReach(snap, moved)
  PROVE  Min({moved, 2 * PidMax}) = moved
<1>1. Span(snap) \in Nat /\ moved + Span(snap) < Cycle
  BY SpanIs DEF OutOfReach
<1>2. moved < 2 * PidMax
  BY <1>1, Bounds
<1>3. Min({moved, 2 * PidMax}) =< moved /\ Min({moved, 2 * PidMax}) \in {moved, 2 * PidMax}
  BY MinIs, Bounds
<1> QED BY <1>2, <1>3, Bounds

\* As a server that is up hands out a PID, or its helper moves the counter.
LEMMA UpMoves ==
  ASSUME SnapInv, CounterInv, phase = "up", NEW p \in Pids, NEW kept, MovesTo(p, kept)
  PROVE  /\ safe' \subseteq safe
         /\ \A s \in safe' \cap Stored : p \notin record[s].snap.pids /\ Ahead(record[s].snap, last', since')
<1>1. last \in Pids /\ since \in Nat /\ record \in [Sessions -> Listing]
  BY Typed, Bounds DEF SnapInv
<1> DEFINE moved == since + pidsBefore(last, p) + 1
<1>2. moved \in Nat
  BY <1>1, BeforeIs
<1>3. /\ last' = p /\ safe' = safe \ {s \in Stored : ~OutOfReach(record[s].snap, moved)}
      /\ Stored # {} => since' = Min({moved, 2 * PidMax})
  BY DEF MovesTo
<1>4. ASSUME NEW s \in safe' \cap Stored
      PROVE  p \notin record[s].snap.pids /\ Ahead(record[s].snap, last', since')
  <2>1. s \in Sessions /\ record[s].snap # NoSnapshot
    BY <1>4, StoredIs DEF Stored
  <2>2. record[s].snap \in Snapshots
    BY <1>1, <2>1, NonePinned DEF Listing
  <2>3. OutOfReach(record[s].snap, moved) /\ s \in safe \cap Stored
    BY <1>3, <1>4
  <2>4. Ahead(record[s].snap, last, since)
    BY <2>3 DEF CounterInv
  <2>5. since' = moved
    BY <1>2, <1>3, <1>4, <2>2, <2>3, ReachCounts
  <2>6. p \notin record[s].snap.pids
    BY <1>1, <2>2, <2>3, <2>4, AheadMisses
  <2>7. Ahead(record[s].snap, p, moved)
    BY <1>1, <2>2, <2>4, AheadMoves
  <2> QED BY <1>3, <2>5, <2>6, <2>7
<1> QED BY <1>3, <1>4

\* As others take PIDs while no server is up.
LEMMA DownMoves ==
  ASSUME phase # "up", NEW p \in Pids, NEW kept, MovesTo(p, kept), safe \subseteq Sessions
  PROVE  /\ safe' \subseteq safe
         /\ \A s \in safe' : (images[s].pids \cup entry[s].snap.pids) \cap kept = {}
BY DEF MovesTo

\* As others take PIDs while a start's helper runs.
LEMMA StartMoves ==
  ASSUME SnapInv, CounterInv, phase = "advancing", NEW p \in Pids, NEW kept, MovesTo(p, kept)
  PROVE  \E from \in Pids : /\ advance = pidReservation(from, SnapshotsOf(record))
                            /\ Stored # {} => Moved(from, last', since')
<1>1. last \in Pids /\ since \in Nat
  BY Typed, Bounds DEF SnapInv
<1>2. PICK from \in Pids : /\ advance = pidReservation(from, SnapshotsOf(record))
                           /\ Stored # {} => Moved(from, last, since)
  BY DEF CounterInv
<1>3. last' = p /\ (Stored # {} => since' = Min({since + pidsBefore(last, p) + 1, 2 * PidMax}))
  BY DEF MovesTo
<1>4. Stored # {} => Moved(from, last', since')
  BY <1>1, <1>2, <1>3, MovesOn
<1> QED BY <1>2, <1>4

-----------------------------------------------------------------------------
(* What keeps the PIDs apart.                                              *)

\* A step that brings the PIDs new into use, none of those pinned for s.
Spares(s, new) ==
    /\ images'[s] \in {Pinned(s)', Partial, NoSnapshot}
    /\ Pinned(s)' \in {Pinned(s), Partial, NoSnapshot}
    /\ Pinned(s)'.pids \cap new = {}
    /\ others' \cup ours' \subseteq others \cup ours \cup new
    /\ \A t \in Sessions :
          host'[t].pids \subseteq host[t].pids \cup new \/ (t = s /\ phase' = "up" /\ at'[s] = "restored")
    /\ (phase = "up" /\ at[s] = "restored") =>
          (phase' = "up" /\ at'[s] = "restored") \/ host'[s].pids = {} \/ Pinned(s)' = NoSnapshot
    /\ \A t \in Sessions \ {s} : images'[t].pids \subseteq images[t].pids \cup host[t].pids

LEMMA ApartKeeps ==
  ASSUME NEW s \in Sessions, Apart(s), NEW new, Spares(s, new)
  PROVE  Apart(s)'
<1> USE DEF Spares
<1> DEFINE pin == Pinned(s)
           now == Pinned(s)'
<1>1. now = pin \/ now.pids = {}
  BY NonePinned
<1>2. now.pids # {} => now.root > SESSION_PID_FLOOR
  BY <1>1 DEF Apart
<1>3. now.pids \cap (others' \cup ours') = {}
  BY <1>1 DEF Apart
<1>4. ASSUME NEW t \in Sessions, ~(t = s /\ phase' = "up" /\ at'[s] = "restored")
      PROVE  now.pids \cap host'[t].pids = {}
  <2>1. host'[t].pids \subseteq host[t].pids \cup new
    BY <1>4
  <2>2. CASE t = s /\ phase = "up" /\ at[s] = "restored"
    BY <1>4, <2>2, NonePinned
  <2>3. CASE ~(t = s /\ phase = "up" /\ at[s] = "restored")
    <3>1. pin.pids \cap host[t].pids = {}
      BY <2>3 DEF Apart
    <3> QED BY <1>1, <2>1, <3>1
  <2> QED BY <2>2, <2>3
<1>5. ASSUME NEW t \in Sessions \ {s}
      PROVE  now.pids \cap images'[t].pids = {}
  <2>1. pin.pids \cap images[t].pids = {} /\ pin.pids \cap host[t].pids = {}
    BY <1>5 DEF Apart
  <2>2. images'[t].pids \subseteq images[t].pids \cup host[t].pids
    BY <1>5
  <2> QED BY <1>1, <2>1, <2>2
<1> HIDE DEF pin
<1> QED BY <1>2, <1>3, <1>4, <1>5 DEF Apart

\* A step after which no tree is greater, and others have taken new.
LEMMA TreesKeep ==
  ASSUME TreesApart, NEW new,
         \A t \in Sessions : host[t].pids \cap new = {},
         others' \cup ours' \subseteq others \cup ours \cup new,
         \A t \in Sessions : host'[t].pids \subseteq host[t].pids,
         \A t \in Sessions : at'[t] \in Idle => host'[t] = NoHost
  PROVE  TreesApart'
<1> SUFFICES ASSUME NEW s \in Sessions
             PROVE  /\ at'[s] \in Idle => host'[s] = NoHost
                    /\ host'[s].pids \cap (others' \cup ours') = {}
                    /\ \A t \in Sessions \ {s} : host'[s].pids \cap host'[t].pids = {}
  BY DEF TreesApart, Idle
<1>1. /\ host[s].pids \cap (others \cup ours) = {} /\ host[s].pids \cap new = {}
      /\ \A t \in Sessions \ {s} : host[s].pids \cap host[t].pids = {}
  BY DEF TreesApart
<1>2. host'[s].pids \cap (others' \cup ours') = {}
  BY <1>1
<1>3. ASSUME NEW t \in Sessions \ {s}
      PROVE  host'[s].pids \cap host'[t].pids = {}
  BY <1>1
<1> QED BY <1>2, <1>3

\* A step after which one session's tree has taken new.
LEMMA TreeGrows ==
  ASSUME TreesApart, NEW new, new \cap Used = {}, NEW s \in Sessions,
         others' = others, ours' = ours,
         host'[s].pids \subseteq host[s].pids \cup new, at'[s] \notin Idle,
         \A t \in Sessions \ {s} : host'[t] = host[t] /\ at'[t] = at[t]
  PROVE  TreesApart'
<1>1. new \cap (others \cup ours) = {} /\ \A t \in Sessions : new \cap host[t].pids = {}
  BY DEF Used
<1> SUFFICES ASSUME NEW t \in Sessions
             PROVE  /\ at'[t] \in Idle => host'[t] = NoHost
                    /\ host'[t].pids \cap (others' \cup ours') = {}
                    /\ \A u \in Sessions \ {t} : host'[t].pids \cap host'[u].pids = {}
  BY DEF TreesApart, Idle
<1>2. /\ at[t] \in Idle => host[t] = NoHost
      /\ host[t].pids \cap (others \cup ours) = {}
      /\ \A u \in Sessions \ {t} : host[t].pids \cap host[u].pids = {}
  BY DEF TreesApart, Idle
<1>3. host'[t].pids \subseteq host[t].pids \cup new
  OBVIOUS
<1>4. host'[t].pids \cap (others' \cup ours') = {}
  BY <1>1, <1>2, <1>3
<1>5. ASSUME NEW u \in Sessions \ {t}
      PROVE  host'[t].pids \cap host'[u].pids = {}
  <2>1. host[t].pids \cap host[u].pids = {} /\ new \cap host[t].pids = {} /\ new \cap host[u].pids = {}
    BY <1>1, <1>2
  <2>2. CASE t = s
    BY <1>3, <2>1, <2>2
  <2>3. CASE u = s
    BY <1>3, <2>1, <2>3
  <2>4. CASE t # s /\ u # s
    BY <2>1, <2>4
  <2> QED BY <2>2, <2>3, <2>4
<1>6. at'[t] \in Idle => host'[t] = NoHost
  BY <1>2
<1> QED BY <1>4, <1>5, <1>6

LEMMA NextIsFree ==
  ASSUME NEW p \in NextPids
  PROVE  p \in Pids /\ p \notin Used
BY DEF NextPids, Free

\* A session's step at which nothing takes a PID.
LEMMA PidsStay ==
  ASSUME SnapInv, PidInv, NEW s \in Sessions, phase \in {"up", "stopping"}, phase' = phase, StillPids,
         others' = others, ours' = ours,
         \A t \in Sessions : images'[t] \in {images[t], NoSnapshot},
         \A t \in Sessions : record'[t].snap = record[t].snap,
         \A t \in Sessions : entry'[t].snap \in {entry[t].snap, record[t].snap},
         \A t \in Sessions \ {s} : at'[t] = at[t] /\ host'[t] = host[t],
         phase = "up" => at[s] # "restored",
         host'[s] \in {host[s], NoHost}, at'[s] \in Idle => host'[s] = NoHost
  PROVE  PidInv'
<1>1. TreesApart'
  <2>1. \A t \in Sessions : host'[t].pids \subseteq host[t].pids
    BY NonePinned
  <2>2. \A t \in Sessions : at'[t] \in Idle => host'[t] = NoHost
    BY DEF PidInv, TreesApart, Idle
  <2>3. others' \cup ours' \subseteq others \cup ours \cup {} /\ \A t \in Sessions : host[t].pids \cap {} = {}
    OBVIOUS
  <2> QED BY <2>1, <2>2, <2>3, TreesKeep DEF PidInv
<1>2. \A t \in Sessions : Recorded(t)'
  BY DEF PidInv, Recorded
<1>3. CounterInv'
  <2>1. Stored' = Stored
    <3>1. Stored = {t \in Sessions : record[t].snap # NoSnapshot}
      BY StoredIs DEF Stored
    <3>2. Stored' = {t \in Sessions : record'[t].snap # NoSnapshot}
      BY StoredIs DEF Stored
    <3> QED BY <3>1, <3>2
  <2>2. \A t \in Stored : record'[t].snap = record[t].snap
    BY StoredIs DEF Stored
  <2> QED BY <2>1, <2>2 DEF PidInv, CounterInv, StillPids
<1>4. ASSUME NEW t \in safe'
      PROVE  Apart(t)'
  <2>1. t \in Sessions /\ Apart(t)
    BY <1>4 DEF PidInv, StillPids, SnapInv, TypeOK
  <2>2. Pinned(t)' \in {Pinned(t), NoSnapshot} /\ images'[t] \in {Pinned(t)', Partial, NoSnapshot}
    BY <2>1 DEF Pinned, Apart
  <2>3. \A u \in Sessions : host'[u].pids \subseteq host[u].pids
    BY NonePinned
  <2>4. (phase = "up" /\ at[t] = "restored") => (phase' = "up" /\ at'[t] = "restored")
    BY <2>1
  <2>5. \A u \in Sessions \ {t} : images'[u].pids \subseteq images[u].pids \cup host[u].pids
    BY NonePinned
  <2>6. Spares(t, {})
    BY <2>2, <2>3, <2>4, <2>5 DEF Spares
  <2> QED BY <2>1, <2>6, ApartKeeps
<1> QED BY <1>1, <1>2, <1>3, <1>4 DEF PidInv

-----------------------------------------------------------------------------
(* The steps that take PIDs.                                               *)

LEMMA Moves ==
  ASSUME SnapInv, PidInv, NEW p \in Pids, NEW kept, MovesTo(p, kept),
         phase' = phase, record' = record, advance' = advance, entry' = entry, images' = images
  PROVE  /\ CounterInv' /\ \A t \in Sessions : Recorded(t)'
         /\ \A t \in safe' : /\ t \in Sessions /\ Apart(t) /\ Pinned(t)' = Pinned(t)
                             /\ images'[t] \in {Pinned(t)', Partial, NoSnapshot}
                             /\ phase = "up" => p \notin Pinned(t).pids
                             /\ phase # "up" => Pinned(t).pids \cap kept = {}
<1>1. safe \subseteq Sessions /\ CounterInv
  BY DEF SnapInv, TypeOK, PidInv
<1>2. Stored' = Stored
  BY DEF Stored, SnapshotsOf
<1>3. \A t \in Sessions : Recorded(t)'
  BY DEF PidInv, Recorded
<1>4. safe' \subseteq safe
  BY DEF MovesTo
<1>5. \A t \in Sessions : Pinned(t)' = Pinned(t)
  BY DEF Pinned
<1>6. CounterInv'
  <2>1. phase = "up" => \A s \in safe' \cap Stored : Ahead(record[s].snap, last', since')
    BY <1>1, UpMoves
  <2>2. phase = "advancing" =>
           \E from \in Pids : /\ advance = pidReservation(from, SnapshotsOf(record))
                              /\ Stored # {} => Moved(from, last', since')
    BY <1>1, StartMoves
  <2>3. SnapshotsOf(record') = SnapshotsOf(record)
    OBVIOUS
  <2> QED BY <1>2, <2>1, <2>2, <2>3 DEF CounterInv
<1>7. ASSUME NEW t \in safe'
      PROVE  /\ t \in Sessions /\ Apart(t) /\ images'[t] \in {Pinned(t)', Partial, NoSnapshot}
             /\ phase = "up" => p \notin Pinned(t).pids
             /\ phase # "up" => Pinned(t).pids \cap kept = {}
  <2>1. t \in Sessions /\ t \in safe /\ Apart(t)
    BY <1>1, <1>4, <1>7 DEF PidInv
  <2>2. images'[t] \in {Pinned(t)', Partial, NoSnapshot}
    BY <1>5, <2>1 DEF Apart
  <2>3. ASSUME phase = "up" PROVE p \notin Pinned(t).pids
    <3>1. Pinned(t) = record[t].snap
      BY <2>3 DEF Pinned
    <3>2. CASE t \in Stored
      BY <1>1, <1>7, <2>3, <3>1, <3>2, UpMoves
    <3>3. CASE t \notin Stored
      <4>1. record[t].snap = NoSnapshot
        BY <2>1, <3>3, StoredIs DEF Stored
      <4> QED BY <3>1, <4>1, NonePinned
    <3> QED BY <3>2, <3>3
  <2>4. ASSUME phase # "up" PROVE Pinned(t).pids \cap kept = {}
    <3>1. (images[t].pids \cup entry[t].snap.pids) \cap kept = {}
      BY <1>1, <1>7, <2>4, DownMoves
    <3>2. Pinned(t) \in {images[t], entry[t].snap}
      BY <2>4 DEF Pinned
    <3> QED BY <3>1, <3>2
  <2> QED BY <2>1, <2>2, <2>3, <2>4
<1> QED BY <1>3, <1>5, <1>6, <1>7

\* Another's process, of a PID none pinned has.
LEMMA OthersMovePids ==
  ASSUME SnapInv, PidInv, OthersMove
  PROVE  PidInv'
<1>1. PICK p \in Pids : p \notin Used /\ MovesTo(p, {p}) /\ others' = others \cup {p}
  BY DEF OthersMove, Free
<1>2. UNCHANGED <<entry, images, phase, record, at, host, ours, advance>>
  BY DEF OthersMove, diskVars
<1>3. TreesApart'
  <2>1. \A t \in Sessions : host[t].pids \cap {p} = {}
    BY <1>1 DEF Used
  <2>2. others' \cup ours' \subseteq others \cup ours \cup {p}
    BY <1>1, <1>2
  <2>3. \A t \in Sessions : host'[t].pids \subseteq host[t].pids
    BY <1>2
  <2>4. \A t \in Sessions : at'[t] \in Idle => host'[t] = NoHost
    BY <1>2 DEF PidInv, TreesApart, Idle
  <2> QED BY <2>1, <2>2, <2>3, <2>4, TreesKeep DEF PidInv
<1>4. ASSUME NEW t \in safe'
      PROVE  Apart(t)'
  <2>1. /\ t \in Sessions /\ Apart(t) /\ Pinned(t)' = Pinned(t)
        /\ images'[t] \in {Pinned(t)', Partial, NoSnapshot} /\ p \notin Pinned(t).pids
    BY <1>1, <1>2, <1>4, Moves
  <2>2. Spares(t, {p})
    BY <1>1, <1>2, <2>1 DEF Spares
  <2> QED BY <2>1, <2>2, ApartKeeps
<1>5. CounterInv' /\ \A t \in Sessions : Recorded(t)'
  BY <1>1, <1>2, Moves
<1> QED BY <1>3, <1>4, <1>5 DEF PidInv

LEMMA FloorPids ==
  ASSUME SnapInv, PidInv, advancePastFloor
  PROVE  PidInv'
<1>1. PICK p \in Pids : MovesTo(p, {})
  BY DEF advancePastFloor
<1>2. UNCHANGED <<entry, images, phase, record, at, host, ours, others, advance>>
  BY DEF advancePastFloor, diskVars
<1>3. TreesApart'
  BY <1>2 DEF PidInv, TreesApart
<1>4. ASSUME NEW t \in safe'
      PROVE  Apart(t)'
  <2>1. /\ t \in Sessions /\ Apart(t) /\ Pinned(t)' = Pinned(t)
        /\ images'[t] \in {Pinned(t)', Partial, NoSnapshot}
    BY <1>1, <1>2, <1>4, Moves
  <2>2. Spares(t, {})
    BY <1>2, <2>1 DEF Spares
  <2> QED BY <2>1, <2>2, ApartKeeps
<1>5. CounterInv' /\ \A t \in Sessions : Recorded(t)'
  BY <1>1, <1>2, Moves
<1> QED BY <1>3, <1>4, <1>5 DEF PidInv

LEMMA StartSessionPids ==
  ASSUME SnapInv, PidInv, NEW s \in Sessions, startSession(s)
  PROVE  PidInv'
<1>1. PICK p \in NextPids :
         MovesTo(p, {}) /\ host' = [host EXCEPT ![s] = [root |-> p, pids |-> {p}]]
  BY DEF startSession
<1>2. /\ phase = "up" /\ at[s] = "spent" /\ To(s, "hydrated")
      /\ UNCHANGED <<entry, images, phase, record, ours, others, advance>>
  BY DEF startSession
<1>3. p \in Pids /\ {p} \cap Used = {}
  BY <1>1, NextIsFree
<1>4. /\ at'[s] = "hydrated" /\ host'[s].pids = {p}
      /\ \A t \in Sessions \ {s} : host'[t] = host[t] /\ at'[t] = at[t]
  BY <1>1, <1>2, SnapTyped, GoesTo DEF Places
<1>5. TreesApart'
  <2>1. host'[s].pids \subseteq host[s].pids \cup {p} /\ at'[s] \notin Idle
    BY <1>4 DEF Idle
  <2>2. others' = others /\ ours' = ours /\ TreesApart
    BY <1>2 DEF PidInv
  <2> QED BY <1>3, <1>4, <2>1, <2>2, TreeGrows
<1>6. ASSUME NEW t \in safe'
      PROVE  Apart(t)'
  <2>1. /\ t \in Sessions /\ Apart(t) /\ Pinned(t)' = Pinned(t)
        /\ images'[t] \in {Pinned(t)', Partial, NoSnapshot} /\ p \notin Pinned(t).pids
    BY <1>1, <1>2, <1>3, <1>6, Moves
  <2>2. \A u \in Sessions : host'[u].pids \subseteq host[u].pids \cup {p}
    BY <1>4
  <2>3. Spares(t, {p})
    BY <1>2, <1>4, <2>1, <2>2 DEF Spares
  <2> QED BY <2>1, <2>3, ApartKeeps
<1>7. CounterInv' /\ \A t \in Sessions : Recorded(t)'
  BY <1>1, <1>2, <1>3, Moves
<1> QED BY <1>5, <1>6, <1>7 DEF PidInv

LEMMA ForksPids ==
  ASSUME SnapInv, PidInv, NEW s \in Sessions, Forks(s)
  PROVE  PidInv'
<1>1. PICK p \in NextPids : MovesTo(p, {p}) /\ host' = [host EXCEPT ![s].pids = @ \cup {p}]
  BY DEF Forks
<1>2. /\ host[s] # NoHost
      /\ UNCHANGED <<entry, images, phase, record, at, ours, others, advance>>
  BY DEF Forks, diskVars
<1>3. p \in Pids /\ {p} \cap Used = {}
  BY <1>1, NextIsFree
<1>4. /\ host'[s].pids = host[s].pids \cup {p}
      /\ \A t \in Sessions \ {s} : host'[t] = host[t] /\ at'[t] = at[t]
  BY <1>1, <1>2, SnapTyped DEF Trees
<1>5. TreesApart'
  <2>1. at'[s] \notin Idle
    BY <1>2 DEF PidInv, TreesApart, Idle
  <2>2. others' = others /\ ours' = ours /\ TreesApart
    BY <1>2 DEF PidInv
  <2> QED BY <1>3, <1>4, <2>1, <2>2, TreeGrows
<1>6. ASSUME NEW t \in safe'
      PROVE  Apart(t)'
  <2>1. /\ t \in Sessions /\ Apart(t) /\ Pinned(t)' = Pinned(t)
        /\ images'[t] \in {Pinned(t)', Partial, NoSnapshot} /\ p \notin Pinned(t).pids
    BY <1>1, <1>2, <1>3, <1>6, Moves
  <2>2. \A u \in Sessions : host'[u].pids \subseteq host[u].pids \cup {p}
    BY <1>4
  <2>3. Spares(t, {p})
    BY <1>2, <2>1, <2>2 DEF Spares
  <2> QED BY <2>1, <2>3, ApartKeeps
<1>7. CounterInv' /\ \A t \in Sessions : Recorded(t)'
  BY <1>1, <1>2, <1>3, Moves
<1> QED BY <1>5, <1>6, <1>7 DEF PidInv

LEMMA RestoresPids ==
  ASSUME SnapInv, PidInv, NEW s \in Sessions, Restores(s)
  PROVE  PidInv'
<1>1. PICK criu \in NextPids :
         /\ MovesTo(criu, {})
         /\ \/ /\ Restorable(s, criu) /\ To(s, "restored")
               /\ host' = [host EXCEPT ![s] = [root |-> record[s].snap.root, pids |-> record[s].snap.pids]]
            \/ To(s, "failed") /\ UNCHANGED host
  BY DEF Restores
<1>2. /\ phase = "up" /\ at[s] = "recovering"
      /\ UNCHANGED <<entry, images, phase, record, ours, others, advance>>
  BY DEF Restores, diskVars
<1>3. criu \in Pids
  BY <1>1, NextIsFree
<1>4. CounterInv' /\ \A t \in Sessions : Recorded(t)'
  BY <1>1, <1>2, <1>3, Moves
<1>5. \A t \in safe' : /\ t \in Sessions /\ Apart(t) /\ Pinned(t)' = Pinned(t)
                       /\ images'[t] \in {Pinned(t)', Partial, NoSnapshot}
  BY <1>1, <1>2, <1>3, Moves
<1>6. CASE To(s, "failed") /\ UNCHANGED host
  <2>1. at'[s] = "failed" /\ \A t \in Sessions \ {s} : at'[t] = at[t]
    BY <1>6, GoesTo DEF Places
  <2>2. TreesApart'
    BY <1>2, <1>6, <2>1 DEF PidInv, TreesApart, Idle
  <2>3. ASSUME NEW t \in safe'
        PROVE  Apart(t)'
    <3>1. Spares(t, {})
      BY <1>2, <1>5, <1>6, <2>1, <2>3 DEF Spares
    <3> QED BY <1>5, <2>3, <3>1, ApartKeeps
  <2> QED BY <1>4, <2>2, <2>3 DEF PidInv
<1>7. CASE /\ Restorable(s, criu) /\ To(s, "restored")
           /\ host' = [host EXCEPT ![s] = [root |-> record[s].snap.root, pids |-> record[s].snap.pids]]
  <2> DEFINE new == record[s].snap.pids
  <2>1. new \cap Used = {} /\ images[s] = record[s].snap
    BY <1>7 DEF Restorable
  <2>2. /\ at'[s] = "restored" /\ host'[s].pids = new
        /\ \A t \in Sessions \ {s} : host'[t] = host[t] /\ at'[t] = at[t]
    BY <1>7, SnapTyped, GoesTo DEF Places
  <2>3. TreesApart'
    <3>1. host'[s].pids \subseteq host[s].pids \cup new /\ at'[s] \notin Idle
      BY <2>2 DEF Idle
    <3>2. others' = others /\ ours' = ours /\ TreesApart
      BY <1>2 DEF PidInv
    <3> QED BY <2>1, <2>2, <3>1, <3>2, TreeGrows
  <2>4. ASSUME NEW t \in safe'
        PROVE  Apart(t)'
    <3>1. t \in Sessions /\ Apart(t)
      BY <1>5, <2>4
    <3>2. CASE t = s
      <4>1. Spares(t, {})
        BY <1>2, <1>5, <2>2, <2>4, <3>2 DEF Spares
      <4> QED BY <3>1, <4>1, ApartKeeps
    <3>3. CASE t # s
      <4>1. Pinned(t)'.pids \cap new = {}
        BY <1>5, <2>1, <2>4, <3>1, <3>3 DEF Apart
      <4>2. \A u \in Sessions : host'[u].pids \subseteq host[u].pids \cup new
        BY <2>2
      <4>3. Spares(t, new)
        BY <1>2, <1>5, <2>2, <2>4, <3>3, <4>1, <4>2 DEF Spares
      <4> QED BY <3>1, <4>3, ApartKeeps
    <3> QED BY <3>2, <3>3
  <2> QED BY <1>4, <2>3, <2>4 DEF PidInv
<1> QED BY <1>1, <1>6, <1>7

-----------------------------------------------------------------------------
(* The steps of a session and of the stop that take none.                  *)

LEMMA NotRestored ==
  ASSUME SnapInv, PidInv, NEW s \in Sessions, at[s] \in Idle
  PROVE  host[s] = NoHost
BY DEF PidInv, TreesApart, Idle

LEMMA AwayGone ==
  ASSUME SnapInv, NEW s \in Sessions, Away(s)
  PROVE  host'[s] = NoHost /\ \A t \in Sessions \ {s} : host'[t] = host[t]
BY SnapTyped DEF Away

LEMMA QuarantinedPids ==
  ASSUME SnapInv, PidInv, NEW s \in Sessions, Quarantined(s), phase = "up",
         at[s] \in {"away", "hydrated"}, StillPids,
         UNCHANGED <<phase, ours, others, images>>
  PROVE  PidInv'
<1>1. Marked(s, "quarantined") /\ To(s, "away") /\ Away(s)
      /\ entry' \in {entry, [entry EXCEPT ![s] = record'[s]]}
  BY DEF Quarantined
<1>2. /\ record' \in [Sessions -> Listing] /\ record'[s].snap = record[s].snap
      /\ \A t \in Sessions \ {s} : record'[t] = record[t]
  BY <1>1, MarkedIs DEF Statuses
<1>3. /\ entry'[s] \in {entry[s], record'[s]} /\ \A t \in Sessions \ {s} : entry'[t] = entry[t]
  BY <1>1, <1>2, ListedIs
<1>4. at'[s] = "away" /\ \A t \in Sessions \ {s} : at'[t] = at[t]
  BY <1>1, GoesTo DEF Places
<1>5. host'[s] = NoHost /\ \A t \in Sessions \ {s} : host'[t] = host[t]
  BY <1>1, AwayGone
<1>6. /\ \A t \in Sessions : record'[t].snap = record[t].snap
      /\ \A t \in Sessions : entry'[t].snap \in {entry[t].snap, record[t].snap}
  BY <1>2, <1>3
<1> QED BY <1>4, <1>5, <1>6, PidsStay

LEMMA RecoverRuntimePids ==
  ASSUME SnapInv, PidInv, NEW s \in Sessions, recoverRuntime(s)
  PROVE  PidInv'
<1>1. phase = "up" /\ at[s] = "away" /\ StillPids /\ UNCHANGED <<phase, ours, others, images>>
  BY DEF recoverRuntime, Admitted, InMemory
<1>2. CASE Quarantined(s)
  BY <1>1, <1>2, QuarantinedPids
<1>3. CASE /\ Marked(s, "recovering") /\ entry' = [entry EXCEPT ![s] = record'[s]]
           /\ To(s, IF record[s].snap = NoSnapshot THEN "spent" ELSE "recovering")
           /\ host' = host
  <2>1. /\ record' \in [Sessions -> Listing] /\ record'[s].snap = record[s].snap
        /\ \A t \in Sessions \ {s} : record'[t] = record[t]
    BY <1>3, MarkedIs DEF Statuses
  <2>2. /\ \A t \in Sessions : record'[t].snap = record[t].snap
        /\ \A t \in Sessions : entry'[t].snap \in {entry[t].snap, record[t].snap}
    BY <1>3, <2>1, SnapTyped
  <2>3. PICK place \in {"spent", "recovering"} : To(s, place)
    BY <1>3
  <2>4. at'[s] = place /\ \A t \in Sessions \ {s} : at'[t] = at[t]
    BY <2>3, GoesTo DEF Places
  <2>5. host[s] = NoHost
    BY <1>1, NotRestored DEF Idle
  <2> QED BY <1>1, <1>3, <2>2, <2>4, <2>5, PidsStay
<1> QED BY <1>2, <1>3 DEF recoverRuntime

LEMMA ComesBackPids ==
  ASSUME SnapInv, PidInv, NEW s \in Sessions, ComesBack(s)
  PROVE  PidInv'
<1>1. phase = "up" /\ at[s] = "hydrated" /\ StillPids /\ UNCHANGED <<phase, ours, others, images>>
  BY DEF ComesBack, InMemory
<1>2. CASE Quarantined(s)
  BY <1>1, <1>2, QuarantinedPids
<1>3. CASE /\ Marked(s, "live_idle") /\ entry' = [entry EXCEPT ![s] = record'[s]]
           /\ To(s, "live") /\ host' = host
  <2>1. /\ record' \in [Sessions -> Listing] /\ record'[s].snap = record[s].snap
        /\ \A t \in Sessions \ {s} : record'[t] = record[t]
    BY <1>3, MarkedIs DEF Statuses
  <2>2. /\ \A t \in Sessions : record'[t].snap = record[t].snap
        /\ \A t \in Sessions : entry'[t].snap \in {entry[t].snap, record[t].snap}
    BY <1>3, <2>1, SnapTyped
  <2>3. at'[s] \notin Idle /\ \A t \in Sessions \ {s} : at'[t] = at[t]
    BY <1>3, GoesTo DEF Places, Idle
  <2> QED BY <1>1, <1>3, <2>2, <2>3, PidsStay
<1> QED BY <1>2, <1>3 DEF ComesBack

LEMMA ResetToCheckpointPids ==
  ASSUME SnapInv, PidInv, NEW s \in Sessions, resetToCheckpoint(s)
  PROVE  PidInv'
<1>1. /\ phase = "up" /\ at[s] = "away" /\ StillPids /\ To(s, "spent")
      /\ UNCHANGED <<phase, ours, others, entry, images, record, host>>
  BY DEF resetToCheckpoint, Admitted
<1>2. at'[s] = "spent" /\ \A t \in Sessions \ {s} : at'[t] = at[t]
  BY <1>1, GoesTo DEF Places
<1>3. host[s] = NoHost
  BY <1>1, NotRestored DEF Idle
<1> QED BY <1>1, <1>2, <1>3, PidsStay

LEMMA ExecsPids ==
  ASSUME SnapInv, PidInv, NEW s \in Sessions, Execs(s)
  PROVE  PidInv'
<1>1. /\ phase = "up" /\ at[s] = "live" /\ StillPids
      /\ UNCHANGED <<phase, ours, others, entry, images, record, at, host>>
  BY DEF Execs, InMemory
<1>2. at'[s] \notin Idle
  BY <1>1 DEF Idle
<1> QED BY <1>1, <1>2, PidsStay

LEMMA SpendsPids ==
  ASSUME SnapInv, PidInv, NEW s \in Sessions, Spends(s)
  PROVE  PidInv'
<1>1. /\ phase = "up" /\ at[s] \in {"restored", "failed"} /\ StillPids
      /\ UNCHANGED <<phase, advance, ours, others, entry>>
  BY DEF Spends, InMemory
<1>2. /\ record'[s].snap = NoSnapshot /\ \A t \in Sessions \ {s} : record'[t] = record[t]
      /\ images'[s] = NoSnapshot /\ \A t \in Sessions \ {s} : images'[t] = images[t]
  BY SnapTyped DEF Spends, Listing
<1>3. PICK place \in {"hydrated", "spent"} :
         /\ To(s, place)
         /\ host' = host \/ Away(s)
         /\ place = "spent" => at[s] = "failed" \/ Away(s)
  BY DEF Spends
<1>4. at'[s] = place /\ \A t \in Sessions \ {s} : at'[t] = at[t]
  BY <1>3, GoesTo DEF Places
<1>5. /\ host'[s] \in {host[s], NoHost}
      /\ place = "spent" => host'[s] = NoHost
      /\ \A t \in Sessions \ {s} : host'[t] = host[t]
  BY <1>3, AwayGone, NotRestored DEF Idle
<1>6. TreesApart'
  <2>1. \A t \in Sessions : host'[t].pids \subseteq host[t].pids
    BY <1>5, NonePinned
  <2>2. \A t \in Sessions : at'[t] \in Idle => host'[t] = NoHost
    BY <1>4, <1>5 DEF PidInv, TreesApart, Idle
  <2>3. others' \cup ours' \subseteq others \cup ours \cup {} /\ \A t \in Sessions : host[t].pids \cap {} = {}
    BY <1>1
  <2> QED BY <2>1, <2>2, <2>3, TreesKeep DEF PidInv
<1>7. \A t \in Sessions : Recorded(t)'
  BY <1>1, <1>2 DEF PidInv, Recorded
<1>8. CounterInv'
  <2>1. Stored = {t \in Sessions : record[t].snap # NoSnapshot}
    BY StoredIs DEF Stored
  <2>2. Stored' = {t \in Sessions : record'[t].snap # NoSnapshot}
    BY StoredIs DEF Stored
  <2>3. \A t \in Stored' : t \in Stored /\ record'[t].snap = record[t].snap
    BY <1>2, <2>1, <2>2
  <2>4. \A t \in safe \cap Stored : Ahead(record[t].snap, last, since)
    BY <1>1 DEF PidInv, CounterInv
  <2> QED BY <1>1, <2>3, <2>4 DEF CounterInv, StillPids
<1>9. ASSUME NEW t \in safe'
      PROVE  Apart(t)'
  <2>1. t \in Sessions /\ Apart(t)
    BY <1>1, <1>9 DEF PidInv, StillPids, SnapInv, TypeOK
  <2>2. /\ t = s => Pinned(t)' = NoSnapshot /\ images'[t] = NoSnapshot
        /\ t # s => Pinned(t)' = Pinned(t) /\ images'[t] \in {Pinned(t)', Partial, NoSnapshot}
    BY <1>1, <1>2, <2>1 DEF Pinned, Apart
  <2>3. \A u \in Sessions : host'[u].pids \subseteq host[u].pids /\ images'[u].pids \subseteq images[u].pids
    BY <1>2, <1>5, NonePinned
  <2>4. Spares(t, {})
    BY <1>1, <1>4, <2>1, <2>2, <2>3 DEF Spares
  <2> QED BY <2>1, <2>4, ApartKeeps
<1> QED BY <1>6, <1>7, <1>8, <1>9 DEF PidInv

LEMMA SuspendsPids ==
  ASSUME SnapInv, PidInv, NEW s \in Sessions, Suspends(s)
  PROVE  PidInv'
<1>1. /\ phase = "stopping" /\ at[s] = "dumped" /\ To(s, "away") /\ Marked(s, "suspended") /\ StillPids
      /\ entry' \in {entry, [entry EXCEPT ![s] = record'[s]]}
      /\ UNCHANGED <<phase, ours, others, images, host>>
  BY DEF Suspends, InMemory
<1>2. /\ record' \in [Sessions -> Listing] /\ record'[s].snap = record[s].snap
      /\ \A t \in Sessions \ {s} : record'[t] = record[t]
  BY <1>1, MarkedIs DEF Statuses
<1>3. /\ entry'[s] \in {entry[s], record'[s]} /\ \A t \in Sessions \ {s} : entry'[t] = entry[t]
  BY <1>1, <1>2, ListedIs
<1>4. at'[s] = "away" /\ \A t \in Sessions \ {s} : at'[t] = at[t]
  BY <1>1, GoesTo DEF Places
<1>5. host[s] = NoHost
  BY <1>1, NotRestored DEF Idle
<1>6. /\ \A t \in Sessions : record'[t].snap = record[t].snap
      /\ \A t \in Sessions : entry'[t].snap \in {entry[t].snap, record[t].snap}
  BY <1>2, <1>3
<1> QED BY <1>1, <1>4, <1>5, <1>6, PidsStay

LEMMA DumpsNotPids ==
  ASSUME SnapInv, PidInv, NEW s \in Sessions, DumpsNot(s)
  PROVE  PidInv'
<1>1. /\ phase = "stopping" /\ To(s, "dumped") /\ Away(s) /\ StillPids
      /\ images' \in {images, [images EXCEPT ![s] = NoSnapshot]}
      /\ UNCHANGED <<phase, ours, others, entry, record>>
  BY DEF DumpsNot, Turn, InMemory
<1>2. \A t \in Sessions : images'[t] \in {images[t], NoSnapshot}
  BY <1>1, SnapTyped
<1>3. at'[s] = "dumped" /\ \A t \in Sessions \ {s} : at'[t] = at[t]
  BY <1>1, GoesTo DEF Places
<1>4. host'[s] = NoHost /\ \A t \in Sessions \ {s} : host'[t] = host[t]
  BY <1>1, AwayGone
<1> QED BY <1>1, <1>2, <1>3, <1>4, PidsStay

LEMMA BeginsStopPids ==
  ASSUME SnapInv, PidInv, BeginsStop
  PROVE  PidInv'
<1>1. /\ phase = "up" /\ phase' = "stopping" /\ \A t \in Sessions : at[t] \in {"away", "live"}
      /\ UNCHANGED <<entry, images, others, ours, safe, record, at, host>>
  BY DEF BeginsStop, Admitted, diskVars, pidVars
<1>2. TreesApart' /\ CounterInv' /\ \A t \in Sessions : Recorded(t)'
  BY <1>1 DEF PidInv, TreesApart, CounterInv, Recorded
<1>3. ASSUME NEW t \in safe'
      PROVE  Apart(t)'
  <2>1. t \in Sessions /\ Apart(t)
    BY <1>1, <1>3 DEF PidInv, SnapInv, TypeOK
  <2>2. Pinned(t)' = images'[t] /\ Pinned(t)' \in {Pinned(t), Partial, NoSnapshot}
    BY <1>1, <2>1 DEF Pinned, Apart
  <2>3. Spares(t, {})
    BY <1>1, <2>1, <2>2 DEF Spares
  <2> QED BY <2>1, <2>3, ApartKeeps
<1> QED BY <1>2, <1>3 DEF PidInv

LEMMA DumpsPids ==
  ASSUME SnapInv, PidInv, NEW s \in Sessions, Dumps(s)
  PROVE  PidInv'
<1>1. /\ phase = "stopping" /\ at[s] = "live" /\ To(s, "dumped") /\ Away(s)
      /\ images' = [images EXCEPT ![s] = TreeOf(s)]
      /\ safe' = IF Promised(s, safe) THEN safe \cup {s} ELSE safe \ {s}
      /\ UNCHANGED <<entry, others, ours, phase>>
  BY DEF Dumps, Turn
<1>2. images'[s] = TreeOf(s) /\ \A t \in Sessions \ {s} : images'[t] = images[t]
  BY <1>1, SnapTyped
<1>3. at'[s] = "dumped" /\ \A t \in Sessions \ {s} : at'[t] = at[t]
  BY <1>1, GoesTo DEF Places
<1>4. host'[s] = NoHost /\ \A t \in Sessions \ {s} : host'[t] = host[t]
  BY <1>1, AwayGone
<1>5. \A t \in Sessions : host'[t].pids \subseteq host[t].pids
  BY <1>4, NonePinned
<1>6. TreesApart'
  <2>1. \A t \in Sessions : at'[t] \in Idle => host'[t] = NoHost
    BY <1>3, <1>4 DEF PidInv, TreesApart, Idle
  <2>2. others' \cup ours' \subseteq others \cup ours \cup {} /\ \A t \in Sessions : host[t].pids \cap {} = {}
    BY <1>1
  <2> QED BY <1>5, <2>1, <2>2, TreesKeep DEF PidInv
<1>7. CounterInv' /\ \A t \in Sessions : Recorded(t)'
  BY <1>1 DEF CounterInv, Recorded
<1>8. TreeOf(s).pids = host[s].pids /\ TreeOf(s).root = host[s].root
  BY DEF TreeOf
<1>9. \A t \in safe : t \in Sessions /\ Apart(t) /\ Pinned(t) = images[t]
  BY <1>1 DEF PidInv, SnapInv, TypeOK, Pinned
<1>10. ASSUME NEW t \in safe', t # s
       PROVE  Apart(t)'
  <2>1. t \in safe
    BY <1>1, <1>10
  <2>2. Pinned(t)' = Pinned(t) /\ images'[t] = Pinned(t)'
    BY <1>1, <1>2, <1>9, <1>10, <2>1 DEF Pinned
  <2>3. \A u \in Sessions \ {t} : images'[u].pids \subseteq images[u].pids \cup host[u].pids
    BY <1>2, <1>8
  <2>4. Spares(t, {})
    BY <1>1, <1>5, <2>2, <2>3 DEF Spares
  <2> QED BY <1>9, <2>1, <2>4, ApartKeeps
<1>11. ASSUME s \in safe'
       PROVE  Apart(s)'
  <2>1. Promised(s, safe)
    BY <1>1, <1>11
  <2>2. Pinned(s)' = TreeOf(s)
    BY <1>1, <1>2 DEF Pinned
  <2>3. host[s].pids \cap (others \cup ours) = {} /\ \A t \in Sessions \ {s} : host[s].pids \cap host[t].pids = {}
    BY DEF PidInv, TreesApart
  <2>4. \A t \in Sessions : host[s].pids \cap host'[t].pids = {}
    BY <1>4, <2>3, NonePinned
  <2>5. ASSUME NEW t \in Sessions \ {s}
        PROVE  host[s].pids \cap images'[t].pids = {}
    <3>1. CASE t \in safe
      BY <1>1, <1>2, <1>9, <2>5, <3>1 DEF Apart
    <3>2. CASE t \notin safe
      BY <1>2, <2>1, <2>5, <3>2 DEF Promised
    <3> QED BY <3>1, <3>2
  <2>6. host[s].root > SESSION_PID_FLOOR
    BY <2>1 DEF Promised
  <2>7. images'[s] = TreeOf(s) /\ host[s].pids \cap (others' \cup ours') = {}
    BY <1>1, <1>2, <2>3
  <2> QED BY <1>8, <2>2, <2>4, <2>5, <2>6, <2>7 DEF Apart
<1> QED BY <1>6, <1>7, <1>10, <1>11 DEF PidInv

LEMMA GonePids ==
  ASSUME SnapInv, PidInv, Gone,
         images' \in {images} \cup {[images EXCEPT ![s] = Partial] : s \in Sessions}
  PROVE  PidInv'
<1>1. /\ phase' = "down" /\ ours' = {} /\ host' = [s \in Sessions |-> NoHost]
      /\ safe' = {s \in safe : entry[s].snap # NoSnapshot /\ entry[s].snap = images[s]}
      /\ UNCHANGED <<entry, others>>
  BY DEF Gone
<1>2. \A t \in Sessions : images'[t] \in {images[t], Partial}
  BY SnapTyped
<1>3. \A t \in Sessions : host'[t] = NoHost
  BY <1>1
<1>4. TreesApart' /\ CounterInv' /\ \A t \in Sessions : Recorded(t)'
  BY <1>1, <1>3, NonePinned DEF TreesApart, CounterInv, Recorded
<1>5. ASSUME NEW t \in safe'
      PROVE  Apart(t)'
  <2>1. t \in Sessions /\ Apart(t) /\ Recorded(t) /\ entry[t].snap = images[t] /\ images[t] # NoSnapshot
    BY <1>1, <1>5 DEF PidInv, SnapInv, TypeOK
  <2>2. Pinned(t) = entry[t].snap
    BY <2>1 DEF Pinned, Recorded
  <2>3. Pinned(t)' = entry[t].snap
    BY <1>1 DEF Pinned
  <2>4. Spares(t, {})
    BY <1>1, <1>2, <1>3, <2>1, <2>2, <2>3, NonePinned DEF Spares
  <2> QED BY <2>1, <2>4, ApartKeeps
<1> QED BY <1>4, <1>5 DEF PidInv

LEMMA ChangesPids ==
  ASSUME SnapInv, PidInv, phase' = phase,
         UNCHANGED <<entry, images, last, others, ours, since, safe, record, at, host, advance>>
  PROVE  PidInv'
<1>1. Stored' = Stored
  BY DEF Stored
<1>2. TreesApart' /\ CounterInv' /\ \A t \in Sessions : Recorded(t)'
  BY <1>1 DEF PidInv, TreesApart, CounterInv, Recorded
<1>3. \A t \in safe' : Apart(t)'
  BY DEF PidInv, Apart, Pinned
<1> QED BY <1>2, <1>3 DEF PidInv

-----------------------------------------------------------------------------
(* A start.                                                                *)

\* What a start reserves: the furthest of those it is near.
LEMMA ReservesFarthest ==
  ASSUME NEW from \in Pids, NEW records \in [Sessions -> Listing],
         pidReservation(from, SnapshotsOf(records)) # NoAdvance
  PROVE  LET reserved == pidReservation(from, SnapshotsOf(records)) IN
         /\ reserved.past \in Pids /\ reserved.wrapping = (reserved.past =< from)
         /\ pidsBefore(from, reserved.past) < Never
         /\ \A s \in reserved.near :
               /\ s \in Sessions /\ records[s].snap \in Snapshots
               /\ pidsBefore(from, HighestOf(records[s].snap)) =< pidsBefore(from, reserved.past)
<1> DEFINE snaps == SnapshotsOf(records)
           near == Near(from, snaps)
           needs == {Need(from, snaps[s]) : s \in near}
<1>1. /\ DOMAIN snaps \subseteq Sessions
      /\ \A s \in DOMAIN snaps : snaps[s] = records[s].snap /\ snaps[s] \in Snapshots
  <2>1. DOMAIN snaps = {s \in Sessions : records[s].snap # NoSnapshot}
    BY StoredIs
  <2>2. \A s \in DOMAIN snaps : snaps[s] = records[s].snap
    BY StoredIs
  <2>3. \A s \in Sessions : records[s].snap \in Snaps
    BY DEF Listing
  <2> HIDE DEF snaps
  <2> QED BY <2>1, <2>2, <2>3, NonePinned
<1>2. \A s \in DOMAIN snaps :
         /\ HighestOf(snaps[s]) \in Pids /\ pidsBefore(from, HighestOf(snaps[s])) \in Nat
         /\ Need(from, snaps[s]) = pidsBefore(from, HighestOf(snaps[s])) + 1
  BY <1>1, SpanIs, BeforeIs DEF Need
<1>3. near \subseteq DOMAIN snaps
  BY DEF Near
<1>4. near # {}
  BY DEF pidReservation
<1>5. needs \in SUBSET (0..PID_ADVANCE_BUDGET) /\ needs # {} /\ PID_ADVANCE_BUDGET \in Nat
  BY <1>2, <1>4, PidAssumption DEF Near
<1>6. PICK most \in needs : \A y \in needs : y =< most
  BY <1>5, MaxIs
<1>7. \E s \in near : \A t \in near : Need(from, snaps[t]) =< Need(from, snaps[s])
  BY <1>6
<1>8. PICK farthest \in near :
         /\ farthest = CHOOSE s \in near : \A t \in near : Need(from, snaps[t]) =< Need(from, snaps[s])
         /\ \A t \in near : Need(from, snaps[t]) =< Need(from, snaps[farthest])
  BY <1>7
<1> DEFINE past == HighestOf(snaps[farthest])
<1>9. pidReservation(from, snaps) = [past |-> past, wrapping |-> past =< from, near |-> near]
  BY <1>4, <1>8 DEF pidReservation
<1>10. past \in Pids /\ Need(from, snaps[farthest]) \in needs /\ Need(from, snaps[farthest]) =< PID_ADVANCE_BUDGET
  BY <1>2, <1>3, <1>5, <1>8
<1>11. pidsBefore(from, past) < Never
  BY <1>2, <1>3, <1>8, <1>10, Bounds
<1>12. ASSUME NEW s \in near
       PROVE  /\ s \in Sessions /\ records[s].snap \in Snapshots
              /\ pidsBefore(from, HighestOf(records[s].snap)) =< pidsBefore(from, past)
  <2>1. s \in DOMAIN snaps /\ farthest \in DOMAIN snaps
    BY <1>3, <1>8, <1>12
  <2>2. Need(from, snaps[s]) =< Need(from, snaps[farthest])
    BY <1>8, <1>12
  <2> HIDE DEF snaps, near
  <2> QED BY <1>1, <1>2, <2>1, <2>2
<1> HIDE DEF past, near, needs
<1> DEFINE reserved == pidReservation(from, snaps)
<1>13. reserved.past = past /\ reserved.wrapping = (past =< from) /\ reserved.near = near
  BY <1>9
<1> QED BY <1>10, <1>11, <1>12, <1>13

\* Where its helper leaves the counter, less than a round from where the start read it, is
\* past every PID as near as the one it was to move past.
LEMMA HelperPasses ==
  ASSUME SnapInv, NEW from \in Pids, NEW past \in Pids, NEW high \in Pids, NEW to \in Pids,
         NEW round \in {0, Cycle}, Moved(from, last, since), Helped(Target(past), past =< from, to, round),
         since + pidsBefore(last, to) + 1 + round < Cycle,
         pidsBefore(from, past) < Never, pidsBefore(from, high) =< pidsBefore(from, past),
         high < PidMax - 1 \/ to # PidMax - 2
  PROVE  /\ since + pidsBefore(last, to) + 1 + round = pidsBefore(from, to) + 1
         /\ pidsBefore(from, high) =< pidsBefore(from, to)
<1>1. last \in Pids /\ since \in Nat
  BY Typed, Bounds DEF SnapInv
<1>2. /\ from \in Nat /\ past \in Nat /\ high \in Nat /\ to \in Nat
      /\ from < PidMax /\ past < PidMax /\ high < PidMax /\ to < PidMax
  BY PidsAreNat
<1>3. ASSUME NEW p \in Pids, since + pidsBefore(last, p) + 1 < Cycle
      PROVE  since + pidsBefore(last, p) + 1 = pidsBefore(from, p) + 1
  <2> DEFINE moved == since + pidsBefore(last, p) + 1
  <2>1. moved \in Nat /\ pidsBefore(last, p) \in Nat /\ moved >= 1
    BY <1>1, BeforeIs
  <2>2. Moved(from, p, Min({moved, 2 * PidMax}))
    BY <1>1, MovesOn
  <2>3. Min({moved, 2 * PidMax}) = moved
    BY <1>3, <2>1, MinIs, Bounds
  <2> QED BY <1>3, <2>1, <2>2, <2>3 DEF Moved
<1>4. round = 0 /\ since + pidsBefore(last, to) + 1 = pidsBefore(from, to) + 1
  <2>1. pidsBefore(last, to) \in Nat
    BY <1>1, BeforeIs
  <2>2. round = 0
    BY <1>1, <2>1, Bounds
  <2> QED BY <1>1, <1>3, <2>1, <2>2
<1>5. pidsBefore(from, to) + 1 < Cycle /\ pidsBefore(from, to) \in Nat
  BY <1>1, <1>4, BeforeIs
<1>6. past > from \/ past >= LOWEST_WRAPPED_PID
  BY <1>2, BeforeCases, Bounds
<1>7. /\ Target(past) \in Nat /\ Target(past) >= past
      /\ past = PidMax - 1 => Target(past) = past
      /\ past # PidMax - 1 => Target(past) = past + 1
  BY <1>2, Bounds DEF Target
<1>8. ASSUME to >= past, past > from \/ to =< from
      PROVE  pidsBefore(from, past) =< pidsBefore(from, to)
  BY <1>2, <1>6, <1>8, BeforeCases, Bounds
<1>9. PICK own \in NextPids :
         IF ~(past =< from) /\ own >= Target(past) THEN to = own /\ round = 0
         ELSE \/ to = Target(past) - 1 /\ round = 0
              \/ /\ to \in Pids \ (Used \cup {own}) /\ to >= Target(past)
                 /\ round = IF past =< from /\ Target(past) =< own /\ own < to THEN Cycle ELSE 0
  BY DEF Helped
<1>10. /\ own \in Pids /\ own \in Nat /\ own < PidMax
       /\ \A q \in Pids \ Used : pidsBefore(last, own) =< pidsBefore(last, q)
  BY PidsAreNat DEF NextPids, Free
<1>11. CASE ~(past =< from) /\ own >= Target(past) /\ to = own
  BY <1>2, <1>4, <1>5, <1>7, <1>8, <1>10, <1>11, BeforeIs, Bounds
<1>12. CASE to = Target(past) - 1
  <2>1. CASE past # PidMax - 1
    <3>1. to = past
      BY <1>2, <1>7, <1>12, <2>1
    <3>2. pidsBefore(last, to) \in Nat
      BY <1>1, BeforeIs
    <3> QED BY <1>1, <1>4, <3>1, <3>2
  <2>2. CASE past = PidMax - 1
    <3>1. to = PidMax - 2 /\ high =< to
      BY <1>2, <1>7, <1>12, <2>2, Bounds
    <3>2. CASE past > from
      <4>1. from # to
        BY <1>2, <1>5, <2>2, <3>1, BeforeCases, Bounds
      <4>2. from < to
        BY <1>2, <2>2, <3>1, <3>2, <4>1, Bounds
      <4>3. high > from
        BY <1>2, <2>2, <3>1, <3>2, BeforeCases, Bounds
      <4> QED BY <1>2, <1>4, <3>1, <4>2, <4>3, BeforeCases, Bounds
    <3>3. CASE past =< from
      <4>1. from = PidMax - 1
        BY <1>2, <2>2, <3>3, Bounds
      <4>2. high >= LOWEST_WRAPPED_PID
        BY <1>2, <3>1, <4>1, BeforeCases, Bounds
      <4> QED BY <1>2, <1>4, <3>1, <4>1, <4>2, BeforeCases, Bounds
    <3> QED BY <1>2, <3>2, <3>3
  <2> QED BY <2>1, <2>2
<1>13. CASE /\ to \in Pids \ (Used \cup {own}) /\ to >= Target(past)
            /\ round = IF past =< from /\ Target(past) =< own /\ own < to THEN Cycle ELSE 0
  <2>1. to >= past
    BY <1>2, <1>7, <1>13
  <2>2. past > from \/ to =< from
    <3> SUFFICES ASSUME past =< from, to > from PROVE FALSE
      BY <1>2
    <3>1. pidsBefore(last, own) =< pidsBefore(last, to) /\ own # to
      BY <1>10, <1>13
    <3>2. pidsBefore(last, own) \in Nat /\ pidsBefore(last, to) \in Nat
      BY <1>1, <1>10, BeforeIs
    <3>3. pidsBefore(from, own) =< pidsBefore(from, to)
      BY <1>1, <1>3, <1>4, <1>5, <1>10, <3>1, <3>2, BeforeIs, Bounds
    <3>4. pidsBefore(from, to) = to - from - 1
      BY <1>2, BeforeCases
    <3>5. own > from
      BY <1>2, <1>10, <3>3, <3>4, BeforeCases, Bounds
    <3>6. pidsBefore(from, own) = own - from - 1
      BY <1>10, <3>5, BeforeCases
    <3>7. own < to /\ Target(past) =< own
      BY <1>2, <1>7, <1>10, <3>1, <3>3, <3>4, <3>5, <3>6, Bounds
    <3> QED BY <1>4, <1>13, <3>7, Bounds
  <2> QED BY <1>2, <1>4, <1>5, <1>8, <2>1, <2>2, BeforeIs
<1> QED BY <1>9, <1>11, <1>12, <1>13

\* A tree that was dumped from above the floor, and whose root has its lowest PID, is above what a
\* fresh container's server takes.
LEMMA AboveOwn ==
  ASSUME NEW snap \in Snaps, LowestOf(snap) = snap.root, snap.pids # {} => snap.root > SESSION_PID_FLOOR
  PROVE  snap.pids \cap (1..Own) = {}
<1> SUFFICES ASSUME NEW q \in snap.pids, q \in 1..Own PROVE FALSE
  OBVIOUS
<1>1. snap \in Snapshots
  BY NonePinned
<1>2. LowestOf(snap) =< q /\ snap.root \in Pids
  BY <1>1, SpanIs
<1>3. snap.root \in Nat /\ q \in Nat /\ SESSION_PID_FLOOR \in Nat /\ Own \in Nat /\ Own < SESSION_PID_FLOOR
  BY <1>2, PidsAreNat, PidAssumption
<1> QED BY <1>2, <1>3

LEMMA TakesApart ==
  ASSUME SnapInv, PidInv, phase = "down", TakesItsPids
  PROVE  /\ since' = 0 /\ safe' \subseteq safe
         /\ \E new : /\ others' \cup ours' \subseteq others \cup ours \cup new
                     /\ \A s \in safe' : entry[s].snap.pids \cap new = {}
<1>1. \A s \in safe : /\ entry[s].snap \in Snaps
                      /\ entry[s].snap.pids # {} => entry[s].snap.root > SESSION_PID_FLOOR
  BY SnapTyped DEF PidInv, Apart, Pinned, TypeOK
<1>2. CASE /\ ours' = 1..Own /\ others' = {} /\ since' = 0
           /\ safe' = {s \in safe : LowestOf(entry[s].snap) = entry[s].snap.root}
  <2>1. \A s \in safe' : entry[s].snap.pids \cap (1..Own) = {}
    BY <1>1, <1>2, AboveOwn
  <2>2. others' \cup ours' \subseteq others \cup ours \cup (1..Own)
    BY <1>2
  <2> QED BY <1>2, <2>1, <2>2
<1>3. CASE \E p \in Pids :
           LET taken == {q \in Pids : Free(q) /\ pidsBefore(last, q) =< pidsBefore(last, p)} IN
           MovesTo(p, taken) /\ ours' = taken /\ UNCHANGED others
  <2>1. PICK p \in Pids, taken \in SUBSET Pids :
           MovesTo(p, taken) /\ ours' = taken /\ UNCHANGED others
    BY <1>3
  <2>2. since' = 0
    BY <2>1 DEF MovesTo
  <2>3. safe \subseteq Sessions
    BY DEF SnapInv, TypeOK
  <2>4. safe' \subseteq safe /\ \A s \in safe' : (images[s].pids \cup entry[s].snap.pids) \cap taken = {}
    BY <2>1, <2>3, DownMoves
  <2>5. others' \cup ours' \subseteq others \cup ours \cup taken
    BY <2>1
  <2>6. \A s \in safe' : entry[s].snap.pids \cap taken = {}
    BY <2>4
  <2> QED BY <2>2, <2>4, <2>5, <2>6
<1> QED BY <1>2, <1>3 DEF TakesItsPids

LEMMA LoadsCatalogPids ==
  ASSUME SnapInv, PidInv, LoadsCatalog
  PROVE  PidInv'
<1>1. /\ phase = "down" /\ phase' = "advancing" /\ entry' = record'
      /\ record' = [s \in Sessions |-> Normalized(s)] /\ images' = Swept(record')
      /\ TakesItsPids /\ advance' = pidReservation(last', SnapshotsOf(record'))
      /\ UNCHANGED <<at, host>>
  BY DEF LoadsCatalog
<1>2. \A t \in Sessions : record'[t].snap \in {NoSnapshot, entry[t].snap}
  BY <1>1 DEF Normalized, restorableSnapshot
<1>3. \A t \in Sessions : images'[t] = IF record'[t].snap = NoSnapshot THEN NoSnapshot ELSE images[t]
  BY <1>1 DEF Swept
<1>4. PICK new : /\ others' \cup ours' \subseteq others \cup ours \cup new
                 /\ \A s \in safe' : entry[s].snap.pids \cap new = {}
  BY <1>1, TakesApart
<1>5. since' = 0 /\ safe' \subseteq safe /\ last' \in Pids
  BY <1>1, TakesApart, TakesTyped
<1>6. \A t \in Sessions : at[t] = "away" /\ host[t] = NoHost
  BY <1>1, NotRestored DEF SnapInv, PhaseInv, Idle
<1>7. TreesApart'
  BY <1>1, <1>6, NonePinned DEF TreesApart
<1>8. \A t \in Sessions : Recorded(t)'
  BY <1>1, <1>3 DEF Recorded
<1>9. CounterInv'
  <2>1. Moved(last', last', since')
    BY <1>5 DEF Moved
  <2> QED BY <1>1, <1>5, <2>1 DEF CounterInv
<1>10. ASSUME NEW t \in safe'
       PROVE  Apart(t)'
  <2>1. t \in Sessions /\ Apart(t) /\ Pinned(t) = entry[t].snap /\ Pinned(t)' = record'[t].snap
    BY <1>1, <1>5, <1>10 DEF PidInv, SnapInv, TypeOK, Pinned
  <2>2. Pinned(t)' \in {Pinned(t), NoSnapshot} /\ images'[t] \in {Pinned(t)', Partial, NoSnapshot}
    BY <1>2, <1>3, <2>1 DEF Apart
  <2>3. Pinned(t)'.pids \cap new = {}
    BY <1>4, <1>10, <2>1, <2>2, NonePinned
  <2>4. \A u \in Sessions : images'[u].pids \subseteq images[u].pids
    BY <1>3, NonePinned
  <2>5. Spares(t, new)
    BY <1>1, <1>4, <2>2, <2>3, <2>4 DEF Spares
  <2> QED BY <2>1, <2>5, ApartKeeps
<1> QED BY <1>7, <1>8, <1>9, <1>10 DEF PidInv

\* A server is up: its promises are for what the counter is past.
LEMMA UpPids ==
  ASSUME SnapInv, PidInv, phase = "advancing",
         NEW to \in Pids, NEW moved \in Nat, NEW past, UpWith(to, moved, past),
         \A s \in safe \cap past \cap Stored :
            OutOfReach(record[s].snap, moved) => Ahead(record[s].snap, to, moved)
  PROVE  PidInv'
<1>1. /\ phase' = "up" /\ last' = to /\ since' = Min({moved, 2 * PidMax})
      /\ safe' = (safe \ Stored) \cup {s \in safe \cap past : OutOfReach(record[s].snap, moved)}
      /\ UNCHANGED <<entry, images, others, ours, record, at, host>>
  BY DEF UpWith
<1>2. record = entry
  BY DEF SnapInv, PhaseInv
<1>3. TreesApart' /\ \A t \in Sessions : Recorded(t)'
  BY <1>1 DEF PidInv, TreesApart, Recorded
<1>4. Stored' = Stored
  BY <1>1 DEF Stored
<1>5. ASSUME NEW s \in safe' \cap Stored
      PROVE  Ahead(record[s].snap, last', since')
  <2>1. s \in safe \cap past \cap Stored /\ OutOfReach(record[s].snap, moved)
    BY <1>1, <1>5
  <2>2. s \in Sessions /\ record[s].snap \in Snapshots
    BY <2>1, SnapTyped, StoredIs, NonePinned DEF Stored
  <2>3. since' = moved
    BY <1>1, <2>1, <2>2, ReachCounts
  <2> QED BY <1>1, <2>1, <2>3
<1>6. CounterInv'
  BY <1>1, <1>4, <1>5 DEF CounterInv
<1>7. ASSUME NEW t \in safe'
      PROVE  Apart(t)'
  <2>1. t \in Sessions /\ Apart(t)
    BY <1>1, <1>7 DEF PidInv, SnapInv, TypeOK
  <2>2. Pinned(t)' = Pinned(t) /\ images'[t] \in {Pinned(t)', Partial, NoSnapshot}
    BY <1>1, <1>2, <2>1 DEF Pinned, Apart
  <2>3. Spares(t, {})
    BY <1>1, <2>2 DEF Spares
  <2> QED BY <2>1, <2>3, ApartKeeps
<1> QED BY <1>3, <1>6, <1>7 DEF PidInv

LEMMA AdvancesPids ==
  ASSUME SnapInv, PidInv, Advances
  PROVE  PidInv'
<1>1. PICK to \in Pids, round \in {0, Cycle} :
         /\ Helped(Target(advance.past), advance.wrapping, to, round)
         /\ UpWith(to, since + pidsBefore(last, to) + 1 + round, HandedOut(to))
  BY DEF Advances
<1>2. phase = "advancing" /\ advance # NoAdvance
  BY DEF Advances
<1>3. last \in Pids /\ since \in Nat /\ record \in [Sessions -> Listing]
  BY Typed, Bounds DEF SnapInv
<1> DEFINE moved == since + pidsBefore(last, to) + 1 + round
<1>4. moved \in Nat
  BY <1>3, BeforeIs, Bounds
<1>5. PICK from \in Pids : /\ advance = pidReservation(from, SnapshotsOf(record))
                           /\ Stored # {} => Moved(from, last, since)
  BY <1>2 DEF PidInv, CounterInv
<1>6. /\ advance.past \in Pids /\ advance.wrapping = (advance.past =< from)
      /\ pidsBefore(from, advance.past) < Never
      /\ \A s \in advance.near :
            /\ s \in Sessions /\ record[s].snap \in Snapshots
            /\ pidsBefore(from, HighestOf(record[s].snap)) =< pidsBefore(from, advance.past)
  BY <1>2, <1>3, <1>5, ReservesFarthest
<1>7. ASSUME NEW s \in safe \cap HandedOut(to) \cap Stored, OutOfReach(record[s].snap, moved)
      PROVE  Ahead(record[s].snap, to, moved)
  <2> DEFINE snap == record[s].snap
             high == HighestOf(snap)
  <2>1. s \in advance.near /\ (high < PidMax - 1 \/ to # PidMax - 2)
    BY <1>7 DEF HandedOut
  <2>2. snap \in Snapshots /\ pidsBefore(from, high) =< pidsBefore(from, advance.past)
    BY <1>6, <2>1
  <2>3. high \in Pids /\ Span(snap) \in Nat /\ snap.pids \subseteq Pids
    BY <2>2, SpanIs
  <2>4. moved + Span(snap) < Cycle
    BY <1>7 DEF OutOfReach
  <2>5. moved < Cycle
    BY <1>4, <2>3, <2>4, Bounds
  <2>6. Moved(from, last, since)
    BY <1>5, <1>7
  <2>7. Helped(Target(advance.past), advance.past =< from, to, round)
    BY <1>1, <1>6
  <2>8. moved = pidsBefore(from, to) + 1 /\ pidsBefore(from, high) =< pidsBefore(from, to)
    <3> HIDE DEF snap, high
    <3> QED BY <1>6, <2>1, <2>2, <2>3, <2>5, <2>6, <2>7, HelperPasses
  <2>9. ASSUME NEW q \in snap.pids
        PROVE  pidsBefore(to, q) + moved + Span(snap) + 1 >= Cycle
    <3>1. q \in Pids /\ q =< high /\ high =< q + Span(snap)
      BY <2>2, <2>9, SpanIs
    <3>2. pidsBefore(from, to) + 1 + Span(snap) < Cycle
      BY <2>4, <2>8
    <3>3. pidsBefore(to, q) + pidsBefore(from, to) + 1 + Span(snap) + 1 >= Cycle
      <4> HIDE DEF snap, high
      <4> QED BY <2>3, <2>8, <3>1, <3>2, PastIsAhead
    <3>4. pidsBefore(to, q) \in Nat /\ pidsBefore(from, to) \in Nat
      BY <3>1, BeforeIs
    <3> HIDE DEF moved, snap
    <3> QED BY <2>3, <2>8, <3>3, <3>4, Bounds
  <2> HIDE DEF moved
  <2> QED BY <2>9 DEF Ahead
<1> HIDE DEF moved
<1>8. UpWith(to, moved, HandedOut(to))
  BY <1>1 DEF moved
<1> QED BY <1>2, <1>4, <1>7, <1>8, UpPids

LEMMA StartPids ==
  ASSUME SnapInv, PidInv, Start
  PROVE  PidInv'
<1>1. CASE ReservesNothing
  <2>1. phase = "advancing" /\ UpWith(last, 0, {}) /\ last \in Pids
    BY <1>1, Typed DEF ReservesNothing, SnapInv
  <2> QED BY <2>1, UpPids
<1> QED BY <1>1, LoadsCatalogPids, AdvancesPids DEF Start

LEMMA PidsStart ==
  Init => PidInv
<1> SUFFICES ASSUME Init PROVE PidInv
  OBVIOUS
<1>1. TreesApart
  BY NonePinned DEF Init, TreesApart
<1> QED BY <1>1 DEF Init, PidInv, CounterInv, Recorded

LEMMA PidsStep ==
  SnapInv /\ PidInv /\ [Next]_vars => PidInv'
<1> SUFFICES ASSUME SnapInv, PidInv, [Next]_vars PROVE PidInv'
  OBVIOUS
<1>1. CASE Start
  BY <1>1, StartPids
<1>2. ASSUME NEW s \in Sessions, Session(s)
      PROVE  PidInv'
  BY <1>2, RecoverRuntimePids, RestoresPids, SpendsPids, StartSessionPids, ComesBackPids,
     ResetToCheckpointPids, ForksPids, ExecsPids DEF Session
<1>3. CASE advancePastFloor
  BY <1>3, FloorPids
<1>4. CASE Stop
  <2>1. CASE Stops
    BY <2>1, GonePids DEF Stops
  <2> QED BY <1>4, <2>1, BeginsStopPids, DumpsPids, DumpsNotPids, SuspendsPids DEF Stop
<1>5. CASE Killed
  BY <1>5, GonePids DEF Killed, Underway
<1>6. CASE Changes
  BY <1>6, ChangesPids DEF Changes, pidVars
<1>7. CASE UNCHANGED vars
  BY <1>7, ChangesPids DEF vars, diskVars, pidVars
<1> QED BY <1>1, <1>2, <1>3, <1>4, <1>5, <1>6, <1>7, OthersMovePids DEF Next, Done

\* Until the counter has gone round, no process that started since a snapshot was promised its PIDs
\* holds one of them, whatever sessions started, restored, forked or were dumped meanwhile, in however
\* many servers, and however their starts' helpers moved the counter; and what its processes map is in
\* its session's scratch directory as long as its images are there.
THEOREM RestoresFind == Spec => []RestoresFindTheirs
<1>1. SnapInv /\ PidInv => RestoresFindTheirs
  <2> SUFFICES ASSUME SnapInv, PidInv, phase = "up", NEW s \in Stored, at[s] \in {"away", "recovering"}
               PROVE  /\ s \in safe => record[s].snap.pids \cap Used = {}
                      /\ images[s] = record[s].snap => scratch[s]
    BY DEF RestoresFindTheirs
  <2>1. s \in Sessions /\ record[s].snap # NoSnapshot
    BY StoredIs DEF Stored
  <2>2. images[s] = record[s].snap => scratch[s]
    BY <2>1 DEF SnapInv, SessionOk, WorkOk, Named
  <2>3. ASSUME s \in safe PROVE record[s].snap.pids \cap Used = {}
    <3>1. Apart(s) /\ Pinned(s) = record[s].snap
      BY <2>3 DEF PidInv, Pinned
    <3>2. /\ record[s].snap.pids \cap (others \cup ours) = {}
          /\ \A t \in Sessions : record[s].snap.pids \cap host[t].pids = {}
      BY <3>1 DEF Apart
    <3> QED BY <3>2 DEF Used
  <2> QED BY <2>2, <2>3
<1> QED BY <1>1, SnapStarts, SnapSteps, PidsStart, PidsStep, PTL DEF Spec

=============================================================================
