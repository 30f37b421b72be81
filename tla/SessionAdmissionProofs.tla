----------------------- MODULE SessionAdmissionProofs -----------------------
(***************************************************************************)
(* Proofs about SessionAdmission, for any clients, sessions and calls, and *)
(* however hosts end: the sessions' hosts are never more than maxSessions, *)
(* an eviction takes no exec, and a live client keeps its lease.           *)
(***************************************************************************)
EXTENDS SessionAdmission, FiniteSetTheorems, SequenceTheorems,
        WellFoundedInduction, TLAPS

\* A queue nobody waits in twice, and who is its first.
Once(q) == \A i, j \in 1..Len(q) : q[i] = q[j] => i = j
First(q, c) == q # <<>> /\ Head(q) = c

\* Where a call has its session's lock or waits for it, and where it has it.
Locked == {"lock", "room", "evict", "ending", "saved", "stopping", "starting", "prompting"}
Owned == Locked \ {"lock"}
AtWork == {"saved", "stopping", "starting", "prompting"}
MakingRoom == {"room", "evict", "ending"}

\* A call is in the admission line while it is of the kind, and in the line of each
\* session it has the lock of or waits for, in no other; it goes on only as the first.
InLines(c) ==
    /\ c \in Range(line) <=> calls[c].kind \in Admitted
    /\ \A s \in Ids : c \in Range(tail[s]) <=>
          \/ calls[c].on = s /\ calls[c].at \in Locked
          \/ calls[c].victim = s /\ calls[c].at \in {"evict", "ending"}
Leads(c) ==
    /\ calls[c].kind \in Admitted /\ calls[c].at # "line" => First(line, c)
    /\ \A s \in Ids : calls[c].on = s /\ calls[c].at \in Owned => First(tail[s], c)
    /\ \A s \in Ids : calls[c].victim = s /\ calls[c].at = "ending" => First(tail[s], c)

\* What a call of each kind may be doing, and of which session.
Sensible(c) ==
    /\ calls[c].at \in MakingRoom \cup {"line"} => calls[c].kind \in Admitted
    /\ calls[c].at \in {"evict", "ending"} <=> calls[c].victim # None
    /\ calls[c].victim # None => calls[c].victim # calls[c].on
    /\ calls[c].kind = "create" =>
          /\ calls[c].at \in MakingRoom \cup {"line", "starting", "prompting"}
          /\ calls[c].on = None <=> calls[c].at \in MakingRoom \cup {"line"}
    /\ calls[c].kind \notin {"none", "create"} => calls[c].on # None
    /\ calls[c].at = "window" => calls[c].kind = "attach"
    /\ calls[c].at = "saved" => calls[c].kind = "memory"
    /\ calls[c].at = "stopping" => calls[c].kind \in Restarts \cup {"reset", "interrupt", "close"}
    /\ calls[c].at \in {"starting", "prompting"} =>
          calls[c].kind \in Admitted \cup Restarts \cup {"interrupt"}
    /\ calls[c].on =< created /\ calls[c].victim =< created
    /\ calls[c].kind = "release" => calls[c].on \notin calls[c].rest

LockInv ==
    /\ Once(line) /\ \A s \in Ids : Once(tail[s])
    /\ \A c \in Calls : InLines(c) /\ Leads(c) /\ Sensible(c)

\* A session as the call finds it that has its lock.
Finds(c) ==
    /\ calls[c].at \in MakingRoom /\ calls[c].on # None => ~sessions[calls[c].on].runtime
    /\ calls[c].at \in MakingRoom \cup AtWork /\ calls[c].on # None /\ calls[c].kind # "close"
          => sessions[calls[c].on].status # "closed"
    /\ calls[c].at = "prompting" => ~sessions[calls[c].on].killed
    /\ stop.at \in {"no", "line"} /\ calls[c].kind # "close"
       /\ calls[c].at \in {"saved", "stopping", "prompting"}
          => sessions[calls[c].on].runtime
    /\ calls[c].at = "ending" =>
          /\ sessions[calls[c].victim].status = "live_idle"
          /\ \/ sessions[calls[c].victim].queue = 0
             \/ sessions[calls[c].victim].waits \/ Stopping
    /\ calls[c].kind = "release" => calls[c].actor \in Actors /\ actors[calls[c].actor] = "gone"

\* An idle session has an exec queued only as its host is started again, or is to be,
\* or as its drain loop waits out a save; one whose host was killed is not idle, and one that is closed has none.
Waiting(s) == /\ sessions[s].status = "live_idle" /\ sessions[s].runtime
              /\ sessions[s].queue > 0 /\ ~sessions[s].waits /\ ~Stopping
StartsAgain(s) == \E c \in Calls : /\ First(tail[s], c) /\ calls[c].on = s
                                   /\ \/ calls[c].at \in AtWork
                                      \/ calls[c].at = "lock" /\ calls[c].kind = "budget"
EntryInv(s) ==
    /\ sessions[s].status = "closed" => ~sessions[s].runtime
    /\ sessions[s].killed => sessions[s].status \notin {"live_idle", "live_busy"}
    /\ Waiting(s) => StartsAgain(s)
    /\ s > created => sessions[s] = Absent
HoldInv == (\A c \in Calls : Finds(c)) /\ \A s \in Ids : EntryInv(s)

\* Calls have their records in order, and each session to be created its own.
Pending == {c \in Calls : calls[c].kind = "create" /\ calls[c].on = None}
CountInv ==
    /\ \A c \in Calls : (c > asked /\ c =< MaxAsks) \/ c > MaxAsks + restarts => calls[c] = NoCall
    /\ created + Cardinality(Pending) =< MaxIds

\* The shutdown goes on only as nobody is in the admission line, nor, where the kernel
\* kills no host as late, in a session's.
StopInv ==
    /\ stop.at \notin {"no", "line"} => line = <<>>
    /\ stop.now # None => stop.at = "loop"
    /\ ~LateKills /\ stop.at = "locks" => InTails \subseteq stop.awaits
    /\ ~LateKills /\ stop.at \in {"loop", "hosts", "ended"} => InTails = {}

\* The sessions with a host, or whose call ends or starts one.
HostsOrWorked ==
    {s \in Ids : \/ sessions[s].runtime
                 \/ \E c \in Calls : /\ calls[c].on = s /\ calls[c].at \in AtWork
                                     /\ calls[c].kind # "close"}
BookInv == ~opened => Cardinality(HostsOrWorked) =< MaxSessions

AdmissionInv == TypeOK /\ LockInv /\ HoldInv /\ CountInv /\ StopInv /\ BookInv

-----------------------------------------------------------------------------
(* Queues.                                                                 *)

LEMMA FirstIsIn ==
  ASSUME NEW S, NEW q \in Seq(S), NEW c, First(q, c)
  PROVE  c \in Range(q) /\ c \in S
<1>1. Len(q) \in Nat \ {0} /\ DOMAIN q = 1..Len(q) /\ Head(q) = q[1]
  <2>1. q # <<>> /\ Len(q) \in Nat /\ DOMAIN q = 1..Len(q)
    BY LenProperties DEF First
  <2>2. Len(q) # 0 /\ Head(q) = q[1]
    BY <2>1
  <2> QED BY <2>1, <2>2
<1>2. 1 \in 1..Len(q) /\ q[1] = c
  BY <1>1 DEF First
<1> QED BY <1>1, <1>2 DEF Range

LEMMA EmptyHasNone == Once(<<>>) /\ Range(<<>>) = {} /\ \A c : ~First(<<>>, c)
BY DEF Once, Range, First

LEMMA NobodyIsEmpty ==
  ASSUME NEW S, NEW q \in Seq(S), Range(q) = {}
  PROVE  q = <<>>
<1> SUFFICES ASSUME q # <<>> PROVE FALSE
  OBVIOUS
<1>1. First(q, Head(q))
  BY DEF First
<1> QED BY <1>1, FirstIsIn

LEMMA HasFirst ==
  ASSUME NEW S, NEW q \in Seq(S), q # <<>>
  PROVE  Head(q) \in S /\ Head(q) \in Range(q) /\ First(q, Head(q))
<1>1. First(q, Head(q))
  BY DEF First
<1> QED BY <1>1, FirstIsIn

\* Who comes last.
LEMMA Joins ==
  ASSUME NEW S, NEW q \in Seq(S), Once(q), NEW c \in S, c \notin Range(q)
  PROVE  /\ Append(q, c) \in Seq(S) /\ Once(Append(q, c))
         /\ Range(Append(q, c)) = Range(q) \cup {c}
         /\ \A d : First(q, d) => First(Append(q, c), d)
         /\ q = <<>> => First(Append(q, c), c)
<1> DEFINE r == Append(q, c)
<1>1. /\ r \in Seq(S) /\ Len(q) \in Nat /\ Len(r) = Len(q) + 1 /\ r # <<>>
      /\ \A i \in 1..Len(q) : r[i] = q[i]
      /\ r[Len(q) + 1] = c /\ DOMAIN r = 1..Len(q) + 1 /\ DOMAIN q = 1..Len(q)
  OBVIOUS
<1>2. \A i \in 1..Len(q) : q[i] # c
  BY <1>1 DEF Range
<1>3. Once(r)
  BY <1>1, <1>2 DEF Once
<1>4. Range(r) = Range(q) \cup {c}
  <2>1. ASSUME NEW x \in Range(r) PROVE x \in Range(q) \cup {c}
    BY <1>1 DEF Range
  <2>2. ASSUME NEW x \in Range(q) PROVE x \in Range(r)
    BY <1>1 DEF Range
  <2>3. c \in Range(r)
    BY <1>1 DEF Range
  <2> QED BY <2>1, <2>2, <2>3
<1>5. \A d : First(q, d) => First(r, d)
  <2> SUFFICES ASSUME q # <<>> PROVE Head(r) = Head(q)
    BY <1>1 DEF First
  <2>1. Len(q) # 0 /\ Head(r) = r[1] /\ Head(q) = q[1]
    BY <1>1
  <2> QED BY <2>1, <1>1
<1>6. q = <<>> => First(r, c)
  BY <1>1 DEF First
<1> QED BY <1>1, <1>3, <1>4, <1>5, <1>6

\* Who was first leaves.
LEMMA Leaves ==
  ASSUME NEW S, NEW q \in Seq(S), Once(q), NEW c, First(q, c)
  PROVE  /\ Tail(q) \in Seq(S) /\ Once(Tail(q)) /\ Range(Tail(q)) = Range(q) \ {c}
         /\ \A d : First(q, d) => d = c
<1> DEFINE r == Tail(q)
<1>1. /\ r \in Seq(S) /\ Len(q) \in Nat \ {0} /\ Len(r) = Len(q) - 1
      /\ \A i \in 1..Len(r) : r[i] = q[i + 1]
      /\ DOMAIN r = 1..Len(r) /\ DOMAIN q = 1..Len(q) /\ q[1] = c
  BY HeadTailProperties, EmptySeq DEF First
<1>2. Once(r)
  BY <1>1 DEF Once
<1>3. ASSUME NEW x \in Range(r) PROVE x \in Range(q) \ {c}
  <2>1. PICK i \in 1..Len(r) : x = r[i]
    BY <1>1, <1>3 DEF Range
  <2>2. i + 1 \in 1..Len(q) /\ x = q[i + 1] /\ i + 1 # 1 /\ 1 \in 1..Len(q)
    BY <2>1, <1>1
  <2> QED BY <2>2, <1>1 DEF Range, Once
<1>4. ASSUME NEW x \in Range(q), x # c PROVE x \in Range(r)
  <2>1. PICK i \in 1..Len(q) : x = q[i]
    BY <1>1 DEF Range
  <2>2. i - 1 \in 1..Len(r) /\ r[i - 1] = q[i - 1 + 1] /\ i - 1 + 1 = i
    BY <2>1, <1>1, <1>4
  <2> QED BY <2>1, <2>2, <1>1 DEF Range
<1>5. \A d : First(q, d) => d = c
  BY DEF First
<1> QED BY <1>1, <1>2, <1>3, <1>4, <1>5

\* What `c` does to a queue has nothing to do with the others' being in it, and
\* takes nobody's turn.
OnlyMoves(c, q, r) ==
    /\ r \in Seq(Calls) /\ Once(r)
    /\ \A d \in Calls \ {c} : /\ d \in Range(r) <=> d \in Range(q)
                              /\ First(q, d) => First(r, d)

LEMMA StaysPut ==
  ASSUME NEW q \in Seq(Calls), Once(q), NEW c
  PROVE  OnlyMoves(c, q, q)
BY DEF OnlyMoves

LEMMA JoinMoves ==
  ASSUME NEW q \in Seq(Calls), Once(q), NEW c \in Calls, c \notin Range(q)
  PROVE  OnlyMoves(c, q, Append(q, c)) /\ c \in Range(Append(q, c))
BY Joins DEF OnlyMoves

LEMMA LeaveMoves ==
  ASSUME NEW q \in Seq(Calls), Once(q), NEW c \in Calls, First(q, c)
  PROVE  OnlyMoves(c, q, Tail(q)) /\ c \notin Range(Tail(q))
BY Leaves DEF OnlyMoves

LEMMA OffMoves ==
  ASSUME NEW q \in Seq(Calls), Once(q), NEW c \in Calls, c \in Range(q) => First(q, c)
  PROVE  OnlyMoves(c, q, Off(q, c)) /\ c \notin Range(Off(q, c))
<1>1. CASE First(q, c)
  BY <1>1, LeaveMoves DEF Off, First
<1>2. CASE ~First(q, c)
  BY <1>2, StaysPut DEF Off, First
<1> QED BY <1>1, <1>2

\* The least of some sessions is one of them.
LEMMA MinIsOne ==
  ASSUME NEW S, S \subseteq Nat, S # {}
  PROVE  Min(S) \in S
<1>1. \E x \in S : \A y \in S : ~(<<y, x>> \in OpToRel(<, Nat))
  BY NatLessThanWellFounded, WFMin
<1>2. PICK x \in S : \A y \in S : ~(<<y, x>> \in OpToRel(<, Nat))
  BY <1>1
<1>3. \A y \in S : y \in Nat /\ x \in Nat /\ ~(y < x)
  BY <1>2 DEF OpToRel
<1>4. \A y \in S : x =< y
  BY <1>3
<1> QED BY <1>4 DEF Min

-----------------------------------------------------------------------------
(* What keeps the parts of the invariant.                                  *)

\* Nobody but `c` has the session's lock.
Free(s, c) ==
    \A d \in Calls \ {c} : /\ ~(calls[d].on = s /\ calls[d].at \in Owned)
                           /\ ~(calls[d].victim = s /\ calls[d].at = "ending")

LEMMA TurnIsFree ==
  ASSUME LockInv, NEW s \in Ids, NEW c, First(tail[s], c)
  PROVE  Free(s, c)
BY DEF LockInv, Leads, Free, First

LEMMA RunningIsFree ==
  ASSUME TypeOK, LockInv, HoldInv, NEW s \in Ids, sessions[s].runtime, ~Working(s), NEW c
  PROVE  Free(s, c)
<1> SUFFICES ASSUME NEW d \in Calls
             PROVE  /\ ~(calls[d].on = s /\ calls[d].at \in Owned)
                    /\ ~(calls[d].victim = s /\ calls[d].at = "ending")
  BY DEF Free
<1>1. ~(calls[d].victim = s /\ calls[d].at = "ending")
  BY DEF Working
<1>2. ~(calls[d].on = s /\ calls[d].at \in AtWork)
  BY DEF Working, AtWork
<1>3. ~(calls[d].on = s /\ calls[d].at \in MakingRoom)
  BY DEF HoldInv, Finds, Ids, None
<1> QED BY <1>1, <1>2, <1>3 DEF Owned, Locked, AtWork, MakingRoom

\* A call and a session change, and the others as what befalls the queues has it.
Moves(c, s) ==
    /\ \A d \in Calls \ {c} : calls'[d] = calls[d]
    /\ \A t \in Ids \ {s} : sessions'[t] = sessions[t]
    /\ OnlyMoves(c, line, line')
    /\ \A t \in Ids : OnlyMoves(c, tail[t], tail'[t])
    /\ s \in Ids /\ sessions'[s] # sessions[s] => Free(s, c)
    /\ created =< created'

LEMMA LocksKeep ==
  ASSUME TypeOK, TypeOK', LockInv, NEW c, NEW s, Moves(c, s),
         c \in Calls => InLines(c)' /\ Leads(c)' /\ Sensible(c)'
  PROVE  LockInv'
<1>1. Once(line') /\ \A t \in Ids : Once(tail'[t])
  BY DEF Moves, OnlyMoves
<1>2. ASSUME NEW d \in Calls, d # c PROVE InLines(d)'
  BY <1>2 DEF LockInv, InLines, Moves, OnlyMoves
<1>3. ASSUME NEW d \in Calls, d # c PROVE Leads(d)'
  BY <1>3 DEF LockInv, Leads, Moves, OnlyMoves
<1>4. ASSUME NEW d \in Calls, d # c PROVE Sensible(d)'
  <2>1. calls'[d] = calls[d] /\ Sensible(d) /\ created =< created'
    BY <1>4 DEF LockInv, Moves
  <2>2. calls[d].on \in Nat /\ calls[d].victim \in Nat /\ created \in Nat /\ created' \in Nat
    <3>1. calls[d].on \in {None} \cup Ids /\ calls[d].victim \in {None} \cup Ids
      BY DEF TypeOK, CallRecords, NoCall
    <3>2. created \in 0..MaxIds /\ created' \in 0..MaxIds
      BY DEF TypeOK
    <3> QED BY <3>1, <3>2, AdmissionAssumption DEF Ids, None
  <2>3. calls'[d].on =< created' /\ calls'[d].victim =< created'
    BY <2>1, <2>2 DEF Sensible
  <2> QED BY <2>1, <2>3 DEF Sensible
<1> QED BY <1>1, <1>2, <1>3, <1>4 DEF LockInv

LEMMA OnIsOne ==
  ASSUME TypeOK, LockInv, NEW c \in Calls
  PROVE  /\ calls[c].at \in {"lock", "window"} \cup AtWork => calls[c].on \in Ids
         /\ calls[c].at \in {"evict", "ending"} => calls[c].victim \in Ids
         /\ calls[c].on # None => calls[c].on \in Ids
         /\ calls[c].on \in {None} \cup Ids /\ calls[c].victim \in {None} \cup Ids
         /\ calls[c].kind = "none" => calls[c] = NoCall
<1>1. calls[c] = NoCall \/ calls[c].kind \in Admitted \cup Held \cup Restarts
  BY DEF TypeOK, CallRecords
<1>2. calls[c].on \in {None} \cup Ids /\ calls[c].victim \in {None} \cup Ids
  BY DEF TypeOK, CallRecords, NoCall
<1>3. calls[c] = NoCall => calls[c].at = "none" /\ calls[c].kind = "none"
  BY DEF NoCall
<1>4. Sensible(c)
  BY DEF LockInv
<1> QED BY <1>1, <1>2, <1>3, <1>4 DEF Sensible, AtWork, MakingRoom, Admitted, Held, Restarts

LEMMA FindsKeep ==
  ASSUME TypeOK, LockInv, HoldInv, NEW c, NEW s, Moves(c, s),
         Stopping => Stopping', stop'.at \in {"no", "line"} => stop.at \in {"no", "line"},
         \A a \in Actors : actors[a] = "gone" => actors'[a] = "gone",
         c \in Calls => Finds(c)'
  PROVE  \A d \in Calls : Finds(d)'
<1> SUFFICES ASSUME NEW d \in Calls, d # c PROVE Finds(d)'
  OBVIOUS
<1>1. calls'[d] = calls[d] /\ Finds(d)
  BY DEF Moves, HoldInv
<1>2. calls[d].on \in Ids /\ calls[d].at \in Owned => sessions'[calls[d].on] = sessions[calls[d].on]
  BY DEF Moves, Free
<1>3. calls[d].at = "ending" => sessions'[calls[d].victim] = sessions[calls[d].victim]
  BY OnIsOne DEF Moves, Free
<1>4. calls[d].at \in AtWork => calls[d].on \in Ids
  BY OnIsOne
<1>5. calls[d].on # None => calls[d].on \in Ids
  BY OnIsOne
<1> QED BY <1>1, <1>2, <1>3, <1>4, <1>5 DEF Finds, AtWork, MakingRoom, Owned, Locked

LEMMA EntriesKeep ==
  ASSUME TypeOK, TypeOK', LockInv, HoldInv, NEW c, NEW s, Moves(c, s),
         Stopping => Stopping', s \in Ids => EntryInv(s)',
         \A t \in Ids \ {s} : Waiting(t) /\ First(tail[t], c) => StartsAgain(t)'
  PROVE  \A t \in Ids : EntryInv(t)'
<1> SUFFICES ASSUME NEW t \in Ids, t # s PROVE EntryInv(t)'
  OBVIOUS
<1>1. sessions'[t] = sessions[t] /\ EntryInv(t)
  BY DEF Moves, HoldInv
<1>2. t > created' => t > created
  BY DEF Moves, TypeOK, Ids
<1>3. ASSUME Waiting(t)' PROVE StartsAgain(t)'
  <2>1. Waiting(t)
    BY <1>1, <1>3 DEF Waiting
  <2>2. PICK d \in Calls : /\ First(tail[t], d) /\ calls[d].on = t
                           /\ \/ calls[d].at \in AtWork
                              \/ calls[d].at = "lock" /\ calls[d].kind = "budget"
    BY <2>1, <1>1 DEF EntryInv, StartsAgain
  <2>3. CASE d = c
    BY <2>1, <2>2, <2>3
  <2>4. CASE d # c
    <3>1. First(tail'[t], d) /\ calls'[d] = calls[d]
      BY <2>2, <2>4 DEF Moves, OnlyMoves
    <3> QED BY <2>2, <3>1 DEF StartsAgain
  <2> QED BY <2>3, <2>4
<1> QED BY <1>1, <1>2, <1>3 DEF EntryInv

LEMMA StopKeeps ==
  ASSUME TypeOK, TypeOK', StopInv, NEW c, NEW s, Moves(c, s), stop' = stop,
         \/ stop.at \in {"no", "line"}
         \/ /\ c \in Range(line') => c \in Range(line)
            /\ LateKills \/ (c \in InTails' => c \in InTails)
  PROVE  StopInv'
<1>1. CASE stop.at \in {"no", "line"}
  BY <1>1 DEF StopInv
<1>2. CASE /\ stop.at \notin {"no", "line"}
           /\ c \in Range(line') => c \in Range(line)
           /\ LateKills \/ (c \in InTails' => c \in InTails)
  <2>1. line' = <<>>
    <3>1. line' \in Seq(Calls) /\ line = <<>>
      BY <1>2 DEF TypeOK, StopInv
    <3>2. \A x \in Range(line') : x \in Range(line)
      <4> SUFFICES ASSUME NEW x \in Range(line'), x # c PROVE x \in Range(line)
        BY <1>2
      <4>1. x \in Calls
        BY <3>1, LenProperties, ElementOfSeq DEF Range
      <4> QED BY <4>1 DEF Moves, OnlyMoves
    <3> QED BY <3>1, <3>2, EmptyHasNone, NobodyIsEmpty
  <2>2. ~LateKills => InTails' \subseteq InTails
    <3> SUFFICES ASSUME ~LateKills, NEW x \in InTails', x # c PROVE x \in InTails
      BY <1>2
    <3>1. PICK t \in Ids : x \in Range(tail'[t])
      BY DEF InTails
    <3>2. tail'[t] \in Seq(Calls)
      BY DEF TypeOK
    <3>3. x \in Calls
      BY <3>1, <3>2, LenProperties, ElementOfSeq DEF Range
    <3>4. x \in Range(tail[t])
      BY <3>1, <3>3 DEF Moves, OnlyMoves
    <3> QED BY <3>4 DEF InTails
  <2> QED BY <2>1, <2>2 DEF StopInv
<1> QED BY <1>1, <1>2

LEMMA IdsFinite == IsFiniteSet(Ids) /\ \A S \in SUBSET Ids : IsFiniteSet(S) /\ Cardinality(S) \in Nat
<1>1. 1 \in Int /\ MaxIds \in Int
  BY AdmissionAssumption
<1>2. IsFiniteSet(Ids)
  BY <1>1, FS_Interval DEF Ids
<1> QED BY <1>2, FS_Subset, FS_CardinalityType

LEMMA CallsFinite == IsFiniteSet(Calls) /\ \A S \in SUBSET Calls : IsFiniteSet(S) /\ Cardinality(S) \in Nat
<1>1. 1 \in Int /\ MaxAsks + MaxRestarts \in Int
  BY AdmissionAssumption
<1>2. IsFiniteSet(Calls)
  BY <1>1, FS_Interval DEF Calls
<1> QED BY <1>2, FS_Subset, FS_CardinalityType

LEMMA BookKeeps ==
  ASSUME TypeOK, BookInv, NEW c, NEW s, Moves(c, s), opened => opened',
         s \in HostsOrWorked' => s \in HostsOrWorked,
         /\ c \in Calls /\ calls'[c].on \in Ids /\ calls'[c].at \in AtWork /\ calls'[c].kind # "close"
         => calls'[c].on \in HostsOrWorked
  PROVE  BookInv'
<1>1. HostsOrWorked' \subseteq HostsOrWorked
  <2> SUFFICES ASSUME NEW t \in HostsOrWorked', t # s PROVE t \in HostsOrWorked
    OBVIOUS
  <2>1. t \in Ids /\ sessions'[t] = sessions[t]
    BY DEF HostsOrWorked, Moves
  <2>2. CASE sessions'[t].runtime
    BY <2>1, <2>2 DEF HostsOrWorked
  <2>3. CASE ~sessions'[t].runtime
    <3>1. PICK d \in Calls : calls'[d].on = t /\ calls'[d].at \in AtWork /\ calls'[d].kind # "close"
      BY <2>3 DEF HostsOrWorked
    <3>2. d = c \/ calls'[d] = calls[d]
      BY DEF Moves
    <3> QED BY <2>1, <3>1, <3>2 DEF HostsOrWorked
  <2> QED BY <2>2, <2>3
<1>2. HostsOrWorked \in SUBSET Ids
  BY DEF HostsOrWorked
<1>3. Cardinality(HostsOrWorked') =< Cardinality(HostsOrWorked)
  BY <1>1, <1>2, IdsFinite, FS_Subset
<1>4. Cardinality(HostsOrWorked) \in Nat /\ Cardinality(HostsOrWorked') \in Nat /\ MaxSessions \in Nat
  BY <1>1, <1>2, IdsFinite, AdmissionAssumption
<1> QED BY <1>3, <1>4 DEF BookInv

\* A turn of the call `c`, which has one session change at most.
LEMMA TurnKeeps ==
  ASSUME AdmissionInv, TypeOK', NEW c \in Calls, NEW s, NoOtherChange, opened => opened',
         Moves(c, s), calls[c] # NoCall,
         InLines(c)' /\ Leads(c)' /\ Sensible(c)' /\ Finds(c)', s \in Ids => EntryInv(s)',
         \A t \in Ids \ {s} : Waiting(t) /\ First(tail[t], c) => StartsAgain(t)',
         \/ stop.at \in {"no", "line"}
         \/ /\ c \in Range(line') => c \in Range(line)
            /\ LateKills \/ (c \in InTails' => c \in InTails),
         calls'[c].kind = "create" /\ calls'[c].on = None => calls[c].kind = "create" /\ calls[c].on = None,
         BookInv'
  PROVE  AdmissionInv'
<1> USE DEF NoOtherChange
<1>1. LockInv'
  BY LocksKeep DEF AdmissionInv
<1>2. HoldInv'
  <2>1. Stopping' = Stopping /\ stop' = stop /\ actors' = actors
    BY DEF Stopping
  <2>2. \A d \in Calls : Finds(d)'
    BY <2>1, FindsKeep DEF AdmissionInv
  <2>3. \A t \in Ids : EntryInv(t)'
    BY <2>1, EntriesKeep DEF AdmissionInv
  <2> QED BY <2>2, <2>3 DEF HoldInv
<1>3. CountInv'
  <2>1. \A d \in Calls : (d > asked /\ d =< MaxAsks) \/ d > MaxAsks + restarts => calls'[d] = NoCall
    BY DEF AdmissionInv, CountInv, Moves
  <2>2. Pending' \subseteq Pending /\ Pending \subseteq Calls
    BY DEF Pending, Moves
  <2>3. Cardinality(Pending') =< Cardinality(Pending)
    BY <2>2, CallsFinite, FS_Subset
  <2>4. /\ Cardinality(Pending) \in Nat /\ Cardinality(Pending') \in Nat
        /\ created \in Nat /\ MaxIds \in Nat
    BY <2>2, CallsFinite, AdmissionAssumption DEF AdmissionInv, TypeOK
  <2> QED BY <2>1, <2>3, <2>4 DEF AdmissionInv, CountInv
<1>4. StopInv'
  BY StopKeeps DEF AdmissionInv
<1> QED BY <1>1, <1>2, <1>3, <1>4 DEF AdmissionInv

\* What the locks a call has let it do: leave every queue it is in.
Leavable(c) ==
    /\ c \in Range(line) => First(line, c)
    /\ \A s \in Ids : c \in Range(tail[s]) => First(tail[s], c)

LEMMA LockLeaves ==
  ASSUME TypeOK, LockInv, NEW c \in Calls, TakesLock(c)
  PROVE  /\ Leavable(c) /\ calls[c] # NoCall /\ calls[c].on \in Ids /\ First(tail[calls[c].on], c)
         /\ \A t \in Ids : First(tail[t], c) => t = calls[c].on
<1>1. calls[c].at = "lock" /\ First(tail[calls[c].on], c)
  BY DEF TakesLock, HasTurn, First
<1>2. calls[c].on \in Ids
  BY <1>1, OnIsOne
<1>3. InLines(c) /\ Leads(c) /\ Sensible(c)
  BY DEF LockInv
<1>4. \A t \in Ids : c \in Range(tail[t]) <=> t = calls[c].on
  BY <1>1, <1>2, <1>3 DEF InLines, Locked
<1>5. \A t \in Ids : First(tail[t], c) => t = calls[c].on
  BY <1>4, FirstIsIn DEF TypeOK
<1> QED BY <1>1, <1>2, <1>3, <1>4, <1>5 DEF Leavable, InLines, Leads, NoCall

LEMMA OwnerLeaves ==
  ASSUME TypeOK, LockInv, NEW c \in Calls, calls[c].at \in Owned \ {"evict"}
  PROVE  Leavable(c) /\ calls[c] # NoCall
<1>1. InLines(c) /\ Leads(c) /\ Sensible(c)
  BY DEF LockInv
<1> QED BY <1>1 DEF InLines, Leads, Leavable, NoCall, Owned, Locked

\* What a session is once a call of its own is done with it.
Fine(e) ==
    /\ e.status = "closed" => ~e.runtime
    /\ e.killed => e.status \notin {"live_idle", "live_busy"}
    /\ ~(e.status = "live_idle" /\ e.runtime /\ e.queue > 0 /\ ~e.waits) \/ Stopping

LEMMA RunsNextFacts ==
  ASSUME NEW e \in Entries, HasNext(e)
  PROVE  /\ RunsNext(e) \in Entries /\ RunsNext(e).status = "live_busy" /\ RunsNext(e).killed = e.killed
         /\ RunsNext(e).runtime = e.runtime /\ RunsNext(e).controller = e.controller
<1>1. e.queue - 1 \in Nat
  BY DEF Entries, HasNext
<1> QED BY <1>1 DEF RunsNext, Entries, Statuses

LEMMA WaitsFacts ==
  ASSUME NEW e \in Entries, NEW b \in BOOLEAN
  PROVE  LET f == [e EXCEPT !.waits = b]
         IN  /\ f \in Entries /\ f.waits = b /\ f.status = e.status /\ f.killed = e.killed
             /\ f.runtime = e.runtime /\ f.queue = e.queue /\ f.controller = e.controller
             /\ HasNext(f) = HasNext(e) /\ (e.waits = b => f = e)
BY DEF Entries, HasNext

LEMMA DrainedFine ==
  ASSUME NEW e \in Entries, e.status = "closed" => ~e.runtime,
         e.killed => e.status \notin {"live_idle", "live_busy"}
  PROVE  Drained(e) \in Entries /\ Fine(Drained(e)) /\ Drained(e).controller = e.controller
                                /\ Drained(e).runtime = e.runtime
<1>1. CASE ~HasNext(e)
  <2>1. Drained(e) = e /\ e.queue \in Nat
    BY <1>1 DEF Drained, Entries
  <2> QED BY <1>1, <2>1 DEF Fine, HasNext
<1>2. CASE HasNext(e) /\ ~saved
  <2>1. Drained(e) = RunsNext(e) /\ ~e.killed
    BY <1>2 DEF Drained, HasNext
  <2> QED BY <1>2, <2>1, RunsNextFacts DEF Fine
<1>3. CASE HasNext(e) /\ saved
  <2> DEFINE f == [e EXCEPT !.waits = TRUE]
  <2>1. Drained(e) = f
    BY <1>3 DEF Drained
  <2>2. /\ f \in Entries /\ f.waits /\ f.status = e.status /\ f.killed = e.killed
        /\ f.runtime = e.runtime /\ f.controller = e.controller
    BY WaitsFacts
  <2> HIDE DEF f
  <2> QED BY <2>1, <2>2 DEF Fine
<1> QED BY <1>1, <1>2, <1>3

\* What the loop does that waited for the server to run on.
LEMMA WokenFacts ==
  ASSUME NEW e \in Entries
  PROVE  /\ Woken(e) \in Entries /\ Woken(e).killed = e.killed /\ Woken(e).runtime = e.runtime
         /\ Woken(e).controller = e.controller
         /\ \/ Woken(e).status = e.status
            \/ e.status = "live_idle" /\ Woken(e).status = "live_busy" /\ ~e.killed
         /\ /\ Woken(e).status = "live_idle" /\ Woken(e).runtime /\ Woken(e).queue > 0
            /\ ~Woken(e).waits /\ ~e.killed
            => ~e.waits /\ e.queue > 0 /\ e.status = "live_idle"
         /\ ~e.waits => Woken(e) = e
<1> DEFINE f == [e EXCEPT !.waits = FALSE]
<1>1. /\ f \in Entries /\ ~f.waits /\ f.status = e.status /\ f.killed = e.killed
      /\ f.runtime = e.runtime /\ f.queue = e.queue /\ f.controller = e.controller
      /\ HasNext(f) = HasNext(e) /\ (~e.waits => f = e)
  BY WaitsFacts DEF Entries
<1>2. Woken(e) = IF e.waits /\ HasNext(e) THEN RunsNext(f) ELSE f
  BY DEF Woken
<1> HIDE DEF f
<1>3. CASE e.waits /\ HasNext(e)
  <2>1. Woken(e) = RunsNext(f) /\ HasNext(f)
    BY <1>1, <1>2, <1>3
  <2>2. e.status = "live_idle" /\ ~e.killed
    BY <1>3 DEF HasNext
  <2> QED BY <1>1, <1>3, <2>1, <2>2, RunsNextFacts
<1>4. CASE ~(e.waits /\ HasNext(e))
  BY <1>1, <1>2, <1>4 DEF HasNext
<1> QED BY <1>3, <1>4

LEMMA ReleaseMoves ==
  ASSUME TypeOK, LockInv, NEW c \in Calls, Leavable(c), Release(c)
  PROVE  /\ calls' \in [Calls -> CallRecords] /\ line' \in Seq(Calls) /\ tail' \in [Ids -> Seq(Calls)]
         /\ \A d \in Calls \ {c} : calls'[d] = calls[d]
         /\ calls'[c] = NoCall /\ c \notin Range(line')
         /\ OnlyMoves(c, line, line')
         /\ \A t \in Ids : OnlyMoves(c, tail[t], tail'[t]) /\ c \notin Range(tail'[t])
<1>1. /\ calls' = [calls EXCEPT ![c] = NoCall]
      /\ line' = Off(line, c) /\ tail' = [s \in Ids |-> Off(tail[s], c)]
  BY DEF Release
<1>2. calls' \in [Calls -> CallRecords] /\ calls'[c] = NoCall /\ \A d \in Calls \ {c} : calls'[d] = calls[d]
  BY <1>1 DEF TypeOK, CallRecords
<1>3. OnlyMoves(c, line, line') /\ c \notin Range(line')
  BY <1>1, OffMoves DEF TypeOK, LockInv, Leavable
<1>4. \A t \in Ids : OnlyMoves(c, tail[t], tail'[t]) /\ c \notin Range(tail'[t])
  <2> TAKE t \in Ids
  <2>1. tail'[t] = Off(tail[t], c) /\ tail[t] \in Seq(Calls) /\ Once(tail[t])
    BY <1>1 DEF TypeOK, LockInv
  <2> QED BY <2>1, OffMoves DEF Leavable
<1>5. line' \in Seq(Calls) /\ tail' \in [Ids -> Seq(Calls)]
  BY <1>1, <1>3, <1>4 DEF OnlyMoves
<1> QED BY <1>2, <1>3, <1>4, <1>5

LEMMA NoCallFacts ==
  ASSUME NEW c \in Calls, calls'[c] = NoCall, c \notin Range(line'), TypeOK',
         \A t \in Ids : c \notin Range(tail'[t])
  PROVE  InLines(c)' /\ Leads(c)' /\ Sensible(c)' /\ Finds(c)'
<1>1. /\ calls'[c].at = "none" /\ calls'[c].kind = "none" /\ calls'[c].on = None /\ calls'[c].victim = None
      /\ calls'[c].rest = {}
  BY DEF NoCall
<1>2. created' >= 0
  BY DEF TypeOK
<1> QED BY <1>1, <1>2 DEF InLines, Leads, Sensible, Finds, Admitted, Restarts, Owned, Locked, MakingRoom, AtWork, None

\* A call ends, its session being fine.
LEMMA EndKeeps ==
  ASSUME AdmissionInv, NEW c \in Calls, calls[c] # NoCall, Leavable(c), Release(c), NEW s, NoOtherChange,
         sessions' \in [Ids -> Entries], \A t \in Ids \ {s} : sessions'[t] = sessions[t],
         s \in Ids /\ sessions'[s] # sessions[s] => Free(s, c),
         s \in Ids => Fine(sessions'[s]) /\ (sessions'[s].runtime => s \in HostsOrWorked)
                      /\ (s > created => sessions'[s] = Absent),
         \A t \in Ids \ {s} : ~(First(tail[t], c) /\ Waiting(t)),
         faults' \in 0..MaxFaults, opened' \in BOOLEAN, opened => opened'
  PROVE  AdmissionInv'
<1> USE DEF NoOtherChange
<1>1. /\ calls' \in [Calls -> CallRecords] /\ line' \in Seq(Calls) /\ tail' \in [Ids -> Seq(Calls)]
      /\ \A d \in Calls \ {c} : calls'[d] = calls[d]
      /\ calls'[c] = NoCall /\ c \notin Range(line')
      /\ OnlyMoves(c, line, line')
      /\ \A t \in Ids : OnlyMoves(c, tail[t], tail'[t]) /\ c \notin Range(tail'[t])
  BY ReleaseMoves DEF AdmissionInv
<1>2. TypeOK'
  BY <1>1 DEF AdmissionInv, TypeOK
<1>3. Moves(c, s)
  BY <1>1 DEF Moves, AdmissionInv, TypeOK
<1>4. InLines(c)' /\ Leads(c)' /\ Sensible(c)' /\ Finds(c)'
  BY <1>1, <1>2, NoCallFacts
<1>5. s \in Ids => EntryInv(s)'
  BY DEF Fine, EntryInv, Waiting, Stopping
<1>6. c \notin InTails'
  BY <1>1 DEF InTails
<1>7. calls'[c].kind # "create" /\ calls'[c].at \notin AtWork
  BY <1>1 DEF NoCall, AtWork
<1>8. BookInv'
  <2>1. s \in HostsOrWorked' => s \in HostsOrWorked
    <3> SUFFICES ASSUME s \in HostsOrWorked' PROVE s \in HostsOrWorked
      OBVIOUS
    <3>1. s \in Ids
      BY DEF HostsOrWorked
    <3>2. CASE sessions'[s].runtime
      BY <3>1, <3>2
    <3>3. CASE ~sessions'[s].runtime
      <4>1. PICK d \in Calls : calls'[d].on = s /\ calls'[d].at \in AtWork /\ calls'[d].kind # "close"
        BY <3>3 DEF HostsOrWorked
      <4> QED BY <4>1, <3>1, <1>1, <1>7 DEF HostsOrWorked
    <3> QED BY <3>2, <3>3
  <2> QED BY <2>1, <1>3, <1>7, BookKeeps DEF AdmissionInv
<1> QED BY <1>1, <1>2, <1>3, <1>4, <1>5, <1>6, <1>7, <1>8, TurnKeeps

-----------------------------------------------------------------------------
(* Turns that have a session's lock.                                       *)

LEMMA LockFinds ==
  ASSUME AdmissionInv, NEW c \in Calls, TakesLock(c)
  PROVE  /\ calls[c].on \in Ids /\ Entry(c) \in Entries /\ calls[c].on =< created
         /\ Entry(c).status = "closed" => ~Entry(c).runtime
         /\ Entry(c).killed => Entry(c).status \notin {"live_idle", "live_busy"}
         /\ calls[c].kind # "budget" \/ ~Listed(calls[c].on) \/ Entry(c).status = "closed" => Fine(Entry(c))
<1>1. calls[c].on \in Ids /\ First(tail[calls[c].on], c) /\ calls[c].at = "lock"
  BY LockLeaves DEF AdmissionInv, TakesLock
<1>2. EntryInv(calls[c].on) /\ Sensible(c) /\ Entry(c) \in Entries
  BY <1>1 DEF AdmissionInv, HoldInv, LockInv, TypeOK, Entry
<1>3. Waiting(calls[c].on) => calls[c].kind = "budget"
  BY <1>1, <1>2 DEF EntryInv, StartsAgain, First, AtWork
<1> QED BY <1>1, <1>2, <1>3 DEF EntryInv, Sensible, Fine, Waiting, Listed, Entry

LEMMA SetsKeeps ==
  ASSUME AdmissionInv, NEW c \in Calls, TakesLock(c), NEW e \in Entries, Fine(e),
         e.runtime => Entry(c).runtime, Sets(c, e)
  PROVE  AdmissionInv'
<1> DEFINE s == calls[c].on
<1>1. /\ Leavable(c) /\ calls[c] # NoCall /\ s \in Ids /\ First(tail[s], c) /\ s =< created
      /\ \A t \in Ids : First(tail[t], c) => t = s
  BY LockLeaves, LockFinds DEF AdmissionInv
<1>2. /\ sessions' = [sessions EXCEPT ![s] = e] /\ Release(c) /\ NoOtherChange
      /\ faults' = faults /\ opened' = opened
  BY DEF Sets
<1>3. sessions' \in [Ids -> Entries] /\ sessions'[s] = e /\ \A t \in Ids \ {s} : sessions'[t] = sessions[t]
  BY <1>1, <1>2 DEF AdmissionInv, TypeOK
<1>4. Free(s, c)
  BY <1>1, TurnIsFree DEF AdmissionInv
<1>5. e.runtime => s \in HostsOrWorked
  BY <1>1 DEF HostsOrWorked, Entry
<1>6. ~(s > created)
  BY <1>1, AdmissionAssumption DEF Ids, AdmissionInv, TypeOK
<1>7. faults' \in 0..MaxFaults /\ opened' \in BOOLEAN
  BY <1>2 DEF AdmissionInv, TypeOK
<1> HIDE DEF s
<1> QED BY <1>1, <1>2, <1>3, <1>4, <1>5, <1>6, <1>7, EndKeeps

LEMMA EndsCallKeeps ==
  ASSUME AdmissionInv, NEW c \in Calls, TakesLock(c), Fine(Entry(c)), EndsCall(c)
  PROVE  AdmissionInv'
<1>1. Entry(c) \in Entries
  BY LockFinds
<1>2. sessions = [sessions EXCEPT ![calls[c].on] = Entry(c)]
  BY DEF AdmissionInv, TypeOK, Entry
<1>3. Sets(c, Entry(c))
  BY <1>2 DEF Sets, EndsCall
<1> QED BY <1>1, <1>3, SetsKeeps

LEMMA IsRefusedKeeps ==
  ASSUME AdmissionInv, NEW c \in Calls, IsRefused(c)
  PROVE  AdmissionInv'
<1>1. TakesLock(c) /\ EndsCall(c) /\ Refused(c)
  BY DEF IsRefused
<1>2. calls[c].kind = "budget" => ~Listed(calls[c].on) \/ Entry(c).status = "closed"
  BY <1>1 DEF Refused, Admitted
<1> QED BY <1>1, <1>2, LockFinds, EndsCallKeeps

LEMMA WithController ==
  ASSUME NEW e \in Entries, Fine(e), NEW a \in Actors \cup {Nobody}
  PROVE  LET f == [e EXCEPT !.controller = a]
         IN  f \in Entries /\ Fine(f) /\ f.runtime = e.runtime
BY DEF Entries, Fine

LEMMA AttachesKeeps ==
  ASSUME AdmissionInv, NEW c \in Calls, Attaches(c)
  PROVE  AdmissionInv'
<1>1. TakesLock(c) /\ calls[c].kind = "attach"
  BY DEF Attaches
<1>2. Entry(c) \in Entries /\ Fine(Entry(c))
  BY <1>1, LockFinds
<1>3. calls[c].actor \in Actors \cup {Nobody}
  BY DEF AdmissionInv, TypeOK, CallRecords, NoCall
<1>4. CASE Sets(c, [Entry(c) EXCEPT !.controller = calls[c].actor])
  <2> DEFINE f == [Entry(c) EXCEPT !.controller = calls[c].actor]
  <2>1. f \in Entries /\ Fine(f) /\ f.runtime = Entry(c).runtime
    BY <1>2, <1>3, WithController
  <2> QED BY <1>1, <1>4, <2>1, SetsKeeps
<1>5. CASE EndsCall(c)
  BY <1>1, <1>2, <1>5, EndsCallKeeps
<1> QED BY <1>4, <1>5 DEF Attaches

LEMMA LeftFine ==
  ASSUME NEW e \in Entries, Fine(e), NEW a
  PROVE  LeftBy(e, a) \in Entries /\ Fine(LeftBy(e, a)) /\ LeftBy(e, a).runtime = e.runtime
<1>1. e.controller \in Actors \cup {Nobody}
  BY DEF Entries
<1>2. LeftBy(e, a) = [e EXCEPT !.controller = IF e.controller = a THEN Nobody ELSE e.controller]
  BY DEF LeftBy
<1>3. (IF e.controller = a THEN Nobody ELSE e.controller) \in Actors \cup {Nobody}
  BY <1>1
<1> QED BY <1>2, <1>3, WithController

LEMMA DetachesKeeps ==
  ASSUME AdmissionInv, NEW c \in Calls, Detaches(c)
  PROVE  AdmissionInv'
<1>1. TakesLock(c) /\ calls[c].kind = "detach" /\ Sets(c, LeftBy(Entry(c), calls[c].actor))
  BY DEF Detaches
<1>2. Entry(c) \in Entries /\ Fine(Entry(c))
  BY <1>1, LockFinds
<1> QED BY <1>1, <1>2, LeftFine, SetsKeeps

LEMMA SubmitsKeeps ==
  ASSUME AdmissionInv, NEW c \in Calls, Submits(c)
  PROVE  AdmissionInv'
<1> DEFINE e == [Entry(c) EXCEPT !.queue = @ + 1]
<1>1. TakesLock(c) /\ calls[c].kind = "submit" /\ Sets(c, Drained(e))
  BY DEF Submits
<1>2. /\ Entry(c) \in Entries
      /\ Entry(c).status = "closed" => ~Entry(c).runtime
      /\ Entry(c).killed => Entry(c).status \notin {"live_idle", "live_busy"}
  BY <1>1, LockFinds
<1>3. /\ e \in Entries /\ e.status = Entry(c).status /\ e.runtime = Entry(c).runtime
      /\ e.killed = Entry(c).killed
  BY <1>2 DEF Entries
<1> HIDE DEF e
<1>4. Drained(e) \in Entries /\ Fine(Drained(e)) /\ Drained(e).runtime = e.runtime
  BY <1>2, <1>3, DrainedFine
<1> QED BY <1>1, <1>3, <1>4, SetsKeeps

LEMMA InterruptsKeeps ==
  ASSUME AdmissionInv, NEW c \in Calls, Interrupts(c)
  PROVE  AdmissionInv'
<1> DEFINE e == [Entry(c) EXCEPT !.status = "live_idle"]
<1>1. TakesLock(c) /\ Entry(c).status = "live_busy" /\ Sets(c, Drained(e))
  BY DEF Interrupts
<1>2. Entry(c) \in Entries /\ ~Entry(c).killed
  BY <1>1, LockFinds
<1>3. /\ e \in Entries /\ e.status = "live_idle" /\ e.runtime = Entry(c).runtime
      /\ e.killed = Entry(c).killed
  BY <1>2 DEF Entries, Statuses
<1> HIDE DEF e
<1>4. Drained(e) \in Entries /\ Fine(Drained(e)) /\ Drained(e).runtime = e.runtime
  BY <1>2, <1>3, DrainedFine
<1> QED BY <1>1, <1>3, <1>4, SetsKeeps

LEMMA NothingToDoKeeps ==
  ASSUME AdmissionInv, NEW c \in Calls, NothingToDo(c)
  PROVE  AdmissionInv'
<1>1. TakesLock(c) /\ Sets(c, IF calls[c].kind = "budget" THEN Drained(Entry(c)) ELSE Entry(c))
  BY DEF NothingToDo
<1>2. CASE calls[c].kind = "budget"
  <2>1. Drained(Entry(c)) \in Entries /\ Fine(Drained(Entry(c)))
        /\ Drained(Entry(c)).runtime = Entry(c).runtime
    BY <1>1, LockFinds, DrainedFine
  <2> QED BY <1>1, <1>2, <2>1, SetsKeeps
<1>3. CASE calls[c].kind # "budget"
  BY <1>1, <1>3, LockFinds, SetsKeeps
<1> QED BY <1>2, <1>3

LEMMA IsLiveKeeps ==
  ASSUME AdmissionInv, NEW c \in Calls, IsLive(c)
  PROVE  AdmissionInv'
<1>1. TakesLock(c) /\ calls[c].kind = "recover" /\ EndsCall(c)
  BY DEF IsLive
<1> QED BY <1>1, LockFinds, EndsCallKeeps

LEMMA SameBook ==
  ASSUME AdmissionInv, HostsOrWorked' \subseteq HostsOrWorked, opened => opened'
  PROVE  BookInv'
<1>1. HostsOrWorked \in SUBSET Ids
  BY DEF HostsOrWorked
<1>2. Cardinality(HostsOrWorked') =< Cardinality(HostsOrWorked)
  BY <1>1, IdsFinite, FS_Subset
<1>3. Cardinality(HostsOrWorked) \in Nat /\ Cardinality(HostsOrWorked') \in Nat /\ MaxSessions \in Nat
  BY <1>1, IdsFinite, AdmissionAssumption
<1> QED BY <1>2, <1>3 DEF BookInv, AdmissionInv

-----------------------------------------------------------------------------
(* Turns that go on elsewhere.                                             *)

\* The call goes on as `r`, the locks as they are.
LEMMA GoesKeeps ==
  ASSUME AdmissionInv, NEW c \in Calls, calls[c] # NoCall,
         NEW r \in CallRecords, calls' = [calls EXCEPT ![c] = r], UNCHANGED lockVars,
         r.kind = calls[c].kind, r.on = calls[c].on, r.victim = calls[c].victim,
         calls[c].at \in Locked, r.at \in Owned,
         r.at \in {"evict", "ending"} <=> calls[c].at \in {"evict", "ending"},
         First(tail[r.on], c) \/ r.on = None,
         r.at = "ending" => First(tail[r.victim], c),
         NEW s, sessions' \in [Ids -> Entries], \A t \in Ids \ {s} : sessions'[t] = sessions[t],
         s \in Ids /\ sessions'[s] # sessions[s] => Free(s, c),
         Sensible(c)', Finds(c)', s \in Ids => EntryInv(s)',
         \A t \in Ids \ {s} : Waiting(t) /\ First(tail[t], c) => StartsAgain(t)',
         NoOtherChange, faults' \in 0..MaxFaults, opened' \in BOOLEAN, opened => opened',
         BookInv'
  PROVE  AdmissionInv'
<1>1. calls' \in [Calls -> CallRecords] /\ calls'[c] = r /\ \A d \in Calls \ {c} : calls'[d] = calls[d]
  BY DEF AdmissionInv, TypeOK
<1>2. line' = line /\ tail' = tail
  BY DEF lockVars
<1>3. TypeOK'
  BY <1>1, <1>2 DEF AdmissionInv, TypeOK, NoOtherChange
<1>4. Moves(c, s)
  <2>1. OnlyMoves(c, line, line') /\ \A t \in Ids : OnlyMoves(c, tail[t], tail'[t])
    BY <1>2, StaysPut DEF AdmissionInv, TypeOK, LockInv
  <2> QED BY <2>1, <1>1 DEF Moves, NoOtherChange, AdmissionInv, TypeOK
<1>5. InLines(c)'
  BY <1>1, <1>2 DEF AdmissionInv, LockInv, InLines, Owned, Locked
<1>6. Leads(c)'
  <2>1. calls[c].at # "line" /\ r.at # "line"
    BY DEF Locked, Owned
  <2> QED BY <2>1, <1>1, <1>2 DEF AdmissionInv, LockInv, Leads, None, Ids
<1>7. InTails' = InTails
  BY <1>2 DEF InTails
<1> QED BY <1>1, <1>2, <1>3, <1>4, <1>5, <1>6, <1>7, TurnKeeps

LEMMA AtFacts ==
  ASSUME TypeOK, NEW c \in Calls, calls[c] # NoCall, NEW p \in Places
  PROVE  LET r == [calls[c] EXCEPT !.at = p]
         IN  /\ r \in CallRecords /\ r.at = p /\ r # NoCall
             /\ r.kind = calls[c].kind /\ r.on = calls[c].on /\ r.victim = calls[c].victim
             /\ r.actor = calls[c].actor /\ r.run = calls[c].run /\ r.rest = calls[c].rest
             /\ [calls EXCEPT ![c].at = p] = [calls EXCEPT ![c] = r]
<1>1. calls[c] \in CallRecords /\ calls \in [Calls -> CallRecords]
  BY DEF TypeOK
<1>2. \A x \in CallRecords \ {NoCall} :
         LET r == [x EXCEPT !.at = p]
         IN  /\ r \in CallRecords /\ r.at = p
             /\ r.kind = x.kind /\ r.on = x.on /\ r.victim = x.victim
             /\ r.actor = x.actor /\ r.run = x.run /\ r.rest = x.rest
  BY DEF CallRecords
<1>3. p # "none" /\ NoCall.at = "none"
  BY DEF Places, NoCall
<1> QED BY <1>1, <1>2, <1>3

LEMMA WantsRoomKeeps ==
  ASSUME AdmissionInv, NEW c \in Calls, WantsRoom(c)
  PROVE  AdmissionInv'
<1>1. /\ TakesLock(c) /\ calls[c].kind \in {"submit", "recover", "reset"} /\ ~Entry(c).runtime
      /\ Entry(c).status # "closed"
      /\ UNCHANGED <<sessions, faults, opened>> /\ NoOtherChange
  BY DEF WantsRoom, Refused
<1>2. /\ Leavable(c) /\ calls[c] # NoCall /\ calls[c].on \in Ids /\ First(tail[calls[c].on], c)
      /\ \A t \in Ids : First(tail[t], c) => t = calls[c].on
  BY <1>1, LockLeaves DEF AdmissionInv
<1>3. Fine(Entry(c)) /\ calls[c].on =< created
  BY <1>1, LockFinds
<1> PICK s \in Ids : s = calls[c].on
  BY <1>2
<1>4. CASE Release(c)
  BY <1>1, <1>3, <1>4, EndsCallKeeps DEF EndsCall
<1>5. CASE Goes(c, "room")
  <2> DEFINE r == [calls[c] EXCEPT !.at = "room"]
  <2>1. /\ r \in CallRecords /\ r.at = "room" /\ calls' = [calls EXCEPT ![c] = r]
        /\ r.kind = calls[c].kind /\ r.on = calls[c].on /\ r.victim = calls[c].victim
        /\ r.rest = calls[c].rest /\ UNCHANGED lockVars
    BY <1>2, <1>5, AtFacts, ZenonT(40) DEF Goes, AdmissionInv, Places
  <2> HIDE DEF r
  <2>2. calls[c].at = "lock" /\ Sensible(c)
    BY <1>1 DEF TakesLock, AdmissionInv, LockInv
  <2>3. calls'[c] = r /\ calls \in [Calls -> CallRecords]
    BY <2>1 DEF AdmissionInv, TypeOK
  <2>4. Sensible(c)'
    BY <1>1, <2>1, <2>2, <2>3
       DEF Sensible, NoOtherChange, MakingRoom, Admitted, Owned, Locked, AtWork
  <2>5. Finds(c)'
    BY <1>1, <2>1, <2>3, <1>3 DEF Finds, Entry
  <2>6. BookInv'
    <3>1. HostsOrWorked' \subseteq HostsOrWorked
      BY <1>1, <2>1, <2>3 DEF HostsOrWorked, AtWork
    <3> QED BY <3>1, <1>1, SameBook
  <2>7. EntryInv(s)'
    BY <1>1 DEF EntryInv, Waiting, Entry, AdmissionInv, HoldInv, NoOtherChange
  <2>8. r.at \in Owned /\ calls[c].at \in Locked /\ r.at \notin {"evict", "ending"}
        /\ calls[c].at \notin {"evict", "ending"}
    BY <2>1, <2>2 DEF Owned, Locked
  <2>9. sessions' \in [Ids -> Entries] /\ faults' \in 0..MaxFaults /\ opened' \in BOOLEAN
        /\ opened' = opened
    BY <1>1 DEF AdmissionInv, TypeOK
  <2>10. \A t \in Ids \ {s} : ~First(tail[t], c) /\ sessions'[t] = sessions[t]
    BY <1>1, <1>2
  <2>11. sessions'[s] = sessions[s] /\ First(tail[r.on], c)
    BY <1>1, <1>2, <2>1
  <2>12. /\ r.at \in {"evict", "ending"} <=> calls[c].at \in {"evict", "ending"}
         /\ First(tail[r.on], c) \/ r.on = None
         /\ r.at = "ending" => First(tail[r.victim], c)
         /\ s \in Ids /\ sessions'[s] # sessions[s] => Free(s, c)
         /\ s \in Ids => EntryInv(s)'
         /\ \A t \in Ids \ {s} : Waiting(t) /\ First(tail[t], c) => StartsAgain(t)'
         /\ \A t \in Ids \ {s} : sessions'[t] = sessions[t]
         /\ opened => opened'
    BY <2>7, <2>8, <2>9, <2>10, <2>11
  <2> QED BY <1>1, <1>2, <2>1, <2>4, <2>5, <2>6, <2>8, <2>9, <2>12, GoesKeeps
<1> QED BY <1>4, <1>5 DEF WantsRoom

LEMMA GoesFacts ==
  ASSUME TypeOK, LockInv, NEW c \in Calls, calls[c] # NoCall, NEW p \in Places, Goes(c, p)
  PROVE  /\ calls' \in [Calls -> CallRecords] /\ \A d \in Calls \ {c} : calls'[d] = calls[d]
         /\ calls'[c].at = p /\ calls'[c].kind = calls[c].kind /\ calls'[c].on = calls[c].on
         /\ calls'[c].victim = calls[c].victim /\ calls'[c].actor = calls[c].actor
         /\ calls'[c].rest = calls[c].rest
         /\ calls'[c] = [calls[c] EXCEPT !.at = p] /\ calls'[c] \in CallRecords
         /\ line' = line /\ tail' = tail
BY AtFacts DEF Goes, TypeOK, lockVars

\* The call `c` goes on at `p`, and its session `s` changes.
LEMMA AtKeeps ==
  ASSUME AdmissionInv, NEW c \in Calls, calls[c] # NoCall, NEW p \in Places \cap Owned, Goes(c, p),
         calls[c].at \in Locked,
         p \in {"evict", "ending"} <=> calls[c].at \in {"evict", "ending"},
         NEW s \in Ids, s = calls[c].on, First(tail[s], c),
         p = "ending" => First(tail[calls[c].victim], c),
         sessions' \in [Ids -> Entries], \A t \in Ids \ {s} : sessions'[t] = sessions[t],
         Sensible(c)', Finds(c)', EntryInv(s)',
         \A t \in Ids \ {s} : ~First(tail[t], c),
         NoOtherChange, faults' \in 0..MaxFaults, opened' \in BOOLEAN, opened => opened',
         sessions'[s].runtime => s \in HostsOrWorked,
         p \in AtWork /\ calls[c].kind # "close" => s \in HostsOrWorked
  PROVE  AdmissionInv'
<1> PICK r \in CallRecords : r = calls'[c]
  BY GoesFacts DEF AdmissionInv
<1>1. /\ calls' = [calls EXCEPT ![c] = r] /\ r.at = p
      /\ r.kind = calls[c].kind /\ r.on = calls[c].on /\ r.victim = calls[c].victim
      /\ UNCHANGED lockVars /\ \A d \in Calls \ {c} : calls'[d] = calls[d]
  BY GoesFacts, AtFacts DEF AdmissionInv, Goes
<1>2. Free(s, c)
  BY TurnIsFree DEF AdmissionInv
<1>3. BookInv'
  <2>1. HostsOrWorked' \subseteq HostsOrWorked
    <3> SUFFICES ASSUME NEW t \in HostsOrWorked' PROVE t \in HostsOrWorked
      OBVIOUS
    <3>1. t \in Ids
      BY DEF HostsOrWorked
    <3>2. CASE t = s /\ sessions'[t].runtime
      BY <3>2
    <3>3. CASE t # s /\ sessions'[t].runtime
      BY <3>1, <3>3 DEF HostsOrWorked
    <3>4. CASE ~sessions'[t].runtime
      <4>1. PICK d \in Calls : calls'[d].on = t /\ calls'[d].at \in AtWork /\ calls'[d].kind # "close"
        BY <3>4 DEF HostsOrWorked
      <4>2. CASE d = c
        BY <4>1, <4>2, <1>1
      <4>3. CASE d # c
        BY <4>1, <4>3, <1>1, <3>1 DEF HostsOrWorked
      <4> QED BY <4>2, <4>3
    <3> QED BY <3>2, <3>3, <3>4
  <2> QED BY <2>1, SameBook
<1>4. /\ r.at \in {"evict", "ending"} <=> calls[c].at \in {"evict", "ending"}
      /\ First(tail[r.on], c) \/ r.on = None
      /\ r.at = "ending" => First(tail[r.victim], c)
      /\ r.at \in Owned
      /\ s \in Ids /\ sessions'[s] # sessions[s] => Free(s, c)
      /\ s \in Ids => EntryInv(s)'
      /\ \A t \in Ids \ {s} : Waiting(t) /\ First(tail[t], c) => StartsAgain(t)'
  BY <1>1, <1>2
<1> QED BY <1>1, <1>3, <1>4, GoesKeeps

LEMMA RecyclesKeeps ==
  ASSUME AdmissionInv, NEW c \in Calls, Recycles(c)
  PROVE  AdmissionInv'
<1>1. /\ TakesLock(c) /\ Entry(c).runtime /\ Listed(calls[c].on) /\ Entry(c).status # "closed"
      /\ calls[c].kind \in Restarts \cup {"reset", "interrupt"} /\ Goes(c, "stopping")
      /\ calls[c].kind = "interrupt" => Entry(c).status = "live_busy"
      /\ UNCHANGED <<faults, opened>> /\ NoOtherChange
  BY DEF Recycles, Refused, Restarts
<1>2. /\ Leavable(c) /\ calls[c] # NoCall /\ calls[c].on \in Ids /\ First(tail[calls[c].on], c)
      /\ \A t \in Ids : First(tail[t], c) => t = calls[c].on
  BY <1>1, LockLeaves DEF AdmissionInv
<1> PICK s \in Ids : s = calls[c].on
  BY <1>2
<1> DEFINE e == [sessions[s] EXCEPT !.status = IF calls[c].kind = "interrupt" THEN "live_idle" ELSE @]
<1>3. /\ sessions' = [sessions EXCEPT ![s] = e] /\ sessions[s] \in Entries /\ e \in Entries
      /\ e.runtime = sessions[s].runtime /\ e.killed = sessions[s].killed
      /\ e.status = IF calls[c].kind = "interrupt" THEN "live_idle" ELSE sessions[s].status
  <2>1. sessions \in [Ids -> Entries] /\ sessions[s] \in Entries /\ sessions[s].status \in Statuses
    BY DEF AdmissionInv, TypeOK, Entries
  <2>2. (IF calls[c].kind = "interrupt" THEN "live_idle" ELSE sessions[s].status) \in Statuses
    BY <2>1 DEF Statuses
  <2>3. /\ e \in Entries /\ e.runtime = sessions[s].runtime /\ e.killed = sessions[s].killed
        /\ e.status = IF calls[c].kind = "interrupt" THEN "live_idle" ELSE sessions[s].status
    BY <2>1, <2>2 DEF Entries
  <2>4. sessions' = [sessions EXCEPT ![s] = e]
    BY <2>1, Zenon DEF Recycles
  <2> QED BY <2>1, <2>3, <2>4
<1> HIDE DEF e
<1>4. sessions' \in [Ids -> Entries] /\ sessions'[s] = e /\ \A t \in Ids \ {s} : sessions'[t] = sessions[t]
  BY <1>3 DEF AdmissionInv, TypeOK
<1>5. /\ "stopping" \in Places \cap Owned /\ "stopping" \in AtWork
      /\ "stopping" \notin MakingRoom \cup {"line", "evict", "ending", "window", "saved", "starting", "prompting"}
  BY DEF Places, Owned, Locked, AtWork, MakingRoom
<1>6. /\ calls'[c].at = "stopping" /\ calls'[c].kind = calls[c].kind /\ calls'[c].on = s
      /\ calls'[c].victim = calls[c].victim /\ calls'[c].actor = calls[c].actor
      /\ calls'[c].rest = calls[c].rest /\ tail' = tail
  BY <1>1, <1>2, <1>5, GoesFacts DEF AdmissionInv
<1>7. Sensible(c)'
  BY <1>1, <1>5, <1>6 DEF Sensible, AdmissionInv, LockInv, TakesLock, NoOtherChange, Restarts, MakingRoom
<1>8. Finds(c)'
  BY <1>1, <1>3, <1>4, <1>5, <1>6 DEF Finds, Entry, Restarts
<1>9. EntryInv(s)'
  <2>1. StartsAgain(s)'
    BY <1>2, <1>5, <1>6 DEF StartsAgain
  <2>2. EntryInv(s) /\ calls[c].on =< created
    BY <1>1, LockFinds DEF AdmissionInv, HoldInv
  <2> QED BY <2>1, <2>2, <1>1, <1>3, <1>4 DEF EntryInv, Entry, NoOtherChange, Absent
<1>10. s \in HostsOrWorked
  BY <1>1 DEF HostsOrWorked, Entry
<1>11. calls[c].at \in Locked /\ calls[c].at \notin {"evict", "ending"}
  BY <1>1 DEF TakesLock, Locked
<1>12. faults' \in 0..MaxFaults /\ opened' \in BOOLEAN /\ (opened => opened')
  BY <1>1 DEF AdmissionInv, TypeOK
<1> QED BY <1>1, <1>2, <1>4, <1>5, <1>7, <1>8, <1>9, <1>10, <1>11, <1>12, AtKeeps

LEMMA WaitsOutSaveKeeps ==
  ASSUME AdmissionInv, NEW c \in Calls, WaitsOutSave(c)
  PROVE  AdmissionInv'
<1>1. /\ TakesLock(c) /\ Entry(c).runtime /\ Listed(calls[c].on) /\ Entry(c).status # "closed"
      /\ calls[c].kind = "memory" /\ Goes(c, "saved")
      /\ UNCHANGED <<sessions, faults, opened>> /\ NoOtherChange
  BY DEF WaitsOutSave, Refused
<1>2. /\ Leavable(c) /\ calls[c] # NoCall /\ calls[c].on \in Ids /\ First(tail[calls[c].on], c)
      /\ \A t \in Ids : First(tail[t], c) => t = calls[c].on
  BY <1>1, LockLeaves DEF AdmissionInv
<1> PICK s \in Ids : s = calls[c].on
  BY <1>2
<1>4. sessions' \in [Ids -> Entries] /\ sessions' = sessions
  BY <1>1 DEF AdmissionInv, TypeOK
<1>5. /\ "saved" \in Places \cap Owned /\ "saved" \in AtWork
      /\ "saved" \notin MakingRoom \cup {"line", "evict", "ending", "window", "stopping",
                                       "starting", "prompting"}
  BY DEF Places, Owned, Locked, AtWork, MakingRoom
<1>6. /\ calls'[c].at = "saved" /\ calls'[c].kind = calls[c].kind /\ calls'[c].on = s
      /\ calls'[c].victim = calls[c].victim /\ calls'[c].actor = calls[c].actor
      /\ calls'[c].rest = calls[c].rest /\ tail' = tail
  BY <1>1, <1>2, <1>5, GoesFacts DEF AdmissionInv
<1>7. Sensible(c)'
  BY <1>1, <1>5, <1>6 DEF Sensible, AdmissionInv, LockInv, TakesLock, NoOtherChange, MakingRoom
<1>8. Finds(c)'
  BY <1>1, <1>4, <1>5, <1>6 DEF Finds, Entry
<1>9. EntryInv(s)'
  <2>1. StartsAgain(s)'
    BY <1>2, <1>5, <1>6 DEF StartsAgain
  <2>2. EntryInv(s)
    BY DEF AdmissionInv, HoldInv
  <2> QED BY <2>1, <2>2, <1>1, <1>4 DEF EntryInv, NoOtherChange
<1>10. s \in HostsOrWorked
  BY <1>1 DEF HostsOrWorked, Entry
<1>11. calls[c].at \in Locked /\ calls[c].at \notin {"evict", "ending"}
  BY <1>1 DEF TakesLock, Locked
<1>12. faults' \in 0..MaxFaults /\ opened' \in BOOLEAN /\ (opened => opened')
  BY <1>1 DEF AdmissionInv, TypeOK
<1>13. \A t \in Ids \ {s} : sessions'[t] = sessions[t] /\ ~First(tail[t], c)
  BY <1>2, <1>4
<1> QED BY <1>1, <1>2, <1>4, <1>5, <1>7, <1>8, <1>9, <1>10, <1>11, <1>12, <1>13, AtKeeps

LEMMA ClosesKeeps ==
  ASSUME AdmissionInv, NEW c \in Calls, Closes(c)
  PROVE  AdmissionInv'
<1>1. /\ TakesLock(c) /\ calls[c].kind = "close" /\ Goes(c, "stopping")
      /\ UNCHANGED <<faults, opened>> /\ NoOtherChange
  BY DEF Closes
<1>2. /\ Leavable(c) /\ calls[c] # NoCall /\ calls[c].on \in Ids /\ First(tail[calls[c].on], c)
      /\ \A t \in Ids : First(tail[t], c) => t = calls[c].on
  BY <1>1, LockLeaves DEF AdmissionInv
<1> PICK s \in Ids : s = calls[c].on
  BY <1>2
<1> DEFINE e == [sessions[s] EXCEPT !.queue = 0, !.waits = FALSE]
<1>3. /\ sessions' = [sessions EXCEPT ![s] = e] /\ sessions[s] \in Entries /\ e \in Entries
      /\ e.runtime = sessions[s].runtime /\ e.killed = sessions[s].killed
      /\ e.status = sessions[s].status /\ e.queue = 0
  BY ZenonT(40) DEF Closes, AdmissionInv, TypeOK, Entries
<1> HIDE DEF e
<1>4. sessions' \in [Ids -> Entries] /\ sessions'[s] = e /\ \A t \in Ids \ {s} : sessions'[t] = sessions[t]
  BY <1>3 DEF AdmissionInv, TypeOK
<1>5. /\ "stopping" \in Places \cap Owned /\ "stopping" \in AtWork
      /\ "stopping" \notin MakingRoom \cup {"line", "evict", "ending", "window", "saved", "starting", "prompting"}
  BY DEF Places, Owned, Locked, AtWork, MakingRoom
<1>6. /\ calls'[c].at = "stopping" /\ calls'[c].kind = calls[c].kind /\ calls'[c].on = s
      /\ calls'[c].victim = calls[c].victim /\ calls'[c].actor = calls[c].actor
      /\ calls'[c].rest = calls[c].rest /\ tail' = tail
  BY <1>1, <1>2, <1>5, GoesFacts DEF AdmissionInv
<1>7. Sensible(c)'
  BY <1>1, <1>5, <1>6 DEF Sensible, AdmissionInv, LockInv, TakesLock, NoOtherChange, Restarts, MakingRoom
<1>8. Finds(c)'
  BY <1>1, <1>3, <1>4, <1>5, <1>6 DEF Finds, Entry, Restarts
<1>9. EntryInv(s)'
  <2>2. EntryInv(s) /\ calls[c].on =< created
    BY <1>1, LockFinds DEF AdmissionInv, HoldInv
  <2>3. ~(s > created)
    BY <2>2, AdmissionAssumption DEF Ids, AdmissionInv, TypeOK
  <2> QED BY <2>2, <2>3, <1>1, <1>3, <1>4 DEF EntryInv, Waiting, NoOtherChange
<1>11. calls[c].at \in Locked /\ calls[c].at \notin {"evict", "ending"}
  BY <1>1 DEF TakesLock, Locked
<1>12. faults' \in 0..MaxFaults /\ opened' \in BOOLEAN /\ (opened => opened')
  BY <1>1 DEF AdmissionInv, TypeOK
<1>13. /\ sessions'[s].runtime => s \in HostsOrWorked
       /\ "stopping" \in AtWork /\ calls[c].kind # "close" => s \in HostsOrWorked
  BY <1>1, <1>3, <1>4 DEF HostsOrWorked
<1> QED BY <1>1, <1>2, <1>4, <1>5, <1>7, <1>8, <1>9, <1>11, <1>12, <1>13, AtKeeps

-----------------------------------------------------------------------------
(* Hosts that end and start.                                               *)

\* A call with a host to end or start is first in the line of its session.
LEMMA AtWorkFacts ==
  ASSUME AdmissionInv, NEW c \in Calls, calls[c].at \in AtWork
  PROVE  /\ Leavable(c) /\ calls[c] # NoCall /\ calls[c].on \in Ids /\ First(tail[calls[c].on], c)
         /\ \A t \in Ids : First(tail[t], c) => t = calls[c].on
         /\ calls[c].on =< created /\ calls[c].at \in Locked /\ calls[c].at \notin {"evict", "ending"}
         /\ Entry(c) \in Entries
<1>1. calls[c].on \in Ids /\ InLines(c) /\ Leads(c) /\ Sensible(c)
  BY OnIsOne DEF AdmissionInv, LockInv
<1>2. calls[c].at \in Owned \ {"evict"} /\ calls[c].at \in Locked /\ calls[c].at \notin {"evict", "ending"}
  BY DEF AtWork, Owned, Locked
<1>3. Leavable(c) /\ calls[c] # NoCall
  BY <1>2, OwnerLeaves DEF AdmissionInv
<1>4. \A t \in Ids : First(tail[t], c) => c \in Range(tail[t])
  BY FirstIsIn DEF AdmissionInv, TypeOK
<1>5. \A t \in Ids : First(tail[t], c) => t = calls[c].on
  BY <1>1, <1>2, <1>4 DEF InLines
<1> QED BY <1>1, <1>2, <1>3, <1>5 DEF Leads, Sensible, Entry, AdmissionInv, TypeOK

LEMMA HostGoesOn ==
  ASSUME AdmissionInv, NEW c \in Calls, calls[c].at \in AtWork, calls[c].kind # "close",
         NEW p \in {"stopping", "starting", "prompting"}, Goes(c, p),
         NEW e \in Entries, sessions' = [sessions EXCEPT ![calls[c].on] = e],
         e.status = Entry(c).status, e.status = "closed" => ~e.runtime,
         e.killed => e.status \notin {"live_idle", "live_busy"},
         p = "prompting" => e.runtime /\ ~e.killed,
         p = "stopping" => calls[c].kind = "memory" /\ (stop.at \in {"no", "line"} => e.runtime),
         NoOtherChange, UNCHANGED <<faults, opened>>
  PROVE  AdmissionInv'
<1>1. /\ calls[c] # NoCall /\ calls[c].on \in Ids /\ First(tail[calls[c].on], c)
      /\ \A t \in Ids : First(tail[t], c) => t = calls[c].on
      /\ calls[c].on =< created /\ calls[c].at \in Locked /\ calls[c].at \notin {"evict", "ending"}
  BY AtWorkFacts
<1> PICK s \in Ids : s = calls[c].on
  BY <1>1
<1>2. sessions' \in [Ids -> Entries] /\ sessions'[s] = e /\ \A t \in Ids \ {s} : sessions'[t] = sessions[t]
  BY DEF AdmissionInv, TypeOK
<1>3. /\ p \in Places \cap Owned /\ p \in AtWork
      /\ p \notin MakingRoom \cup {"line", "evict", "ending", "window", "saved"}
  BY DEF Places, Owned, Locked, AtWork, MakingRoom
<1>4. /\ calls'[c].at = p /\ calls'[c].kind = calls[c].kind /\ calls'[c].on = s
      /\ calls'[c].victim = calls[c].victim /\ calls'[c].actor = calls[c].actor
      /\ calls'[c].rest = calls[c].rest /\ tail' = tail
  BY <1>1, <1>3, GoesFacts DEF AdmissionInv
<1>5. Sensible(c)'
  <2>1. /\ Sensible(c) /\ calls[c].kind \in Admitted \cup Restarts \cup {"interrupt"}
        /\ s # None
    BY <1>1 DEF AdmissionInv, LockInv, Sensible, AtWork, Admitted, Restarts, Ids, None
  <2> QED BY <2>1, <1>1, <1>3, <1>4 DEF Sensible, NoOtherChange, AtWork, Restarts
<1>6. Finds(c)'
  <2>1. Finds(c) /\ s # None
    BY DEF AdmissionInv, HoldInv, Ids, None
  <2>2. e.status # "closed"
    BY <2>1 DEF Finds, Entry
  <2> QED BY <2>1, <2>2, <1>2, <1>3, <1>4 DEF Finds, NoOtherChange
<1>7. EntryInv(s)'
  <2>1. StartsAgain(s)'
    BY <1>1, <1>3, <1>4 DEF StartsAgain
  <2>2. ~(s > created)
    BY <1>1, AdmissionAssumption DEF Ids, AdmissionInv, TypeOK
  <2> QED BY <2>1, <2>2, <1>2 DEF EntryInv, NoOtherChange
<1>8. s \in HostsOrWorked
  BY DEF HostsOrWorked
<1>9. faults' \in 0..MaxFaults /\ opened' \in BOOLEAN /\ (opened => opened')
  BY DEF AdmissionInv, TypeOK
<1> QED BY <1>1, <1>2, <1>3, <1>5, <1>6, <1>7, <1>8, <1>9, AtKeeps

LEMMA SaveIsOverKeeps ==
  ASSUME AdmissionInv, NEW c \in Calls, SaveIsOver(c)
  PROVE  AdmissionInv'
<1>1. /\ calls[c].at = "saved" /\ calls[c].at \in AtWork /\ Goes(c, "stopping")
      /\ UNCHANGED <<sessions, faults, opened>> /\ NoOtherChange
  BY DEF SaveIsOver, AtWork
<1>2. /\ Entry(c) \in Entries /\ calls[c].on \in Ids /\ EntryInv(calls[c].on)
      /\ Sensible(c) /\ Finds(c)
  BY <1>1, AtWorkFacts DEF AdmissionInv, HoldInv, LockInv
<1>3. calls[c].kind = "memory" /\ calls[c].kind # "close"
  BY <1>1, <1>2 DEF Sensible
<1> DEFINE e == Entry(c)
<1>4. sessions' = [sessions EXCEPT ![calls[c].on] = e]
  BY <1>1 DEF Entry, AdmissionInv, TypeOK
<1>5. /\ e.status = "closed" => ~e.runtime
      /\ e.killed => e.status \notin {"live_idle", "live_busy"}
      /\ stop.at \in {"no", "line"} => e.runtime
  BY <1>1, <1>2, <1>3 DEF EntryInv, Finds, Entry
<1> QED BY <1>1, <1>2, <1>3, <1>4, <1>5, HostGoesOn

LEMMA HostSpawnedKeeps ==
  ASSUME AdmissionInv, NEW c \in Calls, HostSpawned(c)
  PROVE  AdmissionInv'
<1> DEFINE e == [Entry(c) EXCEPT !.runtime = TRUE, !.killed = FALSE, !.run = @ + 1]
<1>1. /\ calls[c].at = "starting" /\ calls[c].at \in AtWork /\ Goes(c, "prompting")
      /\ UNCHANGED <<faults, opened>> /\ NoOtherChange
  BY DEF HostSpawned, AtWork
<1>2. Entry(c) \in Entries /\ calls[c].on \in Ids
  BY <1>1, AtWorkFacts
<1>3. e \in Entries /\ e.status = Entry(c).status /\ e.runtime /\ ~e.killed
  <2>1. Entry(c).run \in Nat /\ Entry(c).run + 1 \in Nat
    BY <1>2 DEF Entries
  <2> QED BY <1>2, <2>1 DEF Entries
<1>4. sessions' = [sessions EXCEPT ![calls[c].on] = e]
  BY <1>2, Zenon DEF HostSpawned, Entry, AdmissionInv, TypeOK
<1>5. calls[c].kind # "close" /\ e.status # "closed"
  <2>1. Sensible(c) /\ Finds(c) /\ calls[c].on # None
    BY <1>2, AdmissionAssumption DEF AdmissionInv, LockInv, HoldInv, Ids, None
  <2>2. calls[c].kind # "close"
    BY <2>1, <1>1 DEF Sensible, Admitted, Restarts
  <2> QED BY <2>1, <2>2, <1>1, <1>3 DEF Finds, Entry
<1> HIDE DEF e
<1> QED BY <1>1, <1>3, <1>4, <1>5, HostGoesOn

LEMMA HostEndedKeeps ==
  ASSUME AdmissionInv, NEW c \in Calls, HostEnded(c)
  PROVE  AdmissionInv'
<1>1. /\ calls[c].at = "stopping" /\ calls[c].at \in AtWork /\ NoOtherChange /\ opened' = opened
  BY DEF HostEnded, AtWork
<1>2. /\ Leavable(c) /\ calls[c] # NoCall /\ calls[c].on \in Ids /\ First(tail[calls[c].on], c)
      /\ \A t \in Ids : First(tail[t], c) => t = calls[c].on
      /\ calls[c].on =< created /\ Entry(c) \in Entries
  BY <1>1, AtWorkFacts
<1> PICK s \in Ids : s = calls[c].on
  BY <1>2
<1>3. Free(s, c) /\ EntryInv(s) /\ ~(s > created)
  BY <1>2, TurnIsFree, AdmissionAssumption DEF AdmissionInv, HoldInv, TypeOK, Ids
<1>4. CASE calls[c].kind # "close"
  <2> DEFINE e == [Entry(c) EXCEPT !.runtime = FALSE]
  <2>1. e \in Entries /\ e.status = Entry(c).status /\ ~e.runtime /\ e.killed = Entry(c).killed
    BY <1>2 DEF Entries
  <2>2. sessions' = [sessions EXCEPT ![calls[c].on] = e] /\ Goes(c, "starting") /\ faults' = faults
    BY <1>2, <1>4, Zenon DEF HostEnded, Entry, AdmissionInv, TypeOK
  <2>3. e.killed => e.status \notin {"live_idle", "live_busy"}
    BY <2>1, <1>3 DEF EntryInv, Entry
  <2> HIDE DEF e
  <2> QED BY <1>1, <1>4, <2>1, <2>2, <2>3, HostGoesOn
<1>5. CASE calls[c].kind = "close" /\ Release(c) /\ sessions' = [sessions EXCEPT ![s] = Absent]
           /\ faults' = faults
  <2>1. Absent \in Entries /\ Fine(Absent) /\ ~Absent.runtime
    BY DEF Absent, Entries, Fine, Statuses
  <2>2. sessions' \in [Ids -> Entries] /\ sessions'[s] = Absent /\ \A t \in Ids \ {s} : sessions'[t] = sessions[t]
    BY <1>5, <2>1 DEF AdmissionInv, TypeOK
  <2>3. faults' \in 0..MaxFaults /\ opened' \in BOOLEAN
    BY <1>1, <1>5 DEF AdmissionInv, TypeOK
  <2> QED BY <1>1, <1>2, <1>3, <1>5, <2>1, <2>2, <2>3, EndKeeps
<1>6. CASE /\ calls[c].kind = "close" /\ Release(c) /\ faults < MaxFaults /\ faults' = faults + 1
           /\ sessions' = [sessions EXCEPT ![calls[c].on].status = "closed",
                                           ![calls[c].on].runtime = FALSE]
  <2> DEFINE e == [sessions[s] EXCEPT !.status = "closed", !.runtime = FALSE]
  <2>1. e \in Entries /\ Fine(e) /\ ~e.runtime
    BY <1>2 DEF Entries, Fine, Entry, Statuses
  <2>2. sessions' = [sessions EXCEPT ![s] = e]
    BY <1>6, <1>2 DEF AdmissionInv, TypeOK
  <2> HIDE DEF e
  <2>3. sessions' \in [Ids -> Entries] /\ sessions'[s] = e /\ \A t \in Ids \ {s} : sessions'[t] = sessions[t]
    BY <2>1, <2>2 DEF AdmissionInv, TypeOK
  <2>4. faults' \in 0..MaxFaults /\ opened' \in BOOLEAN
    BY <1>1, <1>6, AdmissionAssumption DEF AdmissionInv, TypeOK
  <2> QED BY <1>1, <1>2, <1>3, <1>6, <2>1, <2>3, <2>4, EndKeeps
<1> QED BY <1>4, <1>5, <1>6 DEF HostEnded

LEMMA HostUpKeeps ==
  ASSUME AdmissionInv, NEW c \in Calls, HostUp(c)
  PROVE  AdmissionInv'
<1>1. /\ calls[c].at = "prompting" /\ calls[c].at \in AtWork /\ Release(c) /\ NoOtherChange
      /\ sessions' = [sessions EXCEPT ![calls[c].on] = Started(Entry(c), calls[c].kind)]
      /\ UNCHANGED <<faults, opened>>
  BY DEF HostUp, AtWork, Sets
<1>2. /\ Leavable(c) /\ calls[c] # NoCall /\ calls[c].on \in Ids /\ First(tail[calls[c].on], c)
      /\ \A t \in Ids : First(tail[t], c) => t = calls[c].on
      /\ calls[c].on =< created /\ Entry(c) \in Entries
  BY <1>1, AtWorkFacts
<1> PICK s \in Ids : s = calls[c].on
  BY <1>2
<1>3. Free(s, c) /\ Finds(c) /\ ~(s > created)
  BY <1>2, TurnIsFree, AdmissionAssumption DEF AdmissionInv, HoldInv, TypeOK, Ids
<1>4. calls[c].kind # "close"
  BY <1>1 DEF AdmissionInv, LockInv, Sensible, Admitted, Restarts
<1> DEFINE e == [Entry(c) EXCEPT !.status = "live_idle", !.waits = FALSE,
                                 !.queue = IF calls[c].kind = "submit" THEN @ + 1 ELSE @]
<1>5. e \in Entries /\ e.status = "live_idle" /\ e.runtime = Entry(c).runtime /\ ~e.killed
  <2>1. Entry(c).queue \in Nat /\ Entry(c).queue + 1 \in Nat /\ ~Entry(c).killed
    BY <1>1, <1>2, <1>3 DEF Entries, Finds, Entry
  <2>2. (IF calls[c].kind = "submit" THEN Entry(c).queue + 1 ELSE Entry(c).queue) \in Nat
    BY <2>1
  <2> QED BY <1>2, <2>1, <2>2 DEF Entries, Statuses
<1>6. Started(Entry(c), calls[c].kind) = Drained(e)
  BY DEF Started
<1> HIDE DEF e
<1>7. Drained(e) \in Entries /\ Fine(Drained(e))
  BY <1>5, DrainedFine
<1>8. s \in HostsOrWorked
  BY <1>1, <1>4 DEF HostsOrWorked
<1>9. sessions' \in [Ids -> Entries] /\ sessions'[s] = Drained(e) /\ \A t \in Ids \ {s} : sessions'[t] = sessions[t]
  BY <1>1, <1>6, <1>7 DEF AdmissionInv, TypeOK
<1>10. faults' \in 0..MaxFaults /\ opened' \in BOOLEAN /\ (opened => opened')
  BY <1>1 DEF AdmissionInv, TypeOK
<1> QED BY <1>1, <1>2, <1>3, <1>7, <1>8, <1>9, <1>10, EndKeeps

LEMMA AbsentFacts == Absent \in Entries /\ Fine(Absent) /\ ~Absent.runtime /\ ~Absent.killed
BY DEF Absent, Entries, Fine, Statuses

LEMMA QuarantinedFacts ==
  ASSUME NEW e \in Entries
  PROVE  /\ Quarantined(e) \in Entries /\ Fine(Quarantined(e)) /\ ~Quarantined(e).runtime
         /\ ~Quarantined(e).killed /\ Quarantined(e).status = "quarantined"
         /\ Quarantined(e).controller = e.controller
BY DEF Entries, Quarantined, Fine, Statuses

LEMMA StartFailsKeeps ==
  ASSUME AdmissionInv, NEW c \in Calls, StartFails(c)
  PROVE  AdmissionInv'
<1>1. /\ calls[c].at \in AtWork /\ Release(c) /\ NoOtherChange /\ opened' = opened
      /\ faults' = faults \/ (faults < MaxFaults /\ faults' = faults + 1)
  BY DEF StartFails, AtWork
<1>2. /\ Leavable(c) /\ calls[c] # NoCall /\ calls[c].on \in Ids /\ First(tail[calls[c].on], c)
      /\ \A t \in Ids : First(tail[t], c) => t = calls[c].on
      /\ calls[c].on =< created /\ Entry(c) \in Entries
  BY <1>1, AtWorkFacts
<1> PICK s \in Ids : s = calls[c].on
  BY <1>2
<1>3. Free(s, c) /\ ~(s > created)
  BY <1>2, TurnIsFree, AdmissionAssumption DEF AdmissionInv, HoldInv, TypeOK, Ids
<1> DEFINE e == IF calls[c].kind = "create" /\ ~sessions[s].durable THEN Absent ELSE Quarantined(sessions[s])
<1>4. e \in Entries /\ Fine(e) /\ ~e.runtime
  <2>1. sessions[s] \in Entries
    BY DEF AdmissionInv, TypeOK
  <2> QED BY <2>1, AbsentFacts, QuarantinedFacts
<1>5. sessions' = [sessions EXCEPT ![s] = e]
  BY Zenon DEF StartFails, AdmissionInv, TypeOK
<1> HIDE DEF e
<1>6. sessions' \in [Ids -> Entries] /\ sessions'[s] = e /\ \A t \in Ids \ {s} : sessions'[t] = sessions[t]
  BY <1>4, <1>5 DEF AdmissionInv, TypeOK
<1>7. faults' \in 0..MaxFaults /\ opened' \in BOOLEAN
  BY <1>1, AdmissionAssumption DEF AdmissionInv, TypeOK
<1> QED BY <1>1, <1>2, <1>3, <1>4, <1>6, <1>7, EndKeeps

-----------------------------------------------------------------------------
(* Turns that make room.                                                   *)

\* A call that makes room leads the admission line, and its session has no host.
RoomFacts(c) ==
    /\ calls[c] # NoCall /\ calls[c].kind \in Admitted /\ First(line, c)
    /\ stop.at \in {"no", "line"}
    /\ calls[c].on \in {None} \cup Ids /\ calls[c].on =< created
    /\ calls[c].on # None <=> calls[c].kind # "create"
    /\ calls[c].on # None => /\ First(tail[calls[c].on], c)
                             /\ ~Entry(c).runtime /\ Entry(c).status # "closed"

LEMMA MakesRoomFacts ==
  ASSUME AdmissionInv, NEW c \in Calls, calls[c].at \in MakingRoom
  PROVE  RoomFacts(c)
<1>1. InLines(c) /\ Leads(c) /\ Sensible(c) /\ Finds(c) /\ calls[c].on \in {None} \cup Ids
  BY OnIsOne DEF AdmissionInv, LockInv, HoldInv
<1>2. calls[c].kind \in Admitted /\ First(line, c)
  BY <1>1 DEF Sensible, Leads, MakingRoom
<1>3. stop.at \in {"no", "line"}
  BY <1>2, EmptyHasNone DEF AdmissionInv, StopInv
<1>4. calls[c] # NoCall
  BY <1>2 DEF NoCall, Admitted
<1>5. calls[c].kind # "close"
  BY <1>2 DEF Admitted
<1>6. calls[c].on # None <=> calls[c].kind # "create"
  BY <1>1, <1>2 DEF Sensible, Admitted, MakingRoom
<1>7. calls[c].at \in Owned
  BY DEF MakingRoom, Owned, Locked
<1> QED BY <1>1, <1>2, <1>3, <1>4, <1>5, <1>6, <1>7 DEF RoomFacts, Sensible, Leads, Finds, Entry

\* One that ends without a host: its session is as it was.
LEMMA RoomLeft ==
  ASSUME AdmissionInv, NEW c \in Calls, calls[c].at = "room", Release(c), NoOtherChange,
         UNCHANGED <<sessions, faults>>, opened' \in BOOLEAN, opened => opened'
  PROVE  AdmissionInv'
<1>1. calls[c].at \in MakingRoom /\ calls[c].at \in Owned \ {"evict"}
  BY DEF MakingRoom, Owned, Locked
<1>2. RoomFacts(c) /\ Leavable(c)
  BY <1>1, MakesRoomFacts, OwnerLeaves DEF AdmissionInv
<1>3. \A t \in Ids : First(tail[t], c) => t = calls[c].on
  <2>1. \A t \in Ids : First(tail[t], c) => c \in Range(tail[t])
    BY FirstIsIn DEF AdmissionInv, TypeOK
  <2> QED BY <2>1 DEF AdmissionInv, LockInv, InLines
<1>4. \A t \in Ids : ~(First(tail[t], c) /\ Waiting(t))
  BY <1>2, <1>3 DEF RoomFacts, Waiting, Entry, None, Ids
<1>5. sessions' \in [Ids -> Entries] /\ faults' \in 0..MaxFaults
  BY DEF AdmissionInv, TypeOK
<1>6. None \notin Ids
  BY DEF None, Ids
<1> QED BY <1>2, <1>4, <1>5, <1>6, EndKeeps DEF RoomFacts

LEMMA HasNoRecoveryKeeps ==
  ASSUME AdmissionInv, NEW c \in Calls, HasNoRecovery(c)
  PROVE  AdmissionInv'
<1>1. HostOut \in BOOLEAN /\ opened \in BOOLEAN
  BY DEF HostOut, AdmissionInv, TypeOK
<1> QED BY <1>1, RoomLeft DEF HasNoRecovery, HasRoom

\* The call comes to wait last for the lock of the session `t`.
LEMMA JoinKeeps ==
  ASSUME AdmissionInv, NEW c \in Calls, calls[c] # NoCall,
         NEW r \in CallRecords, calls' = [calls EXCEPT ![c] = r],
         NEW t \in Ids, tail' = [tail EXCEPT ![t] = Append(@, c)], line' = line, c \notin Range(tail[t]),
         UNCHANGED <<sessions, faults, opened>>, NoOtherChange,
         r.kind = calls[c].kind, r.on = calls[c].on, r.rest = calls[c].rest, r.actor = calls[c].actor,
         r.at \notin AtWork,
         \A u \in Ids : u # t => (c \in Range(tail[u]) <=> r.on = u /\ r.at \in Locked),
         (r.on = t /\ r.at \in Locked) \/ (r.victim = t /\ r.at \in {"evict", "ending"}),
         r.victim \in {None, t},
         \A u \in Ids \ {t} : r.on = u /\ r.at \in Owned => First(tail[u], c),
         r.on = t => r.at \notin Owned, r.at # "ending", r.at # "line",
         calls[c].kind \in Admitted => First(line, c),
         Sensible(c)', Finds(c)',
         LateKills \/ stop.at \in {"no", "line"},
         \A u \in Ids : ~(First(tail[u], c) /\ Waiting(u))
  PROVE  AdmissionInv'
<1>1. calls' \in [Calls -> CallRecords] /\ calls'[c] = r /\ \A d \in Calls \ {c} : calls'[d] = calls[d]
  BY DEF AdmissionInv, TypeOK
<1>2. /\ Append(tail[t], c) \in Seq(Calls) /\ OnlyMoves(c, tail[t], Append(tail[t], c))
      /\ c \in Range(Append(tail[t], c))
  BY JoinMoves DEF AdmissionInv, TypeOK, LockInv, OnlyMoves
<1>3. tail' \in [Ids -> Seq(Calls)] /\ tail'[t] = Append(tail[t], c) /\ \A u \in Ids \ {t} : tail'[u] = tail[u]
  BY <1>2 DEF AdmissionInv, TypeOK
<1>4. TypeOK'
  BY <1>1, <1>3 DEF AdmissionInv, TypeOK, NoOtherChange
<1>5. Moves(c, None)
  <2>1. OnlyMoves(c, line, line') /\ \A u \in Ids \ {t} : OnlyMoves(c, tail[u], tail[u])
    BY StaysPut DEF AdmissionInv, TypeOK, LockInv
  <2> QED BY <2>1, <1>1, <1>2, <1>3 DEF Moves, NoOtherChange, AdmissionInv, TypeOK, None, Ids
<1>6. InLines(c)'
  <2>1. c \in Range(line') <=> calls'[c].kind \in Admitted
    BY <1>1 DEF AdmissionInv, LockInv, InLines
  <2>2. c \in Range(tail'[t])
    BY <1>2, <1>3
  <2>3. \A u \in Ids : r.victim = u => u = t
    BY DEF None, Ids
  <2> QED BY <2>1, <2>2, <2>3, <1>1, <1>3 DEF InLines
<1>7. Leads(c)'
  BY <1>1, <1>3 DEF Leads
<1>8. /\ stop.at \in {"no", "line"} \/ LateKills
      /\ c \in Range(line') => c \in Range(line)
      /\ None \notin Ids
  BY DEF None, Ids
<1>9. BookInv'
  <2>1. HostsOrWorked' \subseteq HostsOrWorked
    BY <1>1 DEF HostsOrWorked
  <2> QED BY <2>1, SameBook
<1> QED BY <1>1, <1>4, <1>5, <1>6, <1>7, <1>8, <1>9, TurnKeeps

LEMMA TakesAdmissionKeeps ==
  ASSUME AdmissionInv, NEW c \in Calls, TakesAdmission(c)
  PROVE  AdmissionInv'
<1>1. /\ calls[c].at = "line" /\ First(line, c) /\ UNCHANGED <<sessions, faults, opened>> /\ NoOtherChange
  BY DEF TakesAdmission, First
<1>2. InLines(c) /\ Leads(c) /\ Sensible(c) /\ Finds(c) /\ calls[c].on \in {None} \cup Ids
  BY OnIsOne DEF AdmissionInv, LockInv, HoldInv
<1>3. /\ calls[c] # NoCall /\ \A t \in Ids : c \notin Range(tail[t])
      /\ calls[c].kind \in Admitted /\ calls[c].victim = None
  BY <1>1, <1>2 DEF NoCall, InLines, Locked, Sensible, None, Ids
<1>4. Leavable(c) /\ \A t \in Ids : ~First(tail[t], c)
  BY <1>1, <1>3, FirstIsIn DEF Leavable, AdmissionInv, TypeOK
<1>5. stop.at \in {"no", "line"} /\ None \notin Ids
  BY <1>1, EmptyHasNone DEF AdmissionInv, StopInv, None, Ids
<1>6. /\ sessions' \in [Ids -> Entries] /\ sessions' = sessions /\ faults' \in 0..MaxFaults
      /\ opened' \in BOOLEAN /\ opened' = opened
  BY <1>1 DEF AdmissionInv, TypeOK
<1>7. CASE Release(c)
  BY <1>1, <1>3, <1>4, <1>5, <1>6, <1>7, EndKeeps
<1>8. CASE calls[c].kind = "create" /\ Goes(c, "room")
  <2> DEFINE r == [calls[c] EXCEPT !.at = "room"]
  <2>1. /\ r \in CallRecords /\ r.at = "room" /\ calls' = [calls EXCEPT ![c] = r]
        /\ r.kind = calls[c].kind /\ r.on = calls[c].on /\ r.victim = calls[c].victim
        /\ r.actor = calls[c].actor /\ r.rest = calls[c].rest /\ line' = line /\ tail' = tail
    BY <1>3, <1>8, AtFacts DEF Goes, AdmissionInv, Places, lockVars
  <2> HIDE DEF r
  <2>2. /\ calls' \in [Calls -> CallRecords] /\ calls'[c] = r /\ \A d \in Calls \ {c} : calls'[d] = calls[d]
    BY <2>1 DEF AdmissionInv, TypeOK
  <2>3. r.on = None
    BY <1>1, <1>2, <1>8, <2>1 DEF Sensible
  <2>4. TypeOK'
    BY <2>1, <2>2, <1>1 DEF AdmissionInv, TypeOK, NoOtherChange
  <2>5. Moves(c, None)
    <3>1. OnlyMoves(c, line, line') /\ \A u \in Ids : OnlyMoves(c, tail[u], tail'[u])
      BY <2>1, StaysPut DEF AdmissionInv, TypeOK, LockInv
    <3> QED BY <3>1, <1>1, <1>5, <2>2 DEF Moves, NoOtherChange, AdmissionInv, TypeOK
  <2>6. InLines(c)'
    BY <1>2, <1>3, <2>1, <2>2, <2>3, <1>5 DEF InLines
  <2>7. Leads(c)'
    BY <1>1, <1>3, <1>5, <2>1, <2>2, <2>3 DEF Leads
  <2>8. Sensible(c)'
    BY <1>1, <1>2, <1>3, <2>1, <2>2, <2>3 DEF Sensible, MakingRoom, AtWork, NoOtherChange
  <2>9. Finds(c)'
    BY <1>8, <2>1, <2>2, <2>3 DEF Finds, AtWork
  <2>10. BookInv'
    <3>1. HostsOrWorked' \subseteq HostsOrWorked
      BY <1>1, <2>1, <2>2 DEF HostsOrWorked, AtWork
    <3> QED BY <3>1, <1>6, SameBook
  <2>11. calls'[c].kind = "create" /\ calls'[c].on = None => calls[c].kind = "create" /\ calls[c].on = None
    BY <2>1, <2>2
  <2> QED BY <1>1, <1>3, <1>4, <1>5, <1>6, <2>4, <2>5, <2>6, <2>7, <2>8, <2>9, <2>10, <2>11, TurnKeeps
<1>9. CASE /\ calls[c].kind # "create" /\ Listed(calls[c].on)
           /\ calls' = [calls EXCEPT ![c].at = "lock"]
           /\ tail' = [tail EXCEPT ![calls[c].on] = Append(@, c)]
           /\ line' = line
  <2>1. calls[c].on # None
    BY <1>2, <1>3, <1>9 DEF Sensible, Admitted
  <2> PICK t \in Ids : t = calls[c].on
    BY <2>1, <1>2
  <2> DEFINE r == [calls[c] EXCEPT !.at = "lock"]
  <2>2. /\ r \in CallRecords /\ r.at = "lock" /\ calls' = [calls EXCEPT ![c] = r]
        /\ r.kind = calls[c].kind /\ r.on = calls[c].on /\ r.victim = calls[c].victim
        /\ r.actor = calls[c].actor /\ r.rest = calls[c].rest
    BY <1>3, <1>9, AtFacts DEF AdmissionInv, Places
  <2> HIDE DEF r
  <2>3. calls'[c] = r
    BY <2>2 DEF AdmissionInv, TypeOK
  <2>4. Sensible(c)'
    BY <1>1, <1>2, <1>3, <1>9, <2>1, <2>2, <2>3 DEF Sensible, MakingRoom, AtWork, NoOtherChange
  <2>5. Finds(c)'
    BY <1>2, <1>3, <2>2, <2>3 DEF Finds, AtWork, MakingRoom, Admitted
  <2>6. /\ r.at \notin AtWork /\ r.at \notin Owned /\ r.at \in Locked
        /\ r.at \notin {"ending", "line"}
    BY <2>2 DEF AtWork, Owned, Locked
  <2>7. \A u \in Ids : u # t => (c \in Range(tail[u]) <=> r.on = u /\ r.at \in Locked)
    BY <1>3, <2>2
  <2> QED BY <1>1, <1>3, <1>4, <1>5, <1>9, <2>2, <2>4, <2>5, <2>6, <2>7, JoinKeeps
<1> QED BY <1>7, <1>8, <1>9 DEF TakesAdmission

LEMMA WindowEndsKeeps ==
  ASSUME AdmissionInv, NEW c \in Calls, WindowEnds(c)
  PROVE  AdmissionInv'
<1>1. calls[c].at = "window" /\ UNCHANGED <<sessions, faults, opened>> /\ NoOtherChange
  BY DEF WindowEnds, NoOtherChange
<1>2. InLines(c) /\ Leads(c) /\ Sensible(c) /\ Finds(c) /\ calls[c].on \in Ids
  BY <1>1, OnIsOne DEF AdmissionInv, LockInv, HoldInv
<1>3. /\ calls[c] # NoCall /\ \A t \in Ids : c \notin Range(tail[t])
      /\ calls[c].kind = "attach" /\ calls[c].kind \notin Admitted /\ calls[c].victim = None
  BY <1>1, <1>2 DEF NoCall, InLines, Locked, Sensible, None, Ids, Admitted
<1>4. Leavable(c) /\ \A t \in Ids : ~First(tail[t], c)
  BY <1>2, <1>3, FirstIsIn DEF Leavable, AdmissionInv, TypeOK, InLines
<1>5. /\ sessions' \in [Ids -> Entries] /\ sessions' = sessions /\ faults' \in 0..MaxFaults
      /\ opened' \in BOOLEAN /\ opened' = opened /\ None \notin Ids
  BY <1>1 DEF AdmissionInv, TypeOK, None, Ids
<1>6. CASE Release(c)
  BY <1>1, <1>3, <1>4, <1>5, <1>6, EndKeeps
<1>7. CASE /\ ~Stopping
           /\ calls' = [calls EXCEPT ![c].at = "lock"]
           /\ tail' = [tail EXCEPT ![calls[c].on] = Append(@, c)]
           /\ line' = line
  <2> PICK t \in Ids : t = calls[c].on
    BY <1>2
  <2> DEFINE r == [calls[c] EXCEPT !.at = "lock"]
  <2>2. /\ r \in CallRecords /\ r.at = "lock" /\ calls' = [calls EXCEPT ![c] = r]
        /\ r.kind = calls[c].kind /\ r.on = calls[c].on /\ r.victim = calls[c].victim
        /\ r.actor = calls[c].actor /\ r.rest = calls[c].rest
    BY <1>3, <1>7, AtFacts DEF AdmissionInv, Places
  <2> HIDE DEF r
  <2>3. calls'[c] = r
    BY <2>2 DEF AdmissionInv, TypeOK
  <2>4. Sensible(c)'
    BY <1>1, <1>2, <1>3, <2>2, <2>3 DEF Sensible, MakingRoom, AtWork, NoOtherChange
  <2>5. Finds(c)'
    BY <1>3, <2>2, <2>3 DEF Finds, AtWork, MakingRoom
  <2>6. /\ r.at \notin AtWork /\ r.at \notin Owned /\ r.at \in Locked
        /\ r.at \notin {"ending", "line"}
    BY <2>2 DEF AtWork, Owned, Locked
  <2>7. \A u \in Ids : u # t => (c \in Range(tail[u]) <=> r.on = u /\ r.at \in Locked)
    BY <1>3, <2>2
  <2>8. stop.at \in {"no", "line"}
    BY <1>7 DEF Stopping
  <2> QED BY <1>1, <1>3, <1>4, <1>7, <2>2, <2>4, <2>5, <2>6, <2>7, <2>8, JoinKeeps
<1> QED BY <1>6, <1>7 DEF WindowEnds

\* Where a call that makes room is in the sessions' lines.
LEMMA RoomLines ==
  ASSUME AdmissionInv, NEW c \in Calls, calls[c].at \in MakingRoom
  PROVE  /\ \A t \in Ids : First(tail[t], c) => t = calls[c].on \/ t = calls[c].victim
         /\ \A t \in Ids : ~(First(tail[t], c) /\ Waiting(t))
         /\ None \notin Ids
<1>1. RoomFacts(c) /\ InLines(c) /\ Sensible(c)
  BY MakesRoomFacts DEF AdmissionInv, LockInv
<1>2. \A t \in Ids : First(tail[t], c) => c \in Range(tail[t])
  BY FirstIsIn DEF AdmissionInv, TypeOK
<1>3. \A t \in Ids : First(tail[t], c) => t = calls[c].on \/ t = calls[c].victim
  BY <1>1, <1>2 DEF InLines
<1>4. ASSUME NEW t \in Ids, First(tail[t], c), Waiting(t) PROVE FALSE
  <2>1. PICK d \in Calls : First(tail[t], d) /\ calls[d].on = t
    BY <1>4 DEF AdmissionInv, HoldInv, EntryInv, StartsAgain
  <2>2. d = c
    BY <1>4, <2>1 DEF First
  <2> QED BY <2>1, <2>2, <1>1, <1>4 DEF RoomFacts, Entry, Waiting, None, Ids
<1> QED BY <1>3, <1>4 DEF None, Ids

LEMMA LacksRoomKeeps ==
  ASSUME AdmissionInv, NEW c \in Calls, LacksRoom(c)
  PROVE  AdmissionInv'
<1>1. calls[c].at = "room" /\ UNCHANGED <<sessions, faults, opened>> /\ NoOtherChange
  BY DEF LacksRoom
<1>2. calls[c].at \in MakingRoom
  BY <1>1 DEF MakingRoom
<1>3. RoomFacts(c) /\ InLines(c) /\ Leads(c) /\ Sensible(c) /\ Finds(c)
  BY <1>2, MakesRoomFacts DEF AdmissionInv, LockInv, HoldInv
<1>4. CASE Release(c)
  <2>1. opened' \in BOOLEAN /\ (opened => opened')
    BY <1>1 DEF AdmissionInv, TypeOK
  <2> QED BY <1>1, <1>4, <2>1, RoomLeft
<1>5. CASE /\ Candidates # {}
           /\ calls' = [calls EXCEPT ![c].at = "evict", ![c].victim = Min(Candidates)]
           /\ tail' = [tail EXCEPT ![Min(Candidates)] = Append(@, c)]
           /\ line' = line
  <2>1. Candidates \subseteq Nat /\ Candidates \subseteq Ids
    BY DEF Candidates, Live, Ids
  <2> PICK t \in Candidates : t = Min(Candidates)
    BY <1>5, <2>1, MinIsOne
  <2>2. t \in Ids /\ sessions[t].runtime /\ t # None
    BY <2>1 DEF Candidates, Live, None, Ids
  <2>3. t =< created
    <3>1. sessions[t] # Absent
      BY <2>2 DEF Absent
    <3> QED BY <2>2, <3>1, AdmissionAssumption DEF AdmissionInv, HoldInv, EntryInv, TypeOK, Ids
  <2>4. t # calls[c].on
    BY <1>3, <2>2 DEF RoomFacts, Entry
  <2> DEFINE r == [calls[c] EXCEPT !.at = "evict", !.victim = t]
  <2>5. calls[c] \in CallRecords /\ calls[c] # NoCall /\ "evict" \in Places
    BY <1>3 DEF AdmissionInv, TypeOK, RoomFacts, Places
  <2>6. /\ r \in CallRecords /\ r.at = "evict" /\ r.victim = t
        /\ r.kind = calls[c].kind /\ r.on = calls[c].on /\ r.actor = calls[c].actor
        /\ r.rest = calls[c].rest
    BY <2>2, <2>5 DEF CallRecords
  <2>7. calls' = [calls EXCEPT ![c] = r]
    BY <1>5 DEF AdmissionInv, TypeOK
  <2> HIDE DEF r
  <2>8. calls'[c] = r
    BY <2>7 DEF AdmissionInv, TypeOK
  <2>9. c \notin Range(tail[t])
    BY <1>1, <1>3, <2>2, <2>4 DEF InLines
  <2>10. Sensible(c)'
    BY <1>1, <1>3, <2>2, <2>3, <2>4, <2>6, <2>8 DEF Sensible, MakingRoom, AtWork, NoOtherChange
  <2>11. Finds(c)'
    BY <1>1, <1>2, <1>3, <2>6, <2>8 DEF Finds, AtWork, MakingRoom, NoOtherChange
  <2>12. /\ r.at \notin AtWork /\ r.at \in Owned /\ r.at \in Locked
         /\ r.at \notin {"ending", "line"} /\ r.at \in {"evict", "ending"}
    BY <2>6 DEF AtWork, Owned, Locked
  <2>13. \A u \in Ids : u # t => (c \in Range(tail[u]) <=> r.on = u /\ r.at \in Locked)
    BY <1>1, <1>3, <2>6, <2>12 DEF InLines, Locked
  <2>14. \A u \in Ids \ {t} : r.on = u /\ r.at \in Owned => First(tail[u], c)
    BY <1>1, <1>3, <2>6 DEF Leads, Owned, Locked
  <2>15. /\ r.on = t => r.at \notin Owned
         /\ calls[c].kind \in Admitted => First(line, c)
         /\ stop.at \in {"no", "line"}
         /\ calls[c] # NoCall
    BY <1>3, <2>4, <2>6 DEF RoomFacts
  <2>16. \A u \in Ids : ~(First(tail[u], c) /\ Waiting(u))
    BY <1>2, RoomLines
  <2>17. tail' = [tail EXCEPT ![t] = Append(@, c)] /\ line' = line
    BY <1>5
  <2> QED BY <1>1, <2>2, <2>6, <2>7, <2>9, <2>10, <2>11, <2>12, <2>13, <2>14, <2>15, <2>16, <2>17, JoinKeeps
<1> QED BY <1>4, <1>5 DEF LacksRoom

\* The call gives up the lock of the session it had chosen, gone or not, and looks
\* for room again.
LEMMA VictimLeft ==
  ASSUME AdmissionInv, NEW c \in Calls, calls[c].at \in {"evict", "ending"},
         NEW t \in Ids, t = calls[c].victim, First(tail[t], c),
         calls' = [calls EXCEPT ![c].at = "room", ![c].victim = None],
         tail' = [tail EXCEPT ![t] = Tail(@)], line' = line,
         NEW e \in Entries, sessions' = [sessions EXCEPT ![t] = e], Fine(e),
         e.runtime => sessions[t].runtime, NoOtherChange, UNCHANGED <<faults, opened>>
  PROVE  AdmissionInv'
<1>1. calls[c].at \in MakingRoom /\ calls[c].at \in Locked /\ calls[c].at \in Owned
  BY DEF MakingRoom, Owned, Locked
<1>2. RoomFacts(c) /\ InLines(c) /\ Leads(c) /\ Sensible(c) /\ Finds(c)
  BY <1>1, MakesRoomFacts DEF AdmissionInv, LockInv, HoldInv
<1>3. t # calls[c].on /\ t # None /\ None \notin Ids
  BY <1>2 DEF Sensible, None, Ids
<1> DEFINE r == [calls[c] EXCEPT !.at = "room", !.victim = None]
<1>4. /\ r \in CallRecords /\ r.at = "room" /\ r.victim = None
      /\ r.kind = calls[c].kind /\ r.on = calls[c].on /\ r.actor = calls[c].actor
      /\ r.rest = calls[c].rest
  <2>1. calls[c] \in CallRecords /\ calls[c] # NoCall /\ "room" \in Places
    BY <1>2 DEF AdmissionInv, TypeOK, RoomFacts, Places
  <2> QED BY <2>1 DEF CallRecords
<1>5. calls' = [calls EXCEPT ![c] = r]
  BY DEF AdmissionInv, TypeOK
<1> HIDE DEF r
<1>6. calls' \in [Calls -> CallRecords] /\ calls'[c] = r /\ \A d \in Calls \ {c} : calls'[d] = calls[d]
  BY <1>4, <1>5 DEF AdmissionInv, TypeOK
<1>7. OnlyMoves(c, tail[t], Tail(tail[t])) /\ c \notin Range(Tail(tail[t])) /\ Tail(tail[t]) \in Seq(Calls)
  BY LeaveMoves DEF AdmissionInv, TypeOK, LockInv, OnlyMoves
<1>8. /\ tail' \in [Ids -> Seq(Calls)] /\ tail'[t] = Tail(tail[t])
      /\ \A u \in Ids \ {t} : tail'[u] = tail[u]
  BY <1>7 DEF AdmissionInv, TypeOK
<1>9. sessions' \in [Ids -> Entries] /\ sessions'[t] = e /\ \A u \in Ids \ {t} : sessions'[u] = sessions[u]
  BY DEF AdmissionInv, TypeOK
<1>10. TypeOK'
  BY <1>6, <1>8, <1>9 DEF AdmissionInv, TypeOK, NoOtherChange
<1>11. Moves(c, t)
  <2>1. OnlyMoves(c, line, line') /\ \A u \in Ids \ {t} : OnlyMoves(c, tail[u], tail[u])
    BY StaysPut DEF AdmissionInv, TypeOK, LockInv
  <2>2. Free(t, c)
    BY TurnIsFree DEF AdmissionInv
  <2> QED BY <2>1, <2>2, <1>6, <1>7, <1>8, <1>9 DEF Moves, NoOtherChange, AdmissionInv, TypeOK
<1>12. InLines(c)'
  <2>1. c \in Range(line') <=> calls'[c].kind \in Admitted
    BY <1>2, <1>4, <1>6 DEF InLines
  <2>2. \A u \in Ids \ {t} : c \in Range(tail[u]) <=> calls[c].on = u
    BY <1>1, <1>2 DEF InLines
  <2> QED BY <2>1, <2>2, <1>3, <1>4, <1>6, <1>7, <1>8 DEF InLines, Locked
<1>13. Leads(c)'
  BY <1>1, <1>2, <1>3, <1>4, <1>6, <1>8 DEF Leads, RoomFacts
<1>14. Sensible(c)'
  BY <1>1, <1>2, <1>3, <1>4, <1>6 DEF Sensible, NoOtherChange, MakingRoom, AtWork, None, AdmissionInv, TypeOK
<1>15. Finds(c)'
  <2>1. calls[c].on # None => sessions'[calls[c].on] = sessions[calls[c].on]
    BY <1>2, <1>3, <1>9 DEF RoomFacts
  <2> QED BY <2>1, <1>1, <1>2, <1>4, <1>6 DEF Finds, RoomFacts, Entry, AtWork, NoOtherChange
<1>16. EntryInv(t)'
  <2>1. ~(t > created)
    BY <1>2, AdmissionAssumption DEF Sensible, Ids, AdmissionInv, TypeOK
  <2> QED BY <2>1, <1>9 DEF EntryInv, Fine, Waiting, NoOtherChange, Stopping
<1>17. BookInv'
  <2>1. HostsOrWorked' \subseteq HostsOrWorked
    BY <1>4, <1>6, <1>9 DEF HostsOrWorked, AtWork
  <2> QED BY <2>1, SameBook
<1>18. \A u \in Ids \ {t} : ~(Waiting(u) /\ First(tail[u], c))
  BY <1>1, RoomLines
<1>19. calls'[c].kind = "create" /\ calls'[c].on = None => calls[c].kind = "create" /\ calls[c].on = None
  BY <1>4, <1>6
<1>20. calls[c] # NoCall /\ stop.at \in {"no", "line"} /\ (opened => opened')
  BY <1>2 DEF RoomFacts
<1> QED BY <1>10, <1>11, <1>12, <1>13, <1>14, <1>15, <1>16, <1>17, <1>18, <1>19, <1>20, TurnKeeps

LEMMA EvictsOrNotKeeps ==
  ASSUME AdmissionInv, NEW c \in Calls, EvictsOrNot(c)
  PROVE  AdmissionInv'
<1>1. /\ calls[c].at = "evict" /\ First(tail[calls[c].victim], c)
      /\ UNCHANGED <<sessions, faults, opened>> /\ NoOtherChange
  BY DEF EvictsOrNot, HasTurn, First
<1>2. /\ calls[c].at \in MakingRoom /\ calls[c].at \in Owned /\ calls[c].at \in Locked
      /\ calls[c].victim \in Ids
  BY <1>1, OnIsOne DEF MakingRoom, Owned, Locked, AdmissionInv
<1>3. RoomFacts(c) /\ InLines(c) /\ Leads(c) /\ Sensible(c) /\ Finds(c)
  BY <1>2, MakesRoomFacts DEF AdmissionInv, LockInv, HoldInv
<1> PICK t \in Ids : t = calls[c].victim
  BY <1>2
<1>4. EntryInv(t) /\ ~Waiting(t) /\ sessions[t] \in Entries
  BY <1>1, <1>2, RoomLines DEF AdmissionInv, HoldInv, TypeOK
<1>5. CASE sessions[t].runtime /\ Evictable(t) /\ Goes(c, "ending")
  <2>1. "ending" \in Places /\ "ending" \in Owned
    BY DEF Places, Owned, Locked
  <2> PICK r \in CallRecords : r = calls'[c]
    BY <1>3, <1>5, <2>1, GoesFacts DEF AdmissionInv, RoomFacts
  <2>2. /\ calls' = [calls EXCEPT ![c] = r] /\ r.at = "ending"
        /\ r.kind = calls[c].kind /\ r.on = calls[c].on /\ r.victim = t
        /\ r.actor = calls[c].actor /\ r.rest = calls[c].rest
        /\ UNCHANGED lockVars /\ calls'[c] = r /\ \A d \in Calls \ {c} : calls'[d] = calls[d]
    BY <1>3, <1>5, <2>1, GoesFacts, AtFacts DEF AdmissionInv, Goes, RoomFacts
  <2>3. Sensible(c)'
    BY <1>1, <1>3, <2>2 DEF Sensible, MakingRoom, AtWork, NoOtherChange
  <2>4. Finds(c)'
    <3>1. sessions[t].queue = 0 \/ sessions[t].waits \/ Stopping
      BY <1>4, <1>5 DEF Waiting, Evictable, Entries
    <3>2. Stopping' = Stopping
      BY <1>1 DEF Stopping, NoOtherChange
    <3> QED BY <3>1, <3>2, <1>1, <1>2, <1>3, <1>5, <2>2 DEF Finds, Evictable, AtWork, MakingRoom, NoOtherChange
  <2>5. BookInv'
    <3>1. HostsOrWorked' \subseteq HostsOrWorked
      BY <1>1, <2>2 DEF HostsOrWorked, AtWork
    <3> QED BY <3>1, <1>1, SameBook
  <2>6. /\ r.at \in {"evict", "ending"} <=> calls[c].at \in {"evict", "ending"}
        /\ First(tail[r.on], c) \/ r.on = None
        /\ r.at = "ending" => First(tail[r.victim], c)
        /\ r.at \in Owned
        /\ None \notin Ids
        /\ \A u \in Ids : ~(Waiting(u) /\ First(tail[u], c))
    BY <1>1, <1>2, <1>3, <2>1, <2>2, RoomLines DEF RoomFacts
  <2>7. /\ sessions' \in [Ids -> Entries] /\ \A u \in Ids \ {None} : sessions'[u] = sessions[u]
        /\ faults' \in 0..MaxFaults /\ opened' \in BOOLEAN /\ (opened => opened')
        /\ calls[c] # NoCall
    BY <1>1, <1>3 DEF AdmissionInv, TypeOK, RoomFacts
  <2> QED BY <1>1, <1>2, <2>2, <2>3, <2>4, <2>5, <2>6, <2>7, GoesKeeps
<1>6. CASE /\ calls' = [calls EXCEPT ![c].at = "room", ![c].victim = None]
           /\ tail' = [tail EXCEPT ![calls[c].victim] = Tail(@)]
           /\ line' = line
  <2>1. sessions' = [sessions EXCEPT ![t] = sessions[t]]
    BY <1>1 DEF AdmissionInv, TypeOK
  <2>2. Fine(sessions[t])
    BY <1>4 DEF EntryInv, Waiting, Fine
  <2> QED BY <1>1, <1>4, <1>6, <2>1, <2>2, VictimLeft
<1>7. CASE Release(c)
  <2>1. Leavable(c)
    BY <1>1, <1>2, <1>3 DEF Leavable, InLines, Leads, RoomFacts
  <2>2. /\ None \notin Ids /\ calls[c] # NoCall
        /\ \A u \in Ids : ~(First(tail[u], c) /\ Waiting(u))
    BY <1>2, <1>3, RoomLines DEF RoomFacts, None, Ids
  <2>3. sessions' \in [Ids -> Entries] /\ faults' \in 0..MaxFaults /\ opened' \in BOOLEAN
    BY <1>1 DEF AdmissionInv, TypeOK
  <2> QED BY <1>1, <1>7, <2>1, <2>2, <2>3, EndKeeps
<1> QED BY <1>5, <1>6, <1>7 DEF EvictsOrNot

LEMMA EvictedKeeps ==
  ASSUME AdmissionInv, NEW c \in Calls, Evicted(c)
  PROVE  AdmissionInv'
<1>1. calls[c].at = "ending" /\ opened' = opened /\ NoOtherChange
  BY DEF Evicted
<1>2. calls[c].at \in MakingRoom /\ calls[c].at \in Owned \ {"evict"} /\ calls[c].victim \in Ids
  BY <1>1, OnIsOne DEF MakingRoom, Owned, Locked, AdmissionInv
<1>3. RoomFacts(c) /\ Leads(c) /\ Sensible(c) /\ Leavable(c)
  BY <1>2, MakesRoomFacts, OwnerLeaves DEF AdmissionInv, LockInv
<1> PICK t \in Ids : t = calls[c].victim
  BY <1>2
<1>4. /\ First(tail[t], c) /\ ~(t > created) /\ sessions[t] \in Entries
      /\ \A u \in Ids : ~(First(tail[u], c) /\ Waiting(u))
  BY <1>1, <1>2, <1>3, RoomLines, AdmissionAssumption DEF Leads, Sensible, Ids, AdmissionInv, TypeOK
<1>5. CASE /\ sessions' = [sessions EXCEPT ![calls[c].victim] = Absent]
           /\ calls' = [calls EXCEPT ![c].at = "room", ![c].victim = None]
           /\ tail' = [tail EXCEPT ![calls[c].victim] = Tail(@)]
           /\ UNCHANGED <<line, faults>>
  BY <1>1, <1>4, <1>5, AbsentFacts, VictimLeft
<1>6. CASE /\ faults < MaxFaults /\ faults' = faults + 1 /\ Release(c)
           /\ sessions' = [sessions EXCEPT ![calls[c].victim].status = "closed",
                                           ![calls[c].victim].runtime = FALSE]
  <2> DEFINE e == [sessions[t] EXCEPT !.status = "closed", !.runtime = FALSE]
  <2>1. e \in Entries /\ Fine(e) /\ ~e.runtime
    BY <1>4 DEF Entries, Fine, Statuses
  <2>2. sessions' = [sessions EXCEPT ![t] = e]
    BY <1>6 DEF AdmissionInv, TypeOK
  <2> HIDE DEF e
  <2>3. sessions' \in [Ids -> Entries] /\ sessions'[t] = e /\ \A u \in Ids \ {t} : sessions'[u] = sessions[u]
    BY <2>1, <2>2 DEF AdmissionInv, TypeOK
  <2>4. faults' \in 0..MaxFaults /\ opened' \in BOOLEAN
    BY <1>1, <1>6, AdmissionAssumption DEF AdmissionInv, TypeOK
  <2>5. Free(t, c) /\ calls[c] # NoCall
    BY <1>3, <1>4, TurnIsFree DEF AdmissionInv, RoomFacts
  <2> QED BY <1>1, <1>3, <1>4, <1>6, <2>1, <2>3, <2>4, <2>5, EndKeeps
<1> QED BY <1>5, <1>6 DEF Evicted

\* A release goes on to the next session there is, which its call does not have.
LEMMA ReleasesKeeps ==
  ASSUME AdmissionInv, NEW c \in Calls, Releases(c)
  PROVE  AdmissionInv'
<1> DEFINE rest == {u \in calls[c].rest : Listed(u)}
<1>1. /\ TakesLock(c) /\ calls[c].kind = "release" /\ calls[c].at = "lock"
      /\ sessions' = [sessions EXCEPT ![calls[c].on] = LeftBy(@, calls[c].actor)]
      /\ UNCHANGED <<faults, opened>> /\ NoOtherChange
  BY DEF Releases, TakesLock
<1>2. /\ Leavable(c) /\ calls[c] # NoCall /\ calls[c].on \in Ids /\ First(tail[calls[c].on], c)
      /\ \A t \in Ids : First(tail[t], c) => t = calls[c].on
  BY <1>1, LockLeaves DEF AdmissionInv
<1> PICK s \in Ids : s = calls[c].on
  BY <1>2
<1>3. /\ InLines(c) /\ Sensible(c) /\ Finds(c) /\ Free(s, c) /\ ~(s > created)
      /\ calls[c].victim = None /\ calls[c].kind \notin Admitted
  <2>1. InLines(c) /\ Sensible(c) /\ Finds(c) /\ Free(s, c)
    BY <1>2, TurnIsFree DEF AdmissionInv, LockInv, HoldInv
  <2>2. calls[c].victim = None /\ calls[c].kind \notin Admitted
    BY <1>1, <2>1 DEF Sensible, Admitted
  <2>3. ~(s > created)
    BY <1>1, LockFinds, AdmissionAssumption DEF AdmissionInv, TypeOK, Ids
  <2> QED BY <2>1, <2>2, <2>3
<1>4. Entry(c) \in Entries /\ Fine(Entry(c)) /\ Entry(c) = sessions[s]
  BY <1>1, LockFinds DEF Entry
<1> DEFINE e == LeftBy(sessions[s], calls[c].actor)
<1>5. /\ e \in Entries /\ Fine(e) /\ e.runtime = sessions[s].runtime
      /\ sessions' = [sessions EXCEPT ![s] = e]
  BY <1>1, <1>4, LeftFine DEF AdmissionInv, TypeOK
<1> HIDE DEF e
<1>6. /\ sessions' \in [Ids -> Entries] /\ sessions'[s] = e
      /\ \A t \in Ids \ {s} : sessions'[t] = sessions[t]
  BY <1>5 DEF AdmissionInv, TypeOK
<1>7. sessions'[s].runtime => s \in HostsOrWorked
  BY <1>5, <1>6 DEF HostsOrWorked
<1>8. faults' \in 0..MaxFaults /\ opened' \in BOOLEAN /\ (opened => opened')
  BY <1>1 DEF AdmissionInv, TypeOK
<1>9. CASE Release(c)
  BY <1>1, <1>2, <1>3, <1>5, <1>6, <1>7, <1>8, <1>9, EndKeeps
<1>10. CASE /\ rest # {} /\ ~Stopping
            /\ calls' = [calls EXCEPT ![c].on = Min(rest), ![c].rest = rest \ {Min(rest)}]
            /\ tail' = [tail EXCEPT ![calls[c].on] = Tail(@), ![Min(rest)] = Append(@, c)]
            /\ line' = line
  <2>1. calls[c] \in CallRecords \ {NoCall} /\ calls[c].rest \in SUBSET Ids
    BY <1>2 DEF AdmissionInv, TypeOK, CallRecords, NoCall
  <2>2. rest \subseteq Nat /\ rest \subseteq Ids
    BY <2>1 DEF Ids
  <2> PICK m \in rest : m = Min(rest)
    BY <1>10, <2>2, MinIsOne
  <2>3. m \in Ids /\ m # s /\ m # None
    BY <1>1, <1>3, <2>2 DEF Sensible, None, Ids
  <2>4. m =< created
    <3>1. sessions[m] # Absent
      BY DEF Listed, Absent
    <3> QED BY <2>3, <3>1, AdmissionAssumption DEF AdmissionInv, HoldInv, EntryInv, TypeOK, Ids
  <2> DEFINE r == [calls[c] EXCEPT !.on = m, !.rest = rest \ {m}]
  <2>5. /\ r \in CallRecords /\ r.at = "lock" /\ r.victim = None /\ r.kind = "release"
        /\ r.on = m /\ r.actor = calls[c].actor /\ m \notin r.rest
    BY <1>1, <1>3, <2>1, <2>2, <2>3 DEF CallRecords
  <2>6. calls' = [calls EXCEPT ![c] = r]
    BY <1>10 DEF AdmissionInv, TypeOK
  <2> HIDE DEF r
  <2>7. calls' \in [Calls -> CallRecords] /\ calls'[c] = r /\ \A d \in Calls \ {c} : calls'[d] = calls[d]
    BY <2>5, <2>6 DEF AdmissionInv, TypeOK
  <2>8. tail' = [tail EXCEPT ![s] = Tail(@), ![m] = Append(@, c)]
    BY <1>10
  <2>9. /\ tail[s] \in Seq(Calls) /\ tail[m] \in Seq(Calls) /\ Once(tail[s]) /\ Once(tail[m])
        /\ c \notin Range(tail[m])
    BY <1>1, <1>3, <2>3 DEF AdmissionInv, TypeOK, LockInv, InLines
  <2>10. /\ OnlyMoves(c, tail[s], Tail(tail[s])) /\ c \notin Range(Tail(tail[s]))
         /\ Tail(tail[s]) \in Seq(Calls)
    BY <1>2, <2>9, LeaveMoves DEF OnlyMoves
  <2>11. /\ OnlyMoves(c, tail[m], Append(tail[m], c)) /\ c \in Range(Append(tail[m], c))
         /\ Append(tail[m], c) \in Seq(Calls)
    BY <2>9, JoinMoves DEF OnlyMoves
  <2>12. /\ tail' \in [Ids -> Seq(Calls)] /\ tail'[s] = Tail(tail[s]) /\ tail'[m] = Append(tail[m], c)
         /\ \A u \in Ids \ {s, m} : tail'[u] = tail[u]
    BY <2>3, <2>8, <2>10, <2>11 DEF AdmissionInv, TypeOK
  <2>13. TypeOK'
    BY <1>1, <1>6, <1>8, <1>10, <2>7, <2>12 DEF AdmissionInv, TypeOK, NoOtherChange
  <2>14. Moves(c, s)
    <3>1. OnlyMoves(c, line, line') /\ \A u \in Ids \ {s, m} : OnlyMoves(c, tail[u], tail[u])
      BY <1>10, StaysPut DEF AdmissionInv, TypeOK, LockInv
    <3>2. \A u \in Ids : OnlyMoves(c, tail[u], tail'[u])
      BY <3>1, <2>10, <2>11, <2>12
    <3> QED BY <3>1, <3>2, <1>1, <1>3, <1>6, <2>7 DEF Moves, NoOtherChange, AdmissionInv, TypeOK
  <2>15. InLines(c)'
    <3>1. c \in Range(line') <=> calls'[c].kind \in Admitted
      BY <1>1, <1>3, <1>10, <2>5, <2>7 DEF InLines
    <3>2. \A u \in Ids \ {s, m} : c \notin Range(tail[u])
      BY <1>1, <1>3 DEF InLines
    <3> QED BY <3>1, <3>2, <2>3, <2>5, <2>7, <2>10, <2>11, <2>12 DEF InLines, Locked
  <2>16. Leads(c)'
    BY <1>3, <2>3, <2>5, <2>7 DEF Leads, Owned, Locked, Admitted
  <2>17. Sensible(c)'
    BY <1>1, <1>3, <2>3, <2>4, <2>5, <2>7 DEF Sensible, NoOtherChange, MakingRoom
  <2>18. Finds(c)'
    BY <1>1, <1>3, <2>5, <2>7 DEF Finds, NoOtherChange, MakingRoom, AtWork
  <2>19. EntryInv(s)'
    BY <1>1, <1>3, <1>5, <1>6 DEF EntryInv, Fine, Waiting, NoOtherChange, Stopping
  <2>20. BookInv'
    <3>1. HostsOrWorked' \subseteq HostsOrWorked
      BY <1>5, <1>6, <2>5, <2>7 DEF HostsOrWorked, AtWork
    <3> QED BY <3>1, <1>8, SameBook
  <2>21. /\ \A t \in Ids \ {s} : Waiting(t) /\ First(tail[t], c) => StartsAgain(t)'
         /\ stop.at \in {"no", "line"} /\ calls'[c].kind # "create"
    BY <1>2, <1>10, <2>5, <2>7 DEF Stopping
  <2> QED BY <1>1, <1>2, <1>8, <2>13, <2>14, <2>15, <2>16, <2>17, <2>18, <2>19, <2>20, <2>21, TurnKeeps
<1> QED BY <1>9, <1>10 DEF Releases

\* There is room for one more session with a host.
LEMMA RoomBook ==
  ASSUME AdmissionInv, NEW c \in Calls, HasRoom(c), NEW s \in Ids,
         HostsOrWorked' \subseteq HostsOrWorked \cup {s}
  PROVE  BookInv'
<1> SUFFICES ASSUME ~opened' PROVE Cardinality(HostsOrWorked') =< MaxSessions
  BY DEF BookInv
<1>1. calls[c].at = "room" /\ Cardinality(Live) + 1 =< MaxSessions /\ ~HostOut
  BY DEF HasRoom, Room
<1>2. First(line, c) /\ stop.at \in {"no", "line"}
  BY <1>1, MakesRoomFacts DEF RoomFacts, MakingRoom
<1>3. ASSUME NEW t \in HostsOrWorked PROVE t \in Live
  <2>1. t \in Ids /\ EntryInv(t)
    BY DEF HostsOrWorked, AdmissionInv, HoldInv
  <2>2. CASE sessions[t].runtime
    BY <2>1, <2>2 DEF Live, EntryInv
  <2>3. ASSUME NEW d \in Calls, calls[d].on = t, calls[d].at \in AtWork, calls[d].kind # "close"
        PROVE  sessions[t].runtime
    <3>1. Finds(d) /\ Sensible(d) /\ Leads(d)
      BY DEF AdmissionInv, HoldInv, LockInv
    <3>2. CASE calls[d].at \in {"saved", "stopping", "prompting"}
      BY <3>1, <3>2, <2>3, <1>2 DEF Finds
    <3>3. CASE calls[d].at = "starting"
      <4>1. calls[d].kind \in Admitted
        BY <3>1, <3>3, <1>1 DEF Sensible, HostOut
      <4>2. First(line, d)
        BY <3>1, <3>3, <4>1 DEF Leads
      <4>3. d = c
        BY <1>2, <4>2 DEF First
      <4> QED BY <1>1, <3>3, <4>3
    <3> QED BY <2>3, <3>2, <3>3 DEF AtWork
  <2> QED BY <2>1, <2>2, <2>3 DEF HostsOrWorked
<1>4. Live \in SUBSET Ids /\ HostsOrWorked' \subseteq Live \cup {s} /\ Live \cup {s} \in SUBSET Ids
  BY <1>3 DEF Live
<1>5. /\ IsFiniteSet(Live) /\ Cardinality(Live) \in Nat /\ IsFiniteSet(Live \cup {s})
      /\ Cardinality(Live \cup {s}) \in Nat
  BY <1>4, IdsFinite
<1>6. Cardinality(Live \cup {s}) =< Cardinality(Live) + 1
  BY <1>5, FS_AddElement
<1>7. Cardinality(HostsOrWorked') =< Cardinality(Live \cup {s}) /\ Cardinality(HostsOrWorked') \in Nat
  BY <1>4, <1>5, FS_Subset, FS_CardinalityType
<1> QED BY <1>1, <1>5, <1>6, <1>7, AdmissionAssumption

LEMMA StartsKeeps ==
  ASSUME AdmissionInv, NEW c \in Calls, Starts(c)
  PROVE  AdmissionInv'
<1>1. /\ HasRoom(c) /\ calls[c].at = "room" /\ calls[c].kind # "create" /\ Goes(c, "starting")
      /\ faults' = faults /\ NoOtherChange
  BY DEF Starts, HasRoom
<1>2. calls[c].at \in MakingRoom /\ calls[c].at \in Locked /\ calls[c].at \notin {"evict", "ending"}
  BY <1>1 DEF MakingRoom, Locked
<1>3. RoomFacts(c) /\ Sensible(c) /\ Finds(c)
  BY <1>2, MakesRoomFacts DEF AdmissionInv, LockInv, HoldInv
<1> PICK s \in Ids : s = calls[c].on
  BY <1>1, <1>3 DEF RoomFacts
<1>4. /\ First(tail[s], c) /\ ~sessions[s].runtime /\ sessions[s].status # "closed" /\ s # None
      /\ sessions[s] \in Entries /\ EntryInv(s) /\ ~(s > created) /\ calls[c] # NoCall
  BY <1>3, AdmissionAssumption DEF RoomFacts, Entry, AdmissionInv, TypeOK, HoldInv, Ids, None
<1>5. PICK e \in Entries : /\ sessions' = [sessions EXCEPT ![s] = e] /\ ~e.runtime
                           /\ e = sessions[s] \/ e.status = "recovering"
  <2>1. CASE UNCHANGED sessions
    BY <2>1, <1>4 DEF AdmissionInv, TypeOK
  <2>2. CASE sessions' = [sessions EXCEPT ![calls[c].on].status = "recovering"]
    <3> DEFINE f == [sessions[s] EXCEPT !.status = "recovering"]
    <3>1. f \in Entries /\ f.status = "recovering" /\ f.runtime = sessions[s].runtime
      BY <1>4 DEF Entries, Statuses
    <3>2. sessions' = [sessions EXCEPT ![s] = f]
      BY <2>2 DEF AdmissionInv, TypeOK
    <3> HIDE DEF f
    <3> QED BY <3>1, <3>2, <1>4
  <2> QED BY <2>1, <2>2 DEF Starts
<1>6. /\ sessions' \in [Ids -> Entries] /\ sessions'[s] = e
      /\ \A t \in Ids \ {s} : sessions'[t] = sessions[t]
  BY <1>5 DEF AdmissionInv, TypeOK
<1>7. "starting" \in Places /\ "starting" \in Owned
  BY DEF Places, Owned, Locked
<1> PICK r \in CallRecords : r = calls'[c]
  BY <1>1, <1>4, <1>7, GoesFacts DEF AdmissionInv
<1>8. /\ calls' = [calls EXCEPT ![c] = r] /\ r.at = "starting"
      /\ r.kind = calls[c].kind /\ r.on = s /\ r.victim = calls[c].victim
      /\ r.actor = calls[c].actor /\ r.rest = calls[c].rest
      /\ UNCHANGED lockVars /\ calls'[c] = r /\ \A d \in Calls \ {c} : calls'[d] = calls[d]
  BY <1>1, <1>4, <1>7, GoesFacts, AtFacts DEF AdmissionInv, Goes
<1>9. Free(s, c)
  BY <1>4, TurnIsFree DEF AdmissionInv
<1>10. Sensible(c)'
  BY <1>1, <1>2, <1>3, <1>8 DEF Sensible, NoOtherChange, MakingRoom, RoomFacts
<1>11. Finds(c)'
  BY <1>3, <1>4, <1>5, <1>6, <1>8 DEF Finds, MakingRoom, RoomFacts, Admitted
<1>12. EntryInv(s)'
  BY <1>1, <1>4, <1>5, <1>6 DEF EntryInv, Waiting, NoOtherChange
<1>13. BookInv'
  <2>1. HostsOrWorked' \subseteq HostsOrWorked \cup {s}
    BY <1>6, <1>8 DEF HostsOrWorked
  <2> QED BY <2>1, <1>1, RoomBook
<1>14. /\ r.at \in {"evict", "ending"} <=> calls[c].at \in {"evict", "ending"}
       /\ First(tail[r.on], c) \/ r.on = None
       /\ r.at = "ending" => First(tail[r.victim], c)
       /\ s \in Ids /\ sessions'[s] # sessions[s] => Free(s, c)
       /\ s \in Ids => EntryInv(s)'
       /\ r.at \in Owned
       /\ \A u \in Ids \ {s} : Waiting(u) /\ First(tail[u], c) => StartsAgain(u)'
  BY <1>2, <1>4, <1>7, <1>8, <1>9, <1>12, RoomLines
<1>15. faults' \in 0..MaxFaults /\ opened' \in BOOLEAN /\ (opened => opened')
  BY <1>1 DEF AdmissionInv, TypeOK, HasRoom, HostOut
<1> QED BY <1>1, <1>2, <1>4, <1>6, <1>8, <1>10, <1>11, <1>13, <1>14, <1>15, GoesKeeps

\* A session is created: nobody has anything to do with it but its call.
LEMMA CreatesKeeps ==
  ASSUME AdmissionInv, NEW c \in Calls, Creates(c)
  PROVE  AdmissionInv'
<1>1. /\ HasRoom(c) /\ calls[c].at = "room" /\ calls[c].kind = "create"
      /\ UNCHANGED <<line, asked, restarts, actors, stop, saved, faults>>
  BY DEF Creates, HasRoom
<1>2. calls[c].at \in MakingRoom
  BY <1>1 DEF MakingRoom
<1>3. RoomFacts(c) /\ InLines(c) /\ Sensible(c) /\ calls[c].on = None /\ calls[c].victim = None
  <2>1. RoomFacts(c) /\ InLines(c) /\ Sensible(c)
    BY <1>2, MakesRoomFacts DEF AdmissionInv, LockInv
  <2> QED BY <2>1, <1>1 DEF RoomFacts, Sensible
<1>4. Pending \in SUBSET Calls /\ c \in Pending /\ IsFiniteSet(Pending) /\ Cardinality(Pending) \in Nat
  BY <1>1, <1>3, CallsFinite DEF Pending
<1>5. /\ IsFiniteSet(Pending \ {c}) /\ Cardinality(Pending \ {c}) = Cardinality(Pending) - 1
      /\ Cardinality(Pending \ {c}) \in Nat
  BY <1>4, FS_RemoveElement, FS_CardinalityType
<1>6. created \in Nat /\ MaxIds \in Nat /\ created + Cardinality(Pending) =< MaxIds
  BY AdmissionAssumption DEF AdmissionInv, TypeOK, CountInv
<1> PICK n \in Ids : n = created + 1
  BY <1>4, <1>5, <1>6 DEF Ids
<1>7. /\ n \in Ids /\ n \in Nat /\ n > created /\ n # None /\ created =< n /\ n \in 0..MaxIds
      /\ created' = n /\ calls' = [calls EXCEPT ![c].on = n, ![c].at = "starting"]
      /\ tail' = [tail EXCEPT ![n] = <<c>>]
  BY <1>6 DEF Ids, None, Creates
<1>8. \A d \in Calls : calls[d].on # n /\ calls[d].victim # n
  <2> TAKE d \in Calls
  <2>1. calls[d].on =< created /\ calls[d].victim =< created
    BY DEF AdmissionInv, LockInv, Sensible
  <2> QED BY <2>1, <1>6
<1>9. tail[n] = <<>>
  <2>1. tail[n] \in Seq(Calls)
    BY <1>7 DEF AdmissionInv, TypeOK
  <2>2. \A x \in Range(tail[n]) : x \in Calls
    BY <2>1, LenProperties, ElementOfSeq DEF Range
  <2>3. Range(tail[n]) = {}
    BY <2>2, <1>7, <1>8 DEF AdmissionInv, LockInv, InLines
  <2> QED BY <2>1, <2>3, NobodyIsEmpty
<1> PICK e \in Entries : /\ sessions' = [sessions EXCEPT ![n] = e] /\ e.status = "recovering"
                         /\ ~e.runtime /\ ~e.killed
  <2>1. PICK durable \in BOOLEAN, a \in {calls[c].actor, Nobody} :
           sessions' = [sessions EXCEPT ![n] =
              [Absent EXCEPT !.status = "recovering", !.durable = durable, !.controller = a]]
    BY DEF Creates
  <2>2. calls[c].actor \in Actors \cup {Nobody}
    BY DEF AdmissionInv, TypeOK, CallRecords, NoCall
  <2> DEFINE f == [Absent EXCEPT !.status = "recovering", !.durable = durable, !.controller = a]
  <2>3. f \in Entries /\ f.status = "recovering" /\ ~f.runtime /\ ~f.killed
    BY <2>2 DEF Absent, Entries, Statuses
  <2> QED BY <2>1, <2>3
<1>10. /\ sessions' \in [Ids -> Entries] /\ sessions'[n] = e
       /\ \A t \in Ids \ {n} : sessions'[t] = sessions[t]
  BY <1>7 DEF AdmissionInv, TypeOK
<1> DEFINE r == [calls[c] EXCEPT !.on = n, !.at = "starting"]
<1>11. /\ r \in CallRecords /\ r.at = "starting" /\ r.on = n /\ r.kind = "create"
       /\ r.victim = None /\ r.rest = calls[c].rest
  <2>1. calls[c] \in CallRecords \ {NoCall} /\ "starting" \in Places
    BY <1>3 DEF AdmissionInv, TypeOK, RoomFacts, Places
  <2> QED BY <2>1, <1>1, <1>3, <1>7 DEF CallRecords
<1>12. calls' = [calls EXCEPT ![c] = r]
  BY <1>7 DEF AdmissionInv, TypeOK
<1> HIDE DEF r
<1>13. calls' \in [Calls -> CallRecords] /\ calls'[c] = r /\ \A d \in Calls \ {c} : calls'[d] = calls[d]
  BY <1>11, <1>12 DEF AdmissionInv, TypeOK
<1>14. /\ <<c>> \in Seq(Calls) /\ OnlyMoves(c, tail[n], <<c>>) /\ c \in Range(<<c>>)
       /\ First(<<c>>, c)
  <2>1. /\ <<>> \in Seq(Calls) /\ Once(<<>>) /\ c \notin Range(<<>>)
        /\ Append(<<>>, c) = <<c>>
    BY EmptyHasNone
  <2>2. /\ OnlyMoves(c, <<>>, Append(<<>>, c)) /\ c \in Range(Append(<<>>, c))
    BY <2>1, JoinMoves
  <2>3. First(<<c>>, c)
    BY DEF First
  <2> QED BY <2>1, <2>2, <2>3, <1>9 DEF OnlyMoves
<1>15. /\ tail' \in [Ids -> Seq(Calls)] /\ tail'[n] = <<c>> /\ \A u \in Ids \ {n} : tail'[u] = tail[u]
  BY <1>1, <1>7, <1>14 DEF AdmissionInv, TypeOK
<1>16. opened' \in BOOLEAN /\ (opened => opened') /\ line' = line /\ stop' = stop /\ actors' = actors
  BY <1>1 DEF AdmissionInv, TypeOK, HasRoom, HostOut
<1>17. TypeOK'
  BY <1>1, <1>7, <1>10, <1>13, <1>15, <1>16 DEF AdmissionInv, TypeOK
<1>18. Moves(c, n)
  <2>1. OnlyMoves(c, line, line') /\ \A u \in Ids \ {n} : OnlyMoves(c, tail[u], tail[u])
    BY <1>16, StaysPut DEF AdmissionInv, TypeOK, LockInv
  <2>2. \A u \in Ids : OnlyMoves(c, tail[u], tail'[u])
    BY <2>1, <1>14, <1>15
  <2>3. Free(n, c)
    BY <1>8 DEF Free
  <2> QED BY <2>1, <2>2, <2>3, <1>7, <1>10, <1>13 DEF Moves
<1>19. InLines(c)'
  <2>1. c \in Range(line') <=> calls'[c].kind \in Admitted
    BY <1>1, <1>3, <1>11, <1>13, <1>16 DEF InLines
  <2>2. \A u \in Ids : c \notin Range(tail[u])
    BY <1>1, <1>3 DEF InLines, None, Ids
  <2> QED BY <2>1, <2>2, <1>7, <1>11, <1>13, <1>14, <1>15 DEF InLines, Locked, None
<1>20. Leads(c)'
  BY <1>3, <1>11, <1>13, <1>14, <1>15, <1>16 DEF Leads, RoomFacts
<1>21. Sensible(c)'
  <2>1. /\ calls'[c].at = "starting" /\ calls'[c].on = n /\ calls'[c].kind = "create"
        /\ calls'[c].victim = None
    BY <1>11, <1>13
  <2>2. n # None /\ n =< created' /\ None =< created'
    BY <1>7 DEF None
  <2> QED BY <2>1, <2>2 DEF Sensible, MakingRoom, Admitted
<1>22. Finds(c)'
  BY <1>7, <1>10, <1>11, <1>13 DEF Finds, MakingRoom
<1>23. EntryInv(n)'
  BY <1>1, <1>7, <1>10 DEF EntryInv, Waiting
<1>24. Stopping' = Stopping /\ \A u \in Ids \ {n} : ~(Waiting(u) /\ First(tail[u], c))
  BY <1>2, <1>16, RoomLines DEF Stopping
<1>25. LockInv'
  BY <1>17, <1>18, <1>19, <1>20, <1>21, LocksKeep DEF AdmissionInv
<1>26. HoldInv'
  <2>1. \A d \in Calls : Finds(d)'
    BY <1>16, <1>18, <1>22, <1>24, FindsKeep DEF AdmissionInv
  <2>2. \A t \in Ids : EntryInv(t)'
    BY <1>17, <1>18, <1>23, <1>24, EntriesKeep DEF AdmissionInv
  <2> QED BY <2>1, <2>2 DEF HoldInv
<1>27. CountInv'
  <2>1. calls[c] # NoCall
    BY <1>3 DEF RoomFacts
  <2>2. \A d \in Calls : (d > asked /\ d =< MaxAsks) \/ d > MaxAsks + restarts => calls'[d] = NoCall
    BY <2>1, <1>13 DEF AdmissionInv, CountInv
  <2>3. Pending' = Pending \ {c}
    BY <1>7, <1>11, <1>13 DEF Pending
  <2>4. created' + Cardinality(Pending') =< MaxIds
    BY <2>3, <1>4, <1>5, <1>6, <1>7
  <2> QED BY <2>2, <2>4, <1>1 DEF CountInv
<1>28. StopInv'
  BY <1>3, <1>16, <1>17, <1>18, StopKeeps DEF AdmissionInv, RoomFacts
<1>29. BookInv'
  <2>1. HostsOrWorked' \subseteq HostsOrWorked \cup {n}
    BY <1>10, <1>11, <1>13 DEF HostsOrWorked
  <2> QED BY <2>1, <1>1, <1>7, RoomBook
<1> QED BY <1>17, <1>25, <1>26, <1>27, <1>28, <1>29 DEF AdmissionInv

-----------------------------------------------------------------------------
(* Calls that begin.                                                       *)

\* A call that is not there is in no queue.
LEMMA NotThere ==
  ASSUME AdmissionInv, NEW c \in Calls, calls[c] = NoCall
  PROVE  c \notin Range(line) /\ \A t \in Ids : c \notin Range(tail[t]) /\ ~First(tail[t], c)
<1>1. InLines(c) /\ calls[c].kind = "none" /\ calls[c].at = "none" /\ calls[c].on = None
      /\ calls[c].victim = None
  BY DEF AdmissionInv, LockInv, NoCall
<1>2. c \notin Range(line) /\ \A t \in Ids : c \notin Range(tail[t])
  BY <1>1 DEF InLines, Admitted, Locked
<1>3. \A t \in Ids : First(tail[t], c) => c \in Range(tail[t])
  BY FirstIsIn DEF AdmissionInv, TypeOK
<1> QED BY <1>2, <1>3

\* The places calls' records have, one after the other.
LEMMA Slots ==
  ASSUME NEW c \in Nat, NEW d \in Nat, NEW most \in Nat, NEW x \in Nat, NEW y \in Nat,
         NEW u \in Nat, NEW v \in Nat, x =< u, y =< v,
         (c =< u /\ c =< most) \/ (c > most /\ c =< most + v),
         (d > u /\ d =< most) \/ d > most + v
  PROVE  d # c /\ ((d > x /\ d =< most) \/ d > most + y)
OBVIOUS

LEMMA BeginsKeeps ==
  ASSUME AdmissionInv, NEW c \in Calls, calls[c] = NoCall,
         NEW k \in Admitted \cup Held \cup Restarts, NEW a \in Actors \cup {Nobody},
         NEW s \in Ids \cup {None}, NEW p \in {"line", "lock", "window"}, NEW rest \in SUBSET Ids,
         Begins(c, k, a, s, p, rest),
         p = "line" <=> k \in Admitted, p = "window" => k = "attach",
         s = None <=> k = "create", s =< created,
         k = "release" => s \notin rest /\ a \in Actors /\ actors'[a] = "gone",
         NEW t, sessions' \in [Ids -> Entries], \A u \in Ids \ {t} : sessions'[u] = sessions[u],
         t \in Ids /\ sessions'[t] # sessions[t] => Free(t, c), t \in Ids => EntryInv(t)',
         t \in Ids => (sessions'[t].runtime => sessions[t].runtime),
         UNCHANGED <<created, stop, saved, opened, faults>>,
         actors' \in [Actors -> {"live", "away", "gone"}],
         \A x \in Actors : actors[x] = "gone" => actors'[x] = "gone",
         asked' \in 0..MaxAsks, restarts' \in 0..MaxRestarts, asked =< asked', restarts =< restarts',
         (c =< asked' /\ c =< MaxAsks) \/ (c > MaxAsks /\ c =< MaxAsks + restarts'),
         created + Cardinality(Pending') =< MaxIds,
         stop.at \in {"no", "line"} \/ p = "window" \/ (p = "lock" /\ LateKills)
  PROVE  AdmissionInv'
<1> DEFINE r == [NoCall EXCEPT !.kind = k, !.actor = a, !.on = s, !.at = p,
                               !.run = IF k \in Restarts THEN sessions[s].run ELSE 0,
                               !.rest = rest]
<1>1. /\ r \in CallRecords /\ r.kind = k /\ r.actor = a /\ r.on = s /\ r.at = p
      /\ r.victim = None /\ r.rest = rest
  <2>1. (IF k \in Restarts THEN sessions[s].run ELSE 0) \in Nat
    <3>1. CASE k \in Restarts
      <4>1. s \in Ids
        BY <3>1 DEF Restarts
      <4>2. sessions[s] \in Entries
        BY <4>1 DEF AdmissionInv, TypeOK
      <4> QED BY <3>1, <4>2 DEF Entries
    <3>2. CASE k \notin Restarts
      BY <3>2
    <3> QED BY <3>1, <3>2
  <2>2. p \in Places
    BY DEF Places
  <2> QED BY <2>1, <2>2 DEF NoCall, CallRecords
<1>2. calls' = [calls EXCEPT ![c] = r]
  BY DEF Begins
<1> HIDE DEF r
<1>3. calls' \in [Calls -> CallRecords] /\ calls'[c] = r /\ \A d \in Calls \ {c} : calls'[d] = calls[d]
  BY <1>1, <1>2 DEF AdmissionInv, TypeOK
<1>4. c \notin Range(line) /\ \A u \in Ids : c \notin Range(tail[u]) /\ ~First(tail[u], c)
  BY NotThere
<1>5. /\ line \in Seq(Calls) /\ Once(line) /\ \A u \in Ids : tail[u] \in Seq(Calls) /\ Once(tail[u])
  BY DEF AdmissionInv, TypeOK, LockInv
<1>6. /\ line' \in Seq(Calls) /\ OnlyMoves(c, line, line') /\ (c \in Range(line') <=> p = "line")
  <2>1. CASE p = "line"
    <3>1. line' = Append(line, c)
      BY <2>1 DEF Begins
    <3> QED BY <2>1, <3>1, <1>4, <1>5, JoinMoves DEF OnlyMoves
  <2>2. CASE p # "line"
    <3>1. line' = line
      BY <2>2 DEF Begins
    <3> QED BY <2>2, <3>1, <1>4, <1>5, StaysPut
  <2> QED BY <2>1, <2>2
<1>7. /\ tail' \in [Ids -> Seq(Calls)]
      /\ \A u \in Ids : OnlyMoves(c, tail[u], tail'[u])
                        /\ (c \in Range(tail'[u]) <=> p = "lock" /\ s = u)
  <2>1. CASE p = "lock"
    <3>1. s \in Ids /\ tail' = [tail EXCEPT ![s] = Append(@, c)]
      BY <2>1 DEF Begins, Admitted
    <3>2. /\ OnlyMoves(c, tail[s], Append(tail[s], c)) /\ c \in Range(Append(tail[s], c))
          /\ Append(tail[s], c) \in Seq(Calls)
      BY <3>1, <1>4, <1>5, JoinMoves DEF OnlyMoves
    <3>3. /\ tail' \in [Ids -> Seq(Calls)] /\ tail'[s] = Append(tail[s], c)
          /\ \A u \in Ids \ {s} : tail'[u] = tail[u]
      BY <3>1, <3>2 DEF AdmissionInv, TypeOK
    <3>4. \A u \in Ids : OnlyMoves(c, tail[u], tail[u])
      BY <1>5, StaysPut
    <3> QED BY <2>1, <3>1, <3>2, <3>3, <3>4, <1>4
  <2>2. CASE p # "lock"
    <3>1. tail' = tail
      BY <2>2 DEF Begins
    <3> QED BY <2>2, <3>1, <1>4, <1>5, StaysPut DEF AdmissionInv, TypeOK
  <2> QED BY <2>1, <2>2
<1>8. TypeOK'
  BY <1>3, <1>6, <1>7 DEF AdmissionInv, TypeOK
<1>9. Moves(c, t)
  BY <1>3, <1>6, <1>7 DEF Moves, AdmissionInv, TypeOK
<1>10. p \notin Owned /\ p \notin MakingRoom /\ p \notin AtWork /\ (p \in Locked <=> p = "lock")
  BY DEF Owned, Locked, MakingRoom, AtWork
<1>11. InLines(c)'
  BY <1>1, <1>3, <1>6, <1>7, <1>10 DEF InLines
<1>12. Leads(c)'
  BY <1>1, <1>3, <1>10 DEF Leads
<1>13. Sensible(c)'
  <2>1. None =< created'
    BY DEF AdmissionInv, TypeOK, None
  <2>2. /\ calls'[c].kind = k /\ calls'[c].on = s /\ calls'[c].at = p /\ calls'[c].victim = None
        /\ calls'[c].rest = rest
    BY <1>1, <1>3
  <2> QED BY <2>1, <2>2, <1>10 DEF Sensible, MakingRoom, Admitted
<1>14. Finds(c)'
  BY <1>1, <1>3, <1>10 DEF Finds, MakingRoom
<1>15. Stopping' = Stopping
  BY DEF Stopping
<1>16. LockInv'
  BY <1>8, <1>9, <1>11, <1>12, <1>13, LocksKeep DEF AdmissionInv
<1>17. HoldInv'
  <2>1. \A d \in Calls : Finds(d)'
    BY <1>9, <1>14, <1>15, FindsKeep DEF AdmissionInv
  <2>2. \A u \in Ids : EntryInv(u)'
    BY <1>4, <1>8, <1>9, <1>15, EntriesKeep DEF AdmissionInv
  <2> QED BY <2>1, <2>2 DEF HoldInv
<1>18. CountInv'
  <2>1. ASSUME NEW d \in Calls, (d > asked' /\ d =< MaxAsks) \/ d > MaxAsks + restarts'
        PROVE  calls'[d] = NoCall
    <3>1. /\ d \in Nat /\ c \in Nat /\ asked \in Nat /\ asked' \in Nat /\ restarts \in Nat
          /\ restarts' \in Nat /\ MaxAsks \in Nat /\ MaxRestarts \in Nat
      BY AdmissionAssumption DEF Calls, AdmissionInv, TypeOK
    <3>2. d # c /\ ((d > asked /\ d =< MaxAsks) \/ d > MaxAsks + restarts)
      BY <2>1, <3>1, Slots
    <3> QED BY <3>2, <1>3 DEF AdmissionInv, CountInv
  <2> QED BY <2>1 DEF CountInv
<1>19. StopInv'
  <2>1. \/ stop.at \in {"no", "line"}
        \/ /\ c \in Range(line') => c \in Range(line)
           /\ LateKills \/ (c \in InTails' => c \in InTails)
    BY <1>6, <1>7 DEF InTails
  <2> QED BY <2>1, <1>8, <1>9, StopKeeps DEF AdmissionInv
<1>20. BookInv'
  <2>1. HostsOrWorked' \subseteq HostsOrWorked
    BY <1>1, <1>3, <1>10 DEF HostsOrWorked
  <2> QED BY <2>1, SameBook
<1> QED BY <1>8, <1>16, <1>17, <1>18, <1>19, <1>20 DEF AdmissionInv

\* What is pending as the call `c` begins, which is a creation or is not.
LEMMA PendingGrows ==
  ASSUME AdmissionInv, NEW c \in Calls, calls[c] = NoCall, \A d \in Calls \ {c} : calls'[d] = calls[d],
         calls'[c].kind = "create" => created + Cardinality(Pending) < MaxIds
  PROVE  created + Cardinality(Pending') =< MaxIds
<1>1. /\ IsFiniteSet(Pending) /\ Cardinality(Pending) \in Nat /\ created \in Nat /\ MaxIds \in Nat
      /\ created + Cardinality(Pending) =< MaxIds /\ Pending \in SUBSET Calls
  <2>1. Pending \in SUBSET Calls
    BY DEF Pending
  <2> QED BY <2>1, CallsFinite, AdmissionAssumption DEF AdmissionInv, TypeOK, CountInv
<1>2. CASE calls'[c].kind = "create"
  <2>1. Pending' \subseteq Pending \cup {c}
    BY DEF Pending
  <2>2. IsFiniteSet(Pending \cup {c}) /\ Cardinality(Pending \cup {c}) =< Cardinality(Pending) + 1
    <3>1. /\ IsFiniteSet(Pending \cup {c})
          /\ Cardinality(Pending \cup {c}) = IF c \in Pending THEN Cardinality(Pending)
                                             ELSE Cardinality(Pending) + 1
      BY <1>1, FS_AddElement, Zenon
    <3> QED BY <1>1, <3>1
  <2>3. /\ Cardinality(Pending') =< Cardinality(Pending \cup {c})
        /\ Cardinality(Pending') \in Nat /\ Cardinality(Pending \cup {c}) \in Nat
    BY <2>1, <2>2, FS_Subset, FS_CardinalityType
  <2> QED BY <1>1, <1>2, <2>2, <2>3
<1>3. CASE calls'[c].kind # "create"
  <2>1. Pending' \subseteq Pending
    BY <1>3 DEF Pending
  <2>2. Cardinality(Pending') =< Cardinality(Pending) /\ Cardinality(Pending') \in Nat
    BY <2>1, <1>1, FS_Subset, FS_CardinalityType
  <2> QED BY <1>1, <2>2
<1> QED BY <1>2, <1>3

\* A client's call begins.
LEMMA AskedKeeps ==
  ASSUME AdmissionInv, NEW k \in Admitted \cup Held, NEW a \in Actors, NEW s \in Ids \cup {None},
         NEW p \in {"line", "lock", "window"}, NEW rest \in SUBSET Ids, Asked(k, a, s, p, rest),
         p = "line" <=> k \in Admitted, p = "window" => k = "attach",
         s = None <=> k = "create", s # None => Listed(s),
         k = "release" => s \notin rest /\ actors'[a] = "gone",
         actors' \in [Actors -> {"live", "away", "gone"}],
         \A x \in Actors : actors[x] = "gone" => actors'[x] = "gone",
         k = "create" => created + Cardinality(Pending) < MaxIds,
         ~Stopping \/ p = "window"
  PROVE  AdmissionInv'
<1>1. /\ asked < MaxAsks /\ asked' = asked + 1 /\ Begins(asked + 1, k, a, s, p, rest)
      /\ UNCHANGED <<sessions, created, restarts, stop, saved, faults, opened>>
  BY DEF Asked
<1>2. /\ asked \in Nat /\ MaxAsks \in Nat /\ MaxRestarts \in Nat /\ created \in Nat
      /\ restarts \in Nat /\ restarts \in 0..MaxRestarts
  BY AdmissionAssumption DEF AdmissionInv, TypeOK
<1> PICK c \in Calls : c = asked + 1
  BY <1>1, <1>2 DEF Calls
<1>3. calls[c] = NoCall
  BY <1>1, <1>2 DEF AdmissionInv, CountInv
<1>4. Begins(c, k, a, s, p, rest)
  BY <1>1
<1>5. calls'[c].kind = k /\ \A d \in Calls \ {c} : calls'[d] = calls[d]
  BY <1>4 DEF Begins, NoCall, AdmissionInv, TypeOK
<1>6. created + Cardinality(Pending') =< MaxIds
  BY <1>3, <1>5, PendingGrows
<1>7. s =< created
  <2>1. CASE s = None
    BY <2>1, <1>2 DEF None
  <2>2. CASE s \in Ids /\ Listed(s)
    <3>1. sessions[s] # Absent
      BY <2>2 DEF Listed, Absent
    <3> QED BY <2>2, <3>1, <1>2 DEF AdmissionInv, HoldInv, EntryInv, Ids
  <2> QED BY <2>1, <2>2
<1>8. /\ asked' \in 0..MaxAsks /\ restarts' \in 0..MaxRestarts /\ asked =< asked' /\ restarts =< restarts'
      /\ c =< asked' /\ c =< MaxAsks
  BY <1>1, <1>2
<1>9. /\ sessions' \in [Ids -> Entries] /\ \A u \in Ids \ {None} : sessions'[u] = sessions[u]
      /\ None \notin Ids
  BY <1>1 DEF AdmissionInv, TypeOK, None, Ids
<1>10. stop.at \in {"no", "line"} \/ p = "window"
  BY DEF Stopping
<1>11. /\ k \in Admitted \cup Held \cup Restarts /\ a \in Actors \cup {Nobody}
       /\ k = "release" => s \notin rest /\ a \in Actors /\ actors'[a] = "gone"
  OBVIOUS
<1> QED BY <1>1, <1>3, <1>4, <1>6, <1>7, <1>8, <1>9, <1>10, <1>11, BeginsKeeps

LEMMA AskAdmittedKeeps ==
  ASSUME AdmissionInv, NEW k \in Admitted, NEW a \in Actors, NEW s \in Ids \cup {None},
         AskAdmitted(k, a, s)
  PROVE  AdmissionInv'
<1>1. /\ ~Stopping /\ Asked(k, a, s, "line", {}) /\ actors' = actors
      /\ IF k = "create" THEN s = None ELSE s # None /\ Listed(s)
  BY DEF AskAdmitted
<1>2. k = "create" => created + Cardinality(Pending) < MaxIds
  BY DEF AskAdmitted, Pending
<1>3. k # "release" /\ k \in Admitted \cup Held /\ {} \in SUBSET Ids
  BY DEF Admitted
<1>4. /\ s = None <=> k = "create"
      /\ s # None => Listed(s)
  BY <1>1
<1>5. actors' \in [Actors -> {"live", "away", "gone"}]
  BY <1>1 DEF AdmissionInv, TypeOK
<1> QED BY <1>1, <1>2, <1>3, <1>4, <1>5, AskedKeeps

LEMMA AskHeldKeeps ==
  ASSUME AdmissionInv, NEW k \in Held \ {"release"}, NEW a \in Actors, NEW s \in Ids, AskHeld(k, a, s)
  PROVE  AdmissionInv'
<1>1. /\ Listed(s) /\ actors' = actors
      /\ \/ ~Stopping /\ Asked(k, a, s, "lock", {})
         \/ k = "attach" /\ Asked(k, a, s, "window", {})
  BY DEF AskHeld
<1>2. /\ k # "release" /\ k \in Admitted \cup Held /\ {} \in SUBSET Ids /\ k \notin Admitted
      /\ s # None /\ k # "create"
  BY DEF Admitted, Held, None, Ids
<1>3. actors' \in [Actors -> {"live", "away", "gone"}]
  BY <1>1 DEF AdmissionInv, TypeOK
<1> QED BY <1>1, <1>2, <1>3, AskedKeeps

LEMMA AskReleaseKeeps ==
  ASSUME AdmissionInv, NEW a \in Actors, AskRelease(a)
  PROVE  AdmissionInv'
<1> DEFINE listed == {u \in Ids : Listed(u)}
<1>1. /\ ~Stopping /\ actors' = [actors EXCEPT ![a] = "gone"] /\ listed # {}
      /\ Asked("release", a, Min(listed), "lock", listed \ {Min(listed)})
  BY DEF AskRelease
<1>2. listed \subseteq Nat /\ listed \subseteq Ids
  BY DEF Ids
<1> PICK s \in listed : s = Min(listed)
  BY <1>1, <1>2, MinIsOne
<1> PICK rest \in SUBSET Ids : rest = listed \ {s}
  OBVIOUS
<1>3. Asked("release", a, s, "lock", rest)
  BY <1>1
<1>4. s \in Ids /\ Listed(s) /\ s \notin rest /\ s # None
  BY <1>2 DEF None, Ids
<1>5. /\ actors' \in [Actors -> {"live", "away", "gone"}] /\ actors'[a] = "gone"
      /\ \A x \in Actors : actors[x] = "gone" => actors'[x] = "gone"
  BY <1>1 DEF AdmissionInv, TypeOK
<1>6. "release" \in Admitted \cup Held /\ "release" \notin Admitted
  BY DEF Admitted, Held
<1> HIDE DEF listed
<1> QED BY <1>1, <1>3, <1>4, <1>5, <1>6, AskedKeeps

-----------------------------------------------------------------------------
(* What hosts, the kernel and the shutdown do, with no call of their own.  *)

\* A session changes that nobody has the lock of.
LEMMA SessionKeeps ==
  ASSUME AdmissionInv, NEW t \in Ids, NEW e \in Entries, sessions' = [sessions EXCEPT ![t] = e],
         UNCHANGED <<created, calls, asked, restarts, lockVars, actors, stop, saved, opened>>,
         faults' \in 0..MaxFaults, Free(t, None), EntryInv(t)',
         e.runtime => sessions[t].runtime
  PROVE  AdmissionInv'
<1>1. /\ sessions' \in [Ids -> Entries] /\ sessions'[t] = e
      /\ \A u \in Ids \ {t} : sessions'[u] = sessions[u]
  BY DEF AdmissionInv, TypeOK
<1>2. line' = line /\ tail' = tail /\ created' = created /\ stop' = stop /\ calls' = calls
  BY DEF lockVars
<1>3. TypeOK'
  BY <1>1, <1>2 DEF AdmissionInv, TypeOK
<1>4. Moves(None, t)
  <2>1. OnlyMoves(None, line, line') /\ \A u \in Ids : OnlyMoves(None, tail[u], tail'[u])
    BY <1>2, StaysPut DEF AdmissionInv, TypeOK, LockInv
  <2> QED BY <2>1, <1>1, <1>2 DEF Moves, AdmissionInv, TypeOK
<1>5. None \notin Calls /\ \A u \in Ids : ~First(tail[u], None)
  <2>1. None \notin Calls
    BY DEF None, Calls
  <2> QED BY <2>1, FirstIsIn DEF AdmissionInv, TypeOK
<1>6. LockInv'
  BY <1>3, <1>4, <1>5, LocksKeep DEF AdmissionInv
<1>7. HoldInv'
  <2>1. Stopping' = Stopping
    BY <1>2 DEF Stopping
  <2>2. \A d \in Calls : Finds(d)'
    BY <2>1, <1>2, <1>4, <1>5, FindsKeep DEF AdmissionInv
  <2>3. \A u \in Ids : EntryInv(u)'
    BY <2>1, <1>3, <1>4, <1>5, EntriesKeep DEF AdmissionInv
  <2> QED BY <2>2, <2>3 DEF HoldInv
<1>8. CountInv'
  <2>1. Pending' = Pending
    BY <1>2 DEF Pending
  <2> QED BY <2>1, <1>2 DEF AdmissionInv, CountInv
<1>9. StopInv'
  <2>1. InTails' = InTails
    BY <1>2 DEF InTails
  <2> QED BY <2>1, <1>2 DEF AdmissionInv, StopInv
<1>10. BookInv'
  <2>1. HostsOrWorked' \subseteq HostsOrWorked
    BY <1>1, <1>2 DEF HostsOrWorked
  <2> QED BY <2>1, SameBook
<1> QED BY <1>3, <1>6, <1>7, <1>8, <1>9, <1>10 DEF AdmissionInv

LEMMA FreeOfAll ==
  ASSUME NEW s, Free(s, None)
  PROVE  \A c \in Calls : Free(s, c)
BY DEF Free, None, Calls

\* The host of a session nobody has the lock of is to be started again.
LEMMA RestartKeeps ==
  ASSUME AdmissionInv, NEW k \in Restarts, NEW s \in Ids, RestartAsked(k, s), sessions[s].runtime,
         Free(s, None), NEW e \in Entries, sessions' = [sessions EXCEPT ![s] = e],
         e.status # "closed", e.killed => e.status \notin {"live_idle", "live_busy"},
         e.status = "live_idle" => k = "budget" /\ tail[s] = <<>>,
         UNCHANGED <<created, asked, actors, stop, saved, faults, opened>>,
         stop.at \in {"no", "line"} \/ LateKills
  PROVE  AdmissionInv'
<1>1. /\ restarts < MaxRestarts /\ restarts' = restarts + 1
      /\ Begins(MaxAsks + restarts + 1, k, Nobody, s, "lock", {})
  BY DEF RestartAsked
<1>2. /\ asked \in Nat /\ MaxAsks \in Nat /\ MaxRestarts \in Nat /\ created \in Nat
      /\ restarts \in Nat /\ restarts \in 0..MaxRestarts /\ asked \in 0..MaxAsks
  BY AdmissionAssumption DEF AdmissionInv, TypeOK
<1> PICK c \in Calls : c = MaxAsks + restarts + 1
  BY <1>1, <1>2 DEF Calls
<1>3. calls[c] = NoCall
  BY <1>1, <1>2 DEF AdmissionInv, CountInv
<1>4. Begins(c, k, Nobody, s, "lock", {})
  BY <1>1
<1>5. /\ calls'[c].kind = k /\ calls'[c].on = s /\ calls'[c].at = "lock"
      /\ \A d \in Calls \ {c} : calls'[d] = calls[d]
      /\ tail' = [tail EXCEPT ![s] = Append(@, c)]
  BY <1>4 DEF Begins, NoCall, AdmissionInv, TypeOK
<1>6. k # "create" /\ k # "release" /\ k \notin Admitted /\ k \in Admitted \cup Held \cup Restarts
  BY DEF Restarts, Admitted
<1>7. created + Cardinality(Pending') =< MaxIds
  BY <1>3, <1>5, <1>6, PendingGrows
<1>8. s # None /\ s =< created /\ ~(s > created)
  <2>1. sessions[s] # Absent
    BY DEF Absent
  <2> QED BY <2>1, <1>2 DEF AdmissionInv, HoldInv, EntryInv, Ids, None
<1>9. /\ sessions' \in [Ids -> Entries] /\ sessions'[s] = e
      /\ \A u \in Ids \ {s} : sessions'[u] = sessions[u]
  BY DEF AdmissionInv, TypeOK
<1>10. EntryInv(s)'
  <2>1. Waiting(s)' => StartsAgain(s)'
    <3> SUFFICES ASSUME e.status = "live_idle" PROVE StartsAgain(s)'
      BY <1>9 DEF Waiting
    <3>1. tail'[s] = Append(<<>>, c)
      BY <1>5 DEF AdmissionInv, TypeOK
    <3>2. First(tail'[s], c)
      <4>1. Append(<<>>, c) = <<c>>
        OBVIOUS
      <4> QED BY <3>1, <4>1 DEF First
    <3> QED BY <3>2, <1>5 DEF StartsAgain
  <2> QED BY <2>1, <1>8, <1>9 DEF EntryInv
<1>11. /\ asked' \in 0..MaxAsks /\ restarts' \in 0..MaxRestarts /\ asked =< asked' /\ restarts =< restarts'
       /\ c > MaxAsks /\ c =< MaxAsks + restarts'
  BY <1>1, <1>2
<1>12. actors' \in [Actors -> {"live", "away", "gone"}] /\ actors' = actors
  BY DEF AdmissionInv, TypeOK
<1>13. Free(s, c) /\ {} \in SUBSET Ids /\ Nobody \in Actors \cup {Nobody}
  BY FreeOfAll
<1>14. /\ \A x \in Actors : actors[x] = "gone" => actors'[x] = "gone"
       /\ "lock" = "line" <=> k \in Admitted
       /\ "lock" = "window" => k = "attach"
       /\ s = None <=> k = "create"
       /\ k = "release" => s \notin {} /\ Nobody \in Actors /\ actors'[Nobody] = "gone"
       /\ s \in Ids /\ sessions'[s] # sessions[s] => Free(s, c)
       /\ s \in Ids => EntryInv(s)'
       /\ s \in Ids => (sessions'[s].runtime => sessions[s].runtime)
       /\ (c =< asked' /\ c =< MaxAsks) \/ (c > MaxAsks /\ c =< MaxAsks + restarts')
  BY <1>6, <1>8, <1>10, <1>11, <1>12, <1>13
<1> QED BY <1>3, <1>4, <1>6, <1>7, <1>8, <1>9, <1>11, <1>12, <1>13, <1>14, BeginsKeeps

\* Nobody waits for the lock of a session with a host that runs on, once all that can
\* take its turn has.
LEMMA NobodyWaits ==
  ASSUME AdmissionInv, Settled, NEW s \in Ids, Free(s, None)
  PROVE  tail[s] = <<>>
<1> SUFFICES ASSUME tail[s] # <<>> PROVE FALSE
  OBVIOUS
<1>1. PICK d \in Calls : First(tail[s], d) /\ d \in Range(tail[s])
  BY HasFirst DEF AdmissionInv, TypeOK
<1>2. \/ calls[d].on = s /\ calls[d].at \in Locked
      \/ calls[d].victim = s /\ calls[d].at \in {"evict", "ending"}
  BY <1>1 DEF AdmissionInv, LockInv, InLines
<1>3. d # None
  BY DEF Calls, None
<1>4. CanTurn(d)
  BY <1>1, <1>2, <1>3 DEF Free, Owned, Locked, CanTurn, HasTurn, First
<1> QED BY <1>4 DEF Settled

LEMMA ExecEndsKeeps ==
  ASSUME AdmissionInv, Settled, NEW s \in Ids, ExecEnds(s)
  PROVE  AdmissionInv'
<1>1. /\ sessions[s].status = "live_busy" /\ sessions[s].runtime /\ ~Working(s)
      /\ UNCHANGED <<created, actors, stop, saved, faults, opened>>
  BY DEF ExecEnds
<1>2. Free(s, None) /\ sessions[s] \in Entries /\ EntryInv(s) /\ ~sessions[s].killed
  BY <1>1, RunningIsFree DEF AdmissionInv, TypeOK, HoldInv, EntryInv
<1>3. ~(s > created)
  <2>1. sessions[s] # Absent
    BY <1>1 DEF Absent
  <2> QED BY <2>1, <1>2 DEF EntryInv
<1> DEFINE e == [sessions[s] EXCEPT !.status = "live_idle"]
<1>4. /\ e \in Entries /\ e.status = "live_idle" /\ e.runtime /\ ~e.killed
  BY <1>1, <1>2 DEF Entries, Statuses
<1>5. faults' \in 0..MaxFaults
  BY <1>1 DEF AdmissionInv, TypeOK
<1>6. CASE sessions' = [sessions EXCEPT ![s] = Drained(e)] /\ UNCHANGED <<calls, asked, restarts, lockVars>>
  <2> DEFINE f == Drained(e)
  <2> HIDE DEF e
  <2>1. f \in Entries /\ Fine(f) /\ f.runtime
    BY <1>4, DrainedFine
  <2> HIDE DEF f
  <2>2. sessions' = [sessions EXCEPT ![s] = f] /\ sessions'[s] = f
    BY <1>6 DEF AdmissionInv, TypeOK, f
  <2>3. EntryInv(s)'
    BY <2>1, <2>2, <1>1, <1>3 DEF EntryInv, Fine, Waiting, Stopping
  <2> QED BY <2>1, <2>2, <2>3, <1>1, <1>2, <1>5, <1>6, SessionKeeps
<1>7. CASE /\ sessions' = [sessions EXCEPT ![s].status = "live_idle"] /\ Stopping
           /\ UNCHANGED <<calls, asked, restarts, lockVars>>
  <2>1. sessions' = [sessions EXCEPT ![s] = e]
    BY <1>7 DEF AdmissionInv, TypeOK
  <2> HIDE DEF e
  <2>2. sessions'[s] = e
    BY <2>1 DEF AdmissionInv, TypeOK
  <2>3. EntryInv(s)'
    BY <2>2, <1>1, <1>3, <1>4, <1>7 DEF EntryInv, Waiting, Stopping
  <2> QED BY <2>1, <2>3, <1>1, <1>2, <1>4, <1>5, <1>7, SessionKeeps
<1>8. CASE /\ sessions' = [sessions EXCEPT ![s].status = "live_idle"] /\ ~Stopping
           /\ RestartAsked("budget", s) /\ asked' = asked
  <2>1. sessions' = [sessions EXCEPT ![s] = e]
    BY <1>8 DEF AdmissionInv, TypeOK
  <2> HIDE DEF e
  <2>2. tail[s] = <<>>
    BY <1>2, NobodyWaits
  <2>3. "budget" \in Restarts /\ stop.at \in {"no", "line"}
    BY <1>8 DEF Restarts, Stopping
  <2> QED BY <2>1, <2>2, <2>3, <1>1, <1>2, <1>4, <1>8, RestartKeeps
<1> QED BY <1>6, <1>7, <1>8 DEF ExecEnds

LEMMA HostExitsKeeps ==
  ASSUME AdmissionInv, NEW s \in Ids, HostExits(s)
  PROVE  AdmissionInv'
<1>1. /\ sessions[s].runtime /\ ~Working(s) /\ faults < MaxFaults /\ faults' = faults + 1
      /\ sessions' = [sessions EXCEPT ![s] = Quarantined(@)]
      /\ UNCHANGED <<created, calls, asked, restarts, lockVars, actors, stop, saved, opened>>
  BY DEF HostExits
<1>2. Free(s, None) /\ sessions[s] \in Entries /\ EntryInv(s)
  BY <1>1, RunningIsFree DEF AdmissionInv, TypeOK, HoldInv
<1>3. ~(s > created)
  <2>1. sessions[s] # Absent
    BY <1>1 DEF Absent
  <2> QED BY <2>1, <1>2 DEF EntryInv
<1> DEFINE e == Quarantined(sessions[s])
<1>4. e \in Entries /\ Fine(e) /\ ~e.runtime /\ sessions' = [sessions EXCEPT ![s] = e]
  BY <1>1, <1>2, QuarantinedFacts DEF AdmissionInv, TypeOK
<1> HIDE DEF e
<1>5. sessions'[s] = e /\ faults' \in 0..MaxFaults
  BY <1>1, <1>4, AdmissionAssumption DEF AdmissionInv, TypeOK
<1>6. EntryInv(s)'
  BY <1>1, <1>3, <1>4, <1>5 DEF EntryInv, Fine, Waiting
<1> QED BY <1>1, <1>2, <1>4, <1>5, <1>6, SessionKeeps

LEMMA HostKilledKeeps ==
  ASSUME AdmissionInv, NEW s \in Ids, HostKilled(s)
  PROVE  AdmissionInv'
<1>1. /\ sessions[s].runtime /\ ~Working(s) /\ RestartAsked("memory", s)
      /\ stop.at \in {"no", "line"} \/ LateKills
      /\ sessions' = [sessions EXCEPT ![s].status = "recovering", ![s].killed = TRUE]
      /\ UNCHANGED <<asked, created, actors, stop, saved, faults, opened>>
  BY AdmissionAssumption DEF HostKilled
<1>2. Free(s, None) /\ sessions[s] \in Entries /\ "memory" \in Restarts
  BY <1>1, RunningIsFree DEF AdmissionInv, TypeOK, Restarts
<1> DEFINE e == [sessions[s] EXCEPT !.status = "recovering", !.killed = TRUE]
<1>3. e \in Entries /\ e.status = "recovering"
  BY <1>2 DEF Entries, Statuses
<1>4. sessions' = [sessions EXCEPT ![s] = e]
  BY <1>1 DEF AdmissionInv, TypeOK
<1> HIDE DEF e
<1> QED BY <1>1, <1>2, <1>3, <1>4, RestartKeeps

\* The calls, and the queues, are as they were.
LEMMA NoCallMoves ==
  ASSUME AdmissionInv, UNCHANGED <<created, calls, asked, restarts, lockVars, faults, opened>>,
         saved' \in BOOLEAN, sessions' \in [Ids -> Entries], actors' \in [Actors -> {"live", "away", "gone"}],
         stop' \in [at : {"no", "line", "locks", "loop", "hosts", "ended"},
                    awaits : SUBSET Calls, left : SUBSET Ids, now : {None} \cup Ids],
         \A c \in Calls : Finds(c)', \A s \in Ids : EntryInv(s)', StopInv',
         \A s \in Ids : sessions'[s].runtime => sessions[s].runtime
  PROVE  AdmissionInv'
<1>1. line' = line /\ tail' = tail /\ created' = created /\ calls' = calls
  BY DEF lockVars
<1>2. TypeOK'
  BY <1>1 DEF AdmissionInv, TypeOK
<1>3. LockInv'
  BY <1>1 DEF AdmissionInv, LockInv, InLines, Leads, Sensible
<1>4. HoldInv'
  BY DEF HoldInv
<1>5. CountInv'
  <2>1. Pending' = Pending
    BY <1>1 DEF Pending
  <2> QED BY <2>1, <1>1 DEF AdmissionInv, CountInv
<1>6. BookInv'
  <2>1. HostsOrWorked' \subseteq HostsOrWorked
    BY <1>1 DEF HostsOrWorked
  <2> QED BY <2>1, SameBook
<1> QED BY <1>2, <1>3, <1>4, <1>5, <1>6 DEF AdmissionInv

\* Nor are the sessions any different: clients come and go, and the shutdown goes on.
LEMMA SameSessions ==
  ASSUME AdmissionInv,
         UNCHANGED <<sessions, created, calls, asked, restarts, lockVars, faults, opened>>,
         saved' \in BOOLEAN, actors' \in [Actors -> {"live", "away", "gone"}],
         \A a \in Actors : actors[a] = "gone" => actors'[a] = "gone",
         stop' \in [at : {"no", "line", "locks", "loop", "hosts", "ended"},
                    awaits : SUBSET Calls, left : SUBSET Ids, now : {None} \cup Ids],
         Stopping => Stopping', stop'.at \in {"no", "line"} => stop.at \in {"no", "line"}, StopInv'
  PROVE  AdmissionInv'
<1>1. line' = line /\ tail' = tail /\ created' = created /\ calls' = calls
  BY DEF lockVars
<1>2. \A c \in Calls : Finds(c)'
  BY <1>1 DEF AdmissionInv, HoldInv, Finds
<1>3. \A s \in Ids : EntryInv(s)'
  <2> TAKE s \in Ids
  <2>1. EntryInv(s) /\ (Waiting(s)' => Waiting(s)) /\ StartsAgain(s)' = StartsAgain(s)
    BY <1>1 DEF AdmissionInv, HoldInv, Waiting, StartsAgain
  <2> QED BY <2>1, <1>1 DEF EntryInv
<1>4. sessions' \in [Ids -> Entries]
  BY DEF AdmissionInv, TypeOK
<1> QED BY <1>2, <1>3, <1>4, NoCallMoves

LEMMA ActorMovesKeeps ==
  ASSUME AdmissionInv, NEW a \in Actors, ActorMoves(a)
  PROVE  AdmissionInv'
<1>1. /\ actors[a] # "gone"
      /\ actors' = [actors EXCEPT ![a] = IF @ = "live" THEN "away" ELSE "live"]
      /\ UNCHANGED <<sessions, created, calls, asked, restarts, lockVars, stop, saved, faults, opened>>
  BY DEF ActorMoves
<1>2. /\ actors' \in [Actors -> {"live", "away", "gone"}]
      /\ \A x \in Actors : actors[x] = "gone" => actors'[x] = "gone"
  BY <1>1 DEF AdmissionInv, TypeOK
<1>3. /\ stop' \in [at : {"no", "line", "locks", "loop", "hosts", "ended"},
                    awaits : SUBSET Calls, left : SUBSET Ids, now : {None} \cup Ids]
      /\ Stopping' = Stopping /\ saved' \in BOOLEAN
  BY <1>1 DEF AdmissionInv, TypeOK, Stopping
<1>4. StopInv'
  BY <1>1 DEF AdmissionInv, StopInv, lockVars, InTails
<1> QED BY <1>1, <1>2, <1>3, <1>4, SameSessions

LEMMA SaveKeeps ==
  ASSUME AdmissionInv, Save
  PROVE  AdmissionInv'
<1>1. /\ UNCHANGED <<sessions, created, calls, asked, restarts, lockVars, faults, opened>>
      /\ saved' \in BOOLEAN /\ actors' = actors /\ stop' = stop
  BY DEF Save
<1>2. /\ actors' \in [Actors -> {"live", "away", "gone"}]
      /\ stop' \in [at : {"no", "line", "locks", "loop", "hosts", "ended"},
                    awaits : SUBSET Calls, left : SUBSET Ids, now : {None} \cup Ids]
      /\ Stopping' = Stopping
  BY <1>1 DEF AdmissionInv, TypeOK, Stopping
<1>3. StopInv'
  BY <1>1 DEF AdmissionInv, StopInv, lockVars, InTails
<1> QED BY <1>1, <1>2, <1>3, SameSessions

\* The loops that waited out a save run what is queued; no call has their sessions.
LEMMA RunsOnKeeps ==
  ASSUME AdmissionInv, RunsOn
  PROVE  AdmissionInv'
<1>1. /\ UNCHANGED <<created, calls, asked, restarts, lockVars, faults, opened>>
      /\ saved' \in BOOLEAN /\ actors' = actors /\ stop' = stop
      /\ sessions' = [s \in Ids |-> IF Working(s) THEN sessions[s] ELSE Woken(sessions[s])]
  BY DEF RunsOn
<1>2. line' = line /\ tail' = tail /\ created' = created /\ calls' = calls
  BY <1>1 DEF lockVars
<1>3. ASSUME NEW s \in Ids
      PROVE  /\ sessions[s] \in Entries /\ EntryInv(s)
             /\ sessions'[s] = IF Working(s) THEN sessions[s] ELSE Woken(sessions[s])
  BY <1>1 DEF AdmissionInv, TypeOK, HoldInv
<1>4. ASSUME NEW s \in Ids
      PROVE  /\ sessions'[s] \in Entries /\ sessions'[s].killed = sessions[s].killed
             /\ sessions'[s].runtime = sessions[s].runtime
             /\ \/ sessions'[s].status = sessions[s].status
                \/ /\ sessions[s].status = "live_idle" /\ sessions'[s].status = "live_busy"
                   /\ ~sessions[s].killed
  BY <1>3, WokenFacts
<1>5. sessions' \in [Ids -> Entries]
  BY <1>1, <1>4
<1>6. ASSUME NEW c \in Calls PROVE Finds(c)'
  <2>1. Finds(c) /\ Sensible(c)
    BY DEF AdmissionInv, HoldInv, LockInv
  <2>2. calls[c].at \in AtWork => calls[c].on \in Ids
    BY OnIsOne DEF AdmissionInv
  <2>3. calls[c].on # None => calls[c].on \in Ids
    BY OnIsOne DEF AdmissionInv
  <2>4. calls[c].at = "ending" => calls[c].victim \in Ids /\ Working(calls[c].victim)
    BY OnIsOne DEF AdmissionInv, Working
  <2>5. calls[c].at = "ending" => sessions'[calls[c].victim] = sessions[calls[c].victim]
    BY <1>3, <2>4
  <2> QED BY <2>1, <2>2, <2>3, <2>5, <1>1, <1>2, <1>4 DEF Finds, AtWork, Stopping
<1>7. ASSUME NEW s \in Ids PROVE EntryInv(s)'
  <2>1. Waiting(s)' => Waiting(s)
    <3> SUFFICES ASSUME Waiting(s)' PROVE Waiting(s)
      OBVIOUS
    <3>1. ~Stopping
      BY <1>1 DEF Waiting, Stopping
    <3>2. /\ sessions'[s].status = "live_idle" /\ sessions'[s].runtime /\ sessions'[s].queue > 0
          /\ ~sessions'[s].waits
      BY DEF Waiting
    <3>3. ~sessions[s].killed
      BY <1>3, <1>4, <3>2 DEF EntryInv
    <3> QED BY <1>3, <3>1, <3>2, <3>3, WokenFacts DEF Waiting
  <2>2. StartsAgain(s)' = StartsAgain(s)
    BY <1>2 DEF StartsAgain
  <2>3. sessions[s] = Absent => sessions'[s] = Absent
    <3>1. ~Absent.waits
      BY DEF Absent
    <3> QED BY <1>3, <3>1, WokenFacts
  <2> QED BY <1>1, <1>3, <1>4, <2>1, <2>2, <2>3 DEF EntryInv
<1>8. StopInv'
  BY <1>1, <1>2 DEF AdmissionInv, StopInv, InTails
<1>9. /\ actors' \in [Actors -> {"live", "away", "gone"}]
      /\ stop' \in [at : {"no", "line", "locks", "loop", "hosts", "ended"},
                    awaits : SUBSET Calls, left : SUBSET Ids, now : {None} \cup Ids]
  BY <1>1 DEF AdmissionInv, TypeOK
<1> QED BY <1>1, <1>4, <1>5, <1>6, <1>7, <1>8, <1>9, NoCallMoves

\* The shutdown goes on, no session being any different.
LEMMA StopGoesOn ==
  ASSUME AdmissionInv, UNCHANGED <<sessions, actors>>,
         UNCHANGED <<created, calls, asked, restarts, lockVars, saved, faults, opened>>,
         stop' \in [at : {"no", "line", "locks", "loop", "hosts", "ended"},
                    awaits : SUBSET Calls, left : SUBSET Ids, now : {None} \cup Ids],
         stop'.at # "no", stop'.at = "line" => stop.at = "no", StopInv'
  PROVE  AdmissionInv'
<1>1. actors' \in [Actors -> {"live", "away", "gone"}] /\ actors' = actors /\ saved' \in BOOLEAN
  BY DEF AdmissionInv, TypeOK
<1>2. Stopping'
  BY DEF Stopping
<1>3. /\ UNCHANGED <<sessions, created, calls, asked, restarts, lockVars, faults, opened>>
      /\ stop'.at \in {"no", "line"} => stop.at \in {"no", "line"}
  OBVIOUS
<1> QED BY <1>1, <1>2, <1>3, SameSessions

LEMMA ShutsDownKeeps ==
  ASSUME AdmissionInv, ShutsDown
  PROVE  AdmissionInv'
<1>1. /\ ~Stopping /\ stop' = [stop EXCEPT !.at = "line"]
      /\ UNCHANGED <<sessions, created, calls, asked, restarts, lockVars, actors, saved, faults, opened>>
  BY DEF ShutsDown
<1>2. /\ stop' \in [at : {"no", "line", "locks", "loop", "hosts", "ended"},
                    awaits : SUBSET Calls, left : SUBSET Ids, now : {None} \cup Ids]
      /\ stop'.at = "line" /\ stop.at = "no" /\ stop'.now = stop.now
  BY <1>1 DEF AdmissionInv, TypeOK, Stopping
<1>3. StopInv'
  BY <1>2 DEF AdmissionInv, StopInv
<1> QED BY <1>1, <1>2, <1>3, StopGoesOn

LEMMA LineDrainsKeeps ==
  ASSUME AdmissionInv, LineDrains
  PROVE  AdmissionInv'
<1>1. /\ stop.at = "line" /\ line = <<>> /\ stop' = [stop EXCEPT !.at = "locks", !.awaits = InTails]
      /\ UNCHANGED <<sessions, created, calls, asked, restarts, lockVars, actors, saved, faults, opened>>
  BY DEF LineDrains, UnchangedByShutdown
<1>2. InTails \in SUBSET Calls
  <2>1. ASSUME NEW s \in Ids, NEW x \in Range(tail[s]) PROVE x \in Calls
    <3>1. tail[s] \in Seq(Calls)
      BY DEF AdmissionInv, TypeOK
    <3> QED BY <3>1, LenProperties, ElementOfSeq DEF Range
  <2> QED BY <2>1 DEF InTails
<1>3. /\ stop' \in [at : {"no", "line", "locks", "loop", "hosts", "ended"},
                    awaits : SUBSET Calls, left : SUBSET Ids, now : {None} \cup Ids]
      /\ stop'.at = "locks" /\ stop'.awaits = InTails /\ stop'.now = stop.now
  BY <1>1, <1>2 DEF AdmissionInv, TypeOK
<1>4. StopInv'
  <2>1. line' = <<>> /\ InTails' = InTails
    BY <1>1 DEF lockVars, InTails
  <2>2. stop'.now = None
    BY <1>1, <1>3 DEF AdmissionInv, StopInv
  <2> QED BY <1>3, <2>1, <2>2 DEF StopInv
<1> QED BY <1>1, <1>3, <1>4, StopGoesOn

LEMMA LocksDrainKeeps ==
  ASSUME AdmissionInv, LocksDrain
  PROVE  AdmissionInv'
<1>1. /\ stop.at = "locks" /\ stop.awaits \cap InTails = {}
      /\ stop' = [stop EXCEPT !.at = "loop", !.awaits = {}, !.left = {s \in Ids : Listed(s)}]
      /\ UNCHANGED <<sessions, created, calls, asked, restarts, lockVars, actors, saved, faults, opened>>
  BY DEF LocksDrain, UnchangedByShutdown
<1>2. {s \in Ids : Listed(s)} \in SUBSET Ids
  OBVIOUS
<1>3. /\ stop' \in [at : {"no", "line", "locks", "loop", "hosts", "ended"},
                    awaits : SUBSET Calls, left : SUBSET Ids, now : {None} \cup Ids]
      /\ stop'.at = "loop"
  BY <1>1, <1>2 DEF AdmissionInv, TypeOK
<1>4. /\ line' = line /\ InTails' = InTails
      /\ ~LateKills => InTails = {}
  BY <1>1 DEF lockVars, InTails, AdmissionInv, StopInv
<1>5. StopInv'
  BY <1>1, <1>3, <1>4 DEF AdmissionInv, StopInv
<1> QED BY <1>1, <1>3, <1>5, StopGoesOn

LEMMA LoopDoneKeeps ==
  ASSUME AdmissionInv, LoopDone
  PROVE  AdmissionInv'
<1>1. /\ stop.at = "loop" /\ stop.now = None /\ stop' = [stop EXCEPT !.at = "hosts"]
      /\ UNCHANGED <<sessions, created, calls, asked, restarts, lockVars, actors, saved, faults, opened>>
  BY DEF LoopDone, UnchangedByShutdown
<1>2. /\ stop' \in [at : {"no", "line", "locks", "loop", "hosts", "ended"},
                    awaits : SUBSET Calls, left : SUBSET Ids, now : {None} \cup Ids]
      /\ stop'.at = "hosts" /\ stop'.now = None
  BY <1>1 DEF AdmissionInv, TypeOK
<1>3. line' = line /\ InTails' = InTails
  BY <1>1 DEF lockVars, InTails
<1>4. StopInv'
  BY <1>1, <1>2, <1>3 DEF AdmissionInv, StopInv
<1> QED BY <1>1, <1>2, <1>4, StopGoesOn

\* What the shutdown leaves of a session.
Softens(s) ==
    \/ sessions'[s] = Absent
    \/ /\ sessions[s] # Absent /\ sessions'[s].status \in {sessions[s].status, "suspended"}
       /\ sessions'[s].runtime => sessions[s].runtime
       /\ sessions'[s].killed => sessions[s].killed

LEMMA SoftensKeeps ==
  ASSUME AdmissionInv, UnchangedByShutdown, sessions' \in [Ids -> Entries],
         \A s \in Ids : Softens(s),
         stop.at \in {"loop", "hosts"}, stop'.at \in {"loop", "hosts", "ended"},
         stop' \in [at : {"no", "line", "locks", "loop", "hosts", "ended"},
                    awaits : SUBSET Calls, left : SUBSET Ids, now : {None} \cup Ids],
         stop'.now # None => stop'.at = "loop"
  PROVE  AdmissionInv'
<1>1. /\ UNCHANGED <<created, calls, asked, restarts, lockVars, actors, saved, faults, opened>>
      /\ line' = line /\ tail' = tail /\ created' = created /\ calls' = calls
  BY DEF UnchangedByShutdown, lockVars
<1>2. Absent.status = "none" /\ ~Absent.runtime /\ ~Absent.killed
  BY DEF Absent
<1>3. ASSUME NEW c \in Calls PROVE Finds(c)'
  <2>1. Finds(c) /\ calls[c].at \notin MakingRoom /\ calls[c].at # "ending"
    BY MakesRoomFacts DEF AdmissionInv, HoldInv, RoomFacts, MakingRoom
  <2>2. calls[c].at \in AtWork => calls[c].on \in Ids
    BY OnIsOne DEF AdmissionInv
  <2> QED BY <2>1, <2>2, <1>1, <1>2 DEF Finds, Softens, AtWork
<1>4. ASSUME NEW s \in Ids PROVE EntryInv(s)'
  <2>1. EntryInv(s) /\ Softens(s)
    BY DEF AdmissionInv, HoldInv
  <2> QED BY <2>1, <1>1, <1>2 DEF EntryInv, Softens, Waiting, Stopping
<1>5. StopInv'
  <2>1. line' = <<>> /\ InTails' = InTails /\ (~LateKills => InTails = {})
    BY <1>1 DEF InTails, AdmissionInv, StopInv
  <2> QED BY <2>1 DEF StopInv
<1>6. \A s \in Ids : sessions'[s].runtime => sessions[s].runtime
  BY <1>2 DEF Softens
<1>7. actors' \in [Actors -> {"live", "away", "gone"}] /\ saved' \in BOOLEAN
  BY <1>1 DEF AdmissionInv, TypeOK
<1> QED BY <1>1, <1>3, <1>4, <1>5, <1>6, <1>7, NoCallMoves

\* A session that is not the one the shutdown has come to is left as it is.
LEMMA OthersSoften ==
  ASSUME AdmissionInv, NEW t \in Ids, NEW e \in Entries, sessions' = [sessions EXCEPT ![t] = e],
         Softens(t)
  PROVE  sessions' \in [Ids -> Entries] /\ \A s \in Ids : Softens(s)
<1>1. sessions' \in [Ids -> Entries] /\ \A s \in Ids \ {t} : sessions'[s] = sessions[s]
  BY DEF AdmissionInv, TypeOK
<1> QED BY <1>1 DEF Softens

LEMMA StopsNextKeeps ==
  ASSUME AdmissionInv, StopsNext
  PROVE  AdmissionInv'
<1>1. stop.at = "loop" /\ stop.left # {} /\ UnchangedByShutdown /\ stop.left \in SUBSET Ids
  BY DEF StopsNext, AdmissionInv, TypeOK
<1>2. stop.left \subseteq Nat
  BY <1>1 DEF Ids
<1> PICK s \in Ids : s = Min(stop.left)
  BY <1>1, <1>2, MinIsOne
<1> DEFINE freed == [sessions[s] EXCEPT !.controller = Nobody, !.queue = 0, !.waits = FALSE]
           e == IF freed.runtime \/ freed.durable THEN freed ELSE Absent
<1>3. /\ sessions[s] \in Entries /\ freed \in Entries /\ freed.status = sessions[s].status
      /\ freed.runtime = sessions[s].runtime /\ freed.killed = sessions[s].killed
      /\ freed.durable = sessions[s].durable
  <2>1. sessions[s] \in Entries
    BY DEF AdmissionInv, TypeOK
  <2> QED BY <2>1 DEF Entries
<1>4. /\ stop' = [stop EXCEPT !.left = @ \ {s}, !.now = IF freed.runtime THEN s ELSE None]
      /\ sessions' = [sessions EXCEPT ![s] = e]
  BY DEF StopsNext
<1>5. /\ stop' \in [at : {"no", "line", "locks", "loop", "hosts", "ended"},
                    awaits : SUBSET Calls, left : SUBSET Ids, now : {None} \cup Ids]
      /\ stop'.at = "loop"
  <2>1. (IF freed.runtime THEN s ELSE None) \in {None} \cup Ids
    OBVIOUS
  <2> HIDE DEF freed
  <2> QED BY <1>1, <1>4, <2>1 DEF AdmissionInv, TypeOK
<1>6. e \in Entries /\ sessions'[s] = e
  BY <1>3, <1>4, AbsentFacts DEF AdmissionInv, TypeOK
<1>7. Softens(s)
  <2>1. CASE freed.runtime \/ freed.durable
    <3>1. sessions[s] # Absent
      BY <1>3, <2>1 DEF Absent
    <3>2. sessions'[s] = freed
      BY <1>6, <2>1
    <3> HIDE DEF freed, e
    <3> QED BY <1>3, <3>1, <3>2 DEF Softens
  <2>2. CASE ~(freed.runtime \/ freed.durable)
    BY <1>6, <2>2 DEF Softens
  <2> QED BY <2>1, <2>2
<1> HIDE DEF freed, e
<1> QED BY <1>1, <1>4, <1>5, <1>6, <1>7, OthersSoften, SoftensKeeps

LEMMA NowStoppedKeeps ==
  ASSUME AdmissionInv, NowStopped
  PROVE  AdmissionInv'
<1>1. stop.now # None /\ UnchangedByShutdown /\ stop' = [stop EXCEPT !.now = None]
  BY DEF NowStopped
<1>2. stop.now \in Ids /\ stop.at = "loop"
  BY <1>1 DEF AdmissionInv, TypeOK, StopInv
<1> PICK s \in Ids : s = stop.now
  BY <1>2
<1> DEFINE f == [sessions[s] EXCEPT !.runtime = FALSE, !.killed = FALSE, !.waits = FALSE,
                   !.status = IF @ = "quarantined" THEN @ ELSE "suspended"]
           e == IF ~sessions[s].durable THEN Absent ELSE f
<1>3. /\ sessions[s] \in Entries /\ f \in Entries /\ f.status \in {sessions[s].status, "suspended"}
      /\ ~f.runtime /\ ~f.killed
  <2>1. sessions[s] \in Entries /\ sessions[s].status \in Statuses
    BY DEF AdmissionInv, TypeOK, Entries
  <2>2. /\ (IF sessions[s].status = "quarantined" THEN sessions[s].status ELSE "suspended") \in Statuses
        /\ (IF sessions[s].status = "quarantined" THEN sessions[s].status ELSE "suspended")
             \in {sessions[s].status, "suspended"}
    BY <2>1 DEF Statuses
  <2> QED BY <2>1, <2>2 DEF Entries
<1>4. sessions' = [sessions EXCEPT ![s] = e]
  <2>1. sessions' = [sessions EXCEPT ![s] = AfterStop(sessions[s])]
    BY Zenon DEF NowStopped
  <2>2. AfterStop(sessions[s]) = e
    BY DEF AfterStop
  <2> QED BY <2>1, <2>2, Zenon
<1>5. /\ stop' \in [at : {"no", "line", "locks", "loop", "hosts", "ended"},
                    awaits : SUBSET Calls, left : SUBSET Ids, now : {None} \cup Ids]
      /\ stop'.at = "loop"
  BY <1>1, <1>2 DEF AdmissionInv, TypeOK
<1>6. e \in Entries /\ sessions'[s] = e
  BY <1>3, <1>4, AbsentFacts DEF AdmissionInv, TypeOK
<1>7. Softens(s)
  <2>1. CASE sessions[s].durable
    <3>1. sessions[s] # Absent /\ sessions'[s] = f
      BY <1>6, <2>1 DEF Absent
    <3> HIDE DEF f, e
    <3> QED BY <1>3, <3>1 DEF Softens
  <2>2. CASE ~sessions[s].durable
    BY <1>6, <2>2 DEF Softens
  <2> QED BY <2>1, <2>2
<1> HIDE DEF f, e
<1> QED BY <1>1, <1>2, <1>4, <1>5, <1>6, <1>7, OthersSoften, SoftensKeeps

LEMMA HostsStoppedKeeps ==
  ASSUME AdmissionInv, HostsStopped
  PROVE  AdmissionInv'
<1>1. /\ stop.at = "hosts" /\ stop' = [stop EXCEPT !.at = "ended"] /\ UnchangedByShutdown
      /\ sessions' = [s \in Ids |-> [sessions[s] EXCEPT !.runtime = FALSE]]
  BY DEF HostsStopped
<1>2. sessions' \in [Ids -> Entries] /\ \A s \in Ids : Softens(s)
  <2>1. ASSUME NEW s \in Ids PROVE sessions'[s] \in Entries /\ Softens(s)
    <3>1. sessions[s] \in Entries /\ sessions'[s] = [sessions[s] EXCEPT !.runtime = FALSE]
      BY <1>1 DEF AdmissionInv, TypeOK
    <3>2. /\ sessions'[s] \in Entries /\ sessions'[s].status = sessions[s].status
          /\ ~sessions'[s].runtime /\ sessions'[s].killed = sessions[s].killed
      BY <3>1 DEF Entries
    <3>3. sessions[s] = Absent => sessions'[s] = Absent
      <4>1. [Absent EXCEPT !.runtime = FALSE] = Absent
        <5>1. \A e \in Entries : ~e.runtime => [e EXCEPT !.runtime = FALSE] = e
          BY DEF Entries
        <5> QED BY <5>1, AbsentFacts
      <4> QED BY <3>1, <4>1, Zenon
    <3> QED BY <3>2, <3>3 DEF Softens
  <2> QED BY <2>1, <1>1
<1>3. /\ stop' \in [at : {"no", "line", "locks", "loop", "hosts", "ended"},
                    awaits : SUBSET Calls, left : SUBSET Ids, now : {None} \cup Ids]
      /\ stop'.at = "ended" /\ stop'.now = stop.now /\ stop.now = None
  BY <1>1 DEF AdmissionInv, TypeOK, StopInv
<1> QED BY <1>1, <1>2, <1>3, SoftensKeeps

-----------------------------------------------------------------------------
(* The theorems.                                                           *)

LEMMA InitHas ==
  ASSUME Init
  PROVE  AdmissionInv
<1>1. /\ created \in 1..Old /\ asked = 0 /\ restarts = 0 /\ faults = 0 /\ opened = FALSE /\ saved = FALSE
      /\ calls = [c \in Calls |-> NoCall] /\ line = <<>> /\ tail = [s \in Ids |-> <<>>]
      /\ actors = [a \in Actors |-> "live"]
      /\ stop = [at |-> "no", awaits |-> {}, left |-> {}, now |-> None]
  BY DEF Init
<1>2. /\ MaxIds \in Nat \ {0} /\ MaxSessions \in Nat \ {0} /\ created \in Nat /\ created >= 1
      /\ created =< MaxIds /\ MaxAsks \in Nat /\ MaxRestarts \in Nat /\ MaxFaults \in Nat
  BY <1>1, AdmissionAssumption
<1>3. PICK first \in {Suspended} \cup {Busy(a) : a \in Actors} :
         sessions = [s \in Ids |-> IF s = 1 THEN first
                                   ELSE IF s =< created THEN Suspended ELSE Absent]
  BY DEF Init
<1>4. /\ Suspended \in Entries /\ Suspended.status = "suspended" /\ ~Suspended.runtime
      /\ ~Suspended.killed
  BY DEF Suspended, Absent, Entries, Statuses
<1>5. ASSUME NEW a \in Actors
      PROVE  /\ Busy(a) \in Entries /\ Busy(a).status = "live_busy" /\ ~Busy(a).killed
  BY <1>4 DEF Busy, Entries, Statuses
<1>6. first \in Entries /\ first.status \in {"suspended", "live_busy"} /\ ~first.killed
  BY <1>4, <1>5
<1>7. sessions \in [Ids -> Entries]
  BY <1>3, <1>4, <1>6, AbsentFacts
<1>8. TypeOK
  <2>1. calls \in [Calls -> CallRecords]
    BY <1>1 DEF CallRecords
  <2>2. /\ created \in 0..MaxIds /\ asked \in 0..MaxAsks /\ restarts \in 0..MaxRestarts
        /\ faults \in 0..MaxFaults /\ opened \in BOOLEAN /\ saved \in BOOLEAN
    <3>1. created \in 0..MaxIds
      BY <1>2
    <3>2. 0 \in 0..MaxAsks /\ 0 \in 0..MaxRestarts /\ 0 \in 0..MaxFaults
      BY <1>2
    <3> QED BY <3>1, <3>2, <1>1
  <2>3. /\ line \in Seq(Calls) /\ tail \in [Ids -> Seq(Calls)]
        /\ actors \in [Actors -> {"live", "away", "gone"}]
    BY <1>1
  <2>4. stop \in [at : {"no", "line", "locks", "loop", "hosts", "ended"},
                  awaits : SUBSET Calls, left : SUBSET Ids, now : {None} \cup Ids]
    BY <1>1
  <2> QED BY <2>1, <2>2, <2>3, <2>4, <1>7 DEF TypeOK
<1>9. ASSUME NEW c \in Calls
      PROVE  /\ calls[c] = NoCall /\ calls[c].kind = "none" /\ calls[c].at = "none"
             /\ calls[c].on = None /\ calls[c].victim = None
  BY <1>1 DEF NoCall
<1>10. LockInv
  <2>1. Once(line) /\ \A s \in Ids : Once(tail[s]) /\ Range(tail[s]) = {}
    BY <1>1, EmptyHasNone
  <2>2. ASSUME NEW c \in Calls PROVE InLines(c) /\ Leads(c) /\ Sensible(c)
    <3>1. InLines(c)
      BY <1>1, <1>9, <2>1, EmptyHasNone DEF InLines, Admitted, Locked
    <3>2. Leads(c)
      BY <1>9 DEF Leads, Admitted, Owned, Locked
    <3>3. Sensible(c)
      BY <1>2, <1>9 DEF Sensible, MakingRoom, None
    <3> QED BY <3>1, <3>2, <3>3
  <2> QED BY <2>1, <2>2 DEF LockInv
<1>11. HoldInv
  <2>1. ASSUME NEW c \in Calls PROVE Finds(c)
    BY <1>9 DEF Finds, MakingRoom, AtWork
  <2>2. ASSUME NEW s \in Ids PROVE EntryInv(s)
    <3>1. /\ s > created => sessions[s] = Absent
          /\ sessions[s] = first \/ sessions[s] = Suspended \/ sessions[s] = Absent
      BY <1>2, <1>3 DEF Ids
    <3>2. sessions[s].status \in {"suspended", "live_busy", "none"} /\ ~sessions[s].killed
      <4>1. Absent.status = "none" /\ ~Absent.killed
        BY DEF Absent
      <4> QED BY <3>1, <4>1, <1>4, <1>6
    <3> QED BY <3>1, <3>2 DEF EntryInv, Waiting
  <2> QED BY <2>1, <2>2 DEF HoldInv
<1>12. CountInv
  <2>1. Pending = {}
    BY <1>9 DEF Pending
  <2>2. Cardinality(Pending) = 0
    BY <2>1, FS_EmptySet
  <2> QED BY <2>2, <1>2, <1>9 DEF CountInv
<1>13. StopInv
  BY <1>1 DEF StopInv
<1>14. BookInv
  <2>1. HostsOrWorked \subseteq {1}
    <3> SUFFICES ASSUME NEW s \in HostsOrWorked, s # 1 PROVE FALSE
      OBVIOUS
    <3>1. s \in Ids /\ sessions[s].runtime
      BY <1>9 DEF HostsOrWorked, AtWork
    <3>2. sessions[s] = Suspended \/ sessions[s] = Absent
      BY <3>1, <1>3
    <3> QED BY <3>1, <3>2, <1>4, AbsentFacts
  <2>2. IsFiniteSet({1}) /\ Cardinality({1}) = 1
    BY FS_Singleton
  <2>3. Cardinality(HostsOrWorked) =< 1 /\ Cardinality(HostsOrWorked) \in Nat
    BY <2>1, <2>2, FS_Subset, FS_CardinalityType
  <2> QED BY <2>3, <1>2 DEF BookInv
<1> QED BY <1>8, <1>10, <1>11, <1>12, <1>13, <1>14 DEF AdmissionInv

LEMMA StepKeeps ==
  ASSUME AdmissionInv, [Next]_vars
  PROVE  AdmissionInv'
<1>1. CASE Outside
  <2>1. Settled
    BY <1>1 DEF Outside
  <2>2. ASSUME NEW k \in Admitted, NEW a \in Actors, NEW s \in Ids \cup {None}, AskAdmitted(k, a, s)
        PROVE  AdmissionInv'
    BY <2>2, AskAdmittedKeeps
  <2>3. ASSUME NEW k \in Held \ {"release"}, NEW a \in Actors, NEW s \in Ids, AskHeld(k, a, s)
        PROVE  AdmissionInv'
    BY <2>3, AskHeldKeeps
  <2>4. ASSUME NEW a \in Actors, AskRelease(a)
        PROVE  AdmissionInv'
    BY <2>4, AskReleaseKeeps
  <2>5. CASE ShutsDown
    BY <2>5, ShutsDownKeeps
  <2>6. ASSUME NEW a \in Actors, ActorMoves(a)
        PROVE  AdmissionInv'
    BY <2>6, ActorMovesKeeps
  <2>7. ASSUME NEW s \in Ids, ExecEnds(s)
        PROVE  AdmissionInv'
    BY <2>1, <2>7, ExecEndsKeeps
  <2>8. ASSUME NEW s \in Ids, HostExits(s)
        PROVE  AdmissionInv'
    BY <2>8, HostExitsKeeps
  <2>9. ASSUME NEW s \in Ids, HostKilled(s)
        PROVE  AdmissionInv'
    BY <2>9, HostKilledKeeps
  <2>10. CASE Save \/ RunsOn
    BY <2>10, SaveKeeps, RunsOnKeeps
  <2> QED BY <1>1, <2>2, <2>3, <2>4, <2>5, <2>6, <2>7, <2>8, <2>9, <2>10 DEF Outside, Ask
<1>2. ASSUME NEW c \in Calls, Turn(c)
      PROVE  AdmissionInv'
  <2>1. \/ TakesAdmission(c) \/ IsRefused(c) \/ Attaches(c) \/ Detaches(c) \/ Releases(c)
        \/ Submits(c) \/ IsLive(c) \/ WantsRoom(c) \/ Recycles(c) \/ Interrupts(c)
        \/ NothingToDo(c) \/ Closes(c) \/ Creates(c) \/ Starts(c) \/ HasNoRecovery(c)
        \/ LacksRoom(c) \/ EvictsOrNot(c) \/ WaitsOutSave(c) \/ SaveIsOver(c)
    BY <1>2 DEF Turn
  <2> QED
    BY <2>1, TakesAdmissionKeeps, IsRefusedKeeps, AttachesKeeps, DetachesKeeps, ReleasesKeeps,
       SubmitsKeeps, IsLiveKeeps, WantsRoomKeeps, RecyclesKeeps, InterruptsKeeps, NothingToDoKeeps,
       ClosesKeeps, CreatesKeeps, StartsKeeps, HasNoRecoveryKeeps, LacksRoomKeeps, EvictsOrNotKeeps,
       WaitsOutSaveKeeps, SaveIsOverKeeps
<1>3. ASSUME NEW c \in Calls, AwaitEnds(c)
      PROVE  AdmissionInv'
  BY <1>3, WindowEndsKeeps, EvictedKeeps, HostEndedKeeps, HostSpawnedKeeps, HostUpKeeps, StartFailsKeeps
     DEF AwaitEnds
<1>4. CASE LineDrains \/ LocksDrain \/ StopsNext \/ LoopDone \/ NowStopped \/ HostsStopped
  BY <1>4, LineDrainsKeeps, LocksDrainKeeps, StopsNextKeeps, LoopDoneKeeps, NowStoppedKeeps,
     HostsStoppedKeeps
<1>5. CASE UNCHANGED vars
  <2>1. /\ UNCHANGED <<sessions, created, calls, asked, restarts, lockVars, faults, opened>>
        /\ actors' = actors /\ stop' = stop /\ saved' = saved
    BY <1>5 DEF vars
  <2>2. /\ actors' \in [Actors -> {"live", "away", "gone"}]
        /\ stop' \in [at : {"no", "line", "locks", "loop", "hosts", "ended"},
                      awaits : SUBSET Calls, left : SUBSET Ids, now : {None} \cup Ids]
        /\ Stopping' = Stopping /\ saved' \in BOOLEAN
    BY <2>1 DEF AdmissionInv, TypeOK, Stopping
  <2>3. StopInv'
    BY <2>1 DEF AdmissionInv, StopInv, lockVars, InTails
  <2> QED BY <2>1, <2>2, <2>3, SameSessions
<1> QED BY <1>1, <1>2, <1>3, <1>4, <1>5 DEF Next, Progress

\* Whatever the calls, the locks they wait for and the shutdown among them, a call is in
\* the lines its place has it in, first where it goes on, and finds its session as it
\* left it.
THEOREM AdmissionKeeps == Spec => []AdmissionInv
<1>1. Init => AdmissionInv
  BY InitHas
<1>2. AdmissionInv /\ [Next]_vars => AdmissionInv'
  BY StepKeeps
<1> QED BY <1>1, <1>2, PTL DEF Spec

\* The sessions, the calls and the shutdown are what TypeOK says they are.
THEOREM TypeCorrect == Spec => []TypeOK
<1>1. AdmissionInv => TypeOK
  BY DEF AdmissionInv
<1> QED BY <1>1, AdmissionKeeps, PTL

\* makeRoomIfNeeded under the admission lock: the sessions that have a host, or are
\* having one started, are never more than maxSessions, unless room was made while a
\* restart outside that lock had a host out.
THEOREM RoomIsKept == Spec => []NeverOverbooked
<1>1. ASSUME AdmissionInv PROVE NeverOverbooked
  <2>1. HostsOrStarting \subseteq HostsOrWorked
    <3> SUFFICES ASSUME NEW s \in HostsOrStarting PROVE s \in HostsOrWorked
      OBVIOUS
    <3>1. s \in Ids
      BY DEF HostsOrStarting
    <3>2. ASSUME NEW c \in Calls, calls[c].on = s, calls[c].at = "starting"
          PROVE  calls[c].at \in AtWork /\ calls[c].kind # "close"
      BY <1>1, <3>2 DEF AdmissionInv, LockInv, Sensible, AtWork, Admitted, Restarts
    <3> QED BY <3>1, <3>2 DEF HostsOrStarting, HostsOrWorked
  <2>2. HostsOrWorked \in SUBSET Ids
    BY DEF HostsOrWorked
  <2>3. Cardinality(HostsOrStarting) =< Cardinality(HostsOrWorked)
    BY <2>1, <2>2, IdsFinite, FS_Subset
  <2>4. Cardinality(HostsOrStarting) \in Nat /\ Cardinality(HostsOrWorked) \in Nat /\ MaxSessions \in Nat
    BY <2>1, <2>2, IdsFinite, AdmissionAssumption
  <2> QED BY <1>1, <2>3, <2>4 DEF AdmissionInv, BookInv, NeverOverbooked
<1> QED BY <1>1, AdmissionKeeps, PTL

\* withSessionMutation, and the shutdown's waits: one call at most has a session's host
\* ended or started, none as the shutdown does unless hosts are killed as late, and the
\* session whose host an eviction ends runs no exec, nor has one queued but as its drain
\* loop waits out a save or as the server stops.
THEOREM HostsAreTakenInTurn == Spec => []EvictionTakesNoExec
<1>1. ASSUME AdmissionInv PROVE EvictionTakesNoExec
  <2>1. ASSUME NEW s \in Ids, NEW c \in Workers(s) PROVE c \in Calls /\ First(tail[s], c)
    <3>1. /\ c \in Calls
          /\ \/ calls[c].on = s /\ calls[c].at \in AtWork
             \/ calls[c].victim = s /\ calls[c].at = "ending"
      BY <2>1 DEF Workers, AtWork
    <3>2. Leads(c) /\ (calls[c].at \in AtWork => calls[c].at \in Owned)
      BY <1>1, <3>1 DEF AdmissionInv, LockInv, AtWork, Owned, Locked
    <3> QED BY <3>1, <3>2 DEF Leads
  <2>2. ASSUME NEW s \in Ids PROVE Cardinality(Workers(s)) =< 1
    <3>1. CASE Workers(s) = {}
      BY <3>1, FS_EmptySet
    <3>2. CASE Workers(s) # {}
      <4>1. PICK c \in Workers(s) : TRUE
        BY <3>2
      <4>2. Workers(s) = {c}
        BY <2>1, <4>1 DEF First
      <4> QED BY <4>2, FS_Singleton
    <3> QED BY <3>1, <3>2
  <2>3. ASSUME ~LateKills, stop.now # None, NEW c \in Workers(stop.now) PROVE FALSE
    <3>1. stop.now \in Ids /\ InTails = {}
      BY <1>1, <2>3 DEF AdmissionInv, TypeOK, StopInv
    <3>2. First(tail[stop.now], c) /\ tail[stop.now] \in Seq(Calls)
      BY <1>1, <2>1, <2>3, <3>1 DEF AdmissionInv, TypeOK
    <3>3. c \in Range(tail[stop.now])
      BY <3>2, FirstIsIn
    <3> QED BY <3>1, <3>3 DEF InTails
  <2>4. ASSUME NEW c \in Calls, calls[c].at = "ending"
        PROVE  /\ sessions[calls[c].victim].status = "live_idle"
               /\ \/ sessions[calls[c].victim].queue = 0
                  \/ sessions[calls[c].victim].waits \/ Stopping
    BY <1>1, <2>4 DEF AdmissionInv, HoldInv, Finds
  <2> QED BY <2>2, <2>3, <2>4 DEF EvictionTakesNoExec
<1> QED BY <1>1, AdmissionKeeps, PTL

-----------------------------------------------------------------------------
(* Leases.                                                                 *)

\* Every session has the controller it had, or is gone.
ControllersKept ==
    \A s \in Ids : \/ sessions'[s].controller = sessions[s].controller
                   \/ sessions'[s].status = "none"

LEMMA OneKeepsIts ==
  ASSUME TypeOK, NEW t, NEW e, sessions' = [sessions EXCEPT ![t] = e],
         t \in Ids => e.controller = sessions[t].controller \/ e.status = "none"
  PROVE  ControllersKept
<1>1. ASSUME NEW s \in Ids PROVE sessions'[s] = IF s = t THEN e ELSE sessions[s]
  BY DEF TypeOK
<1> QED BY <1>1 DEF ControllersKept

LEMMA DrainedIsTheirs ==
  ASSUME NEW e \in Entries
  PROVE  Drained(e).controller = e.controller
BY DEF Drained, RunsNext, Entries

LEMMA SetsItsController ==
  ASSUME TypeOK, NEW c \in Calls, calls[c].on \in Ids, NEW e, Sets(c, e),
         e.controller = Entry(c).controller
  PROVE  ControllersKept
BY OneKeepsIts DEF Sets, Entry

\* No turn but an attach's, a detach's, a release's or a creation's changes who the
\* controller of a session is.
LEMMA TurnKeepsControllers ==
  ASSUME AdmissionInv, NEW c \in Calls, Turn(c) \/ AwaitEnds(c),
         ~Attaches(c), ~Detaches(c), ~Releases(c), ~Creates(c)
  PROVE  ControllersKept
<1>1. TypeOK /\ sessions \in [Ids -> Entries]
  BY DEF AdmissionInv, TypeOK
<1>2. CASE UNCHANGED sessions
  BY <1>2 DEF ControllersKept
<1>3. TakesLock(c) => calls[c].on \in Ids /\ Entry(c) \in Entries
  BY LockFinds
<1>4. CASE Submits(c)
  <2> DEFINE e == [Entry(c) EXCEPT !.queue = @ + 1]
  <2>1. TakesLock(c) /\ Sets(c, Drained(e))
    BY <1>4 DEF Submits
  <2>2. Entry(c).queue + 1 \in Nat
    BY <1>3, <2>1 DEF Entries
  <2>3. e \in Entries /\ e.controller = Entry(c).controller
    BY <1>3, <2>1, <2>2 DEF Entries
  <2> HIDE DEF e
  <2> QED BY <1>1, <1>3, <2>1, <2>3, DrainedIsTheirs, SetsItsController
<1>5. CASE Interrupts(c)
  <2> DEFINE e == [Entry(c) EXCEPT !.status = "live_idle"]
  <2>1. TakesLock(c) /\ Sets(c, Drained(e))
    BY <1>5 DEF Interrupts
  <2>2. e \in Entries /\ e.controller = Entry(c).controller
    BY <1>3, <2>1 DEF Entries, Statuses
  <2> HIDE DEF e
  <2> QED BY <1>1, <1>3, <2>1, <2>2, DrainedIsTheirs, SetsItsController
<1>6. CASE NothingToDo(c)
  <2>1. TakesLock(c) /\ Sets(c, IF calls[c].kind = "budget" THEN Drained(Entry(c)) ELSE Entry(c))
    BY <1>6 DEF NothingToDo
  <2> QED BY <1>1, <1>3, <2>1, DrainedIsTheirs, SetsItsController
<1>7. CASE HostUp(c)
  <2> DEFINE e == [Entry(c) EXCEPT !.status = "live_idle", !.waits = FALSE,
                                   !.queue = IF calls[c].kind = "submit" THEN @ + 1 ELSE @]
  <2>1. calls[c].at \in AtWork /\ Sets(c, Drained(e))
    BY <1>7 DEF HostUp, AtWork, Started
  <2>2. calls[c].on \in Ids /\ Entry(c) \in Entries
    BY <2>1, AtWorkFacts
  <2>3. e \in Entries /\ e.controller = Entry(c).controller
    <3>1. Entry(c).queue \in Nat /\ Entry(c).queue + 1 \in Nat
      BY <2>2 DEF Entries
    <3>2. (IF calls[c].kind = "submit" THEN Entry(c).queue + 1 ELSE Entry(c).queue) \in Nat
      BY <3>1
    <3> QED BY <2>2, <3>2 DEF Entries, Statuses
  <2> HIDE DEF e
  <2> QED BY <1>1, <2>1, <2>2, <2>3, DrainedIsTheirs, SetsItsController
<1>8. CASE StartFails(c)
  <2>1. calls[c].on \in Ids /\ sessions[calls[c].on] \in Entries
    BY <1>8, AtWorkFacts DEF StartFails, AtWork, Entry
  <2> PICK s \in Ids : s = calls[c].on
    BY <2>1
  <2> DEFINE e == IF calls[c].kind = "create" /\ ~sessions[s].durable THEN Absent ELSE Quarantined(sessions[s])
  <2>2. sessions' = [sessions EXCEPT ![s] = e]
    BY <1>1, <1>8, Zenon DEF StartFails
  <2>3. e.controller = sessions[s].controller \/ e.status = "none"
    BY <2>1, QuarantinedFacts DEF Absent
  <2> HIDE DEF e
  <2> QED BY <1>1, <2>2, <2>3, OneKeepsIts
<1>10. CASE Recycles(c) \/ Closes(c)
  <2>1. TakesLock(c)
    BY <1>10 DEF Recycles, Closes
  <2> PICK s \in Ids : s = calls[c].on
    BY <1>3, <2>1
  <2>2. \/ sessions' = [sessions EXCEPT ![s].queue = 0, ![s].waits = FALSE]
        \/ sessions' = [sessions EXCEPT ![s].status =
                          IF calls[c].kind = "interrupt" THEN "live_idle" ELSE @]
    BY <1>10, Zenon DEF Recycles, Closes
  <2>3. ASSUME NEW x \in Ids PROVE sessions'[x].controller = sessions[x].controller
    <3>1. CASE sessions' = [sessions EXCEPT ![s].queue = 0, ![s].waits = FALSE]
      BY <1>1, <3>1 DEF Entries
    <3>2. CASE sessions' = [sessions EXCEPT ![s].status =
                              IF calls[c].kind = "interrupt" THEN "live_idle" ELSE @]
      BY <1>1, <3>2 DEF Entries
    <3> QED BY <2>2, <3>1, <3>2
  <2> QED BY <2>3 DEF ControllersKept
<1>11. CASE Starts(c)
  <2>1. \/ UNCHANGED sessions
        \/ sessions' = [sessions EXCEPT ![calls[c].on].status = "recovering"]
    BY <1>11 DEF Starts
  <2>2. ASSUME NEW x \in Ids PROVE sessions'[x].controller = sessions[x].controller
    BY <1>1, <2>1 DEF Entries
  <2> QED BY <2>2 DEF ControllersKept
<1>12. CASE Evicted(c)
  <2>1. ASSUME NEW x \in Ids
        PROVE  sessions'[x].controller = sessions[x].controller \/ sessions'[x].status = "none"
    <3>1. CASE sessions' = [sessions EXCEPT ![calls[c].victim] = Absent]
      BY <1>1, <3>1 DEF Absent
    <3>2. CASE sessions' = [sessions EXCEPT ![calls[c].victim].status = "closed",
                                            ![calls[c].victim].runtime = FALSE]
      BY <1>1, <3>2 DEF Entries
    <3> QED BY <1>12, <3>1, <3>2 DEF Evicted
  <2> QED BY <2>1 DEF ControllersKept
<1>13. CASE HostEnded(c)
  <2>1. ASSUME NEW x \in Ids
        PROVE  sessions'[x].controller = sessions[x].controller \/ sessions'[x].status = "none"
    <3>1. CASE sessions' = [sessions EXCEPT ![calls[c].on] = Absent]
      BY <1>1, <3>1 DEF Absent
    <3>2. CASE sessions' = [sessions EXCEPT ![calls[c].on].status = "closed",
                                            ![calls[c].on].runtime = FALSE]
      BY <1>1, <3>2 DEF Entries
    <3>3. CASE sessions' = [sessions EXCEPT ![calls[c].on].runtime = FALSE]
      BY <1>1, <3>3 DEF Entries
    <3> QED BY <1>13, <3>1, <3>2, <3>3 DEF HostEnded
  <2> QED BY <2>1 DEF ControllersKept
<1>14. CASE HostSpawned(c)
  <2>1. sessions' = [sessions EXCEPT ![calls[c].on].runtime = TRUE,
                                     ![calls[c].on].killed = FALSE,
                                     ![calls[c].on].run = @ + 1]
    BY <1>14 DEF HostSpawned
  <2>2. ASSUME NEW x \in Ids PROVE sessions'[x].controller = sessions[x].controller
    BY <1>1, <2>1 DEF Entries
  <2> QED BY <2>2 DEF ControllersKept
<1>15. CASE \/ TakesAdmission(c) \/ IsRefused(c) \/ IsLive(c) \/ WantsRoom(c) \/ HasNoRecovery(c)
            \/ LacksRoom(c) \/ EvictsOrNot(c) \/ WindowEnds(c) \/ WaitsOutSave(c) \/ SaveIsOver(c)
  <2>1. UNCHANGED sessions
    BY <1>15 DEF TakesAdmission, IsRefused, IsLive, EndsCall, WantsRoom, HasNoRecovery, LacksRoom,
                 EvictsOrNot, WindowEnds, WaitsOutSave, SaveIsOver
  <2> QED BY <2>1, <1>2
<1> QED BY <1>4, <1>5, <1>6, <1>7, <1>8, <1>10, <1>11, <1>12, <1>13, <1>14, <1>15 DEF Turn, AwaitEnds

LEMMA OutsideKeepsControllers ==
  ASSUME AdmissionInv, Outside
  PROVE  ControllersKept
<1>1. sessions \in [Ids -> Entries]
  BY DEF AdmissionInv, TypeOK
<1>2. CASE UNCHANGED sessions
  BY <1>2 DEF ControllersKept
<1>3. ASSUME NEW s \in Ids, ExecEnds(s) PROVE ControllersKept
  <2> DEFINE e == [sessions[s] EXCEPT !.status = "live_idle"]
  <2>1. e \in Entries /\ e.controller = sessions[s].controller
    BY <1>1 DEF Entries, Statuses
  <2>2. \/ sessions' = [sessions EXCEPT ![s] = Drained(e)]
        \/ sessions' = [sessions EXCEPT ![s] = e]
    BY <1>1, <1>3 DEF ExecEnds
  <2>3. TypeOK
    BY DEF AdmissionInv
  <2> HIDE DEF e
  <2> QED BY <2>1, <2>2, <2>3, DrainedIsTheirs, OneKeepsIts
<1>4. ASSUME NEW s \in Ids, HostExits(s) PROVE ControllersKept
  <2>1. sessions' = [sessions EXCEPT ![s] = Quarantined(sessions[s])]
    BY <1>1, <1>4 DEF HostExits
  <2>2. sessions[s] \in Entries /\ TypeOK
    BY <1>1 DEF AdmissionInv
  <2> QED BY <2>1, <2>2, QuarantinedFacts, OneKeepsIts
<1>5. ASSUME NEW s \in Ids, HostKilled(s) PROVE ControllersKept
  <2>1. sessions' = [sessions EXCEPT ![s].status = "recovering", ![s].killed = TRUE]
    BY <1>5 DEF HostKilled
  <2>2. ASSUME NEW x \in Ids PROVE sessions'[x].controller = sessions[x].controller
    BY <1>1, <2>1 DEF Entries
  <2> QED BY <2>2 DEF ControllersKept
<1>6. CASE Ask \/ ShutsDown \/ Save \/ \E a \in Actors : ActorMoves(a)
  <2>1. UNCHANGED sessions
    BY <1>6 DEF Save, Ask, AskAdmitted, AskHeld, AskRelease, Asked, ShutsDown, ActorMoves
  <2> QED BY <2>1, <1>2
<1>7. CASE RunsOn
  BY <1>1, <1>7, WokenFacts DEF RunsOn, ControllersKept
<1> QED BY <1>3, <1>4, <1>5, <1>6, <1>7 DEF Outside

\* Who leaves a session is who was its controller.
LEMMA LeftIsTheirs ==
  ASSUME NEW r \in Entries, NEW b, LeftBy(r, b).controller # r.controller
  PROVE  r.controller = b
BY DEF LeftBy, Entries

\* attach, detach, releaseActor and the ends of sessions: no step takes a live client's
\* controller lease from it but its own detach, the end of the session or the server's
\* stop.
THEOREM NobodyLosesALease == Spec => LeasesAreKept
<1>1. ASSUME AdmissionInv, [Next]_vars, NEW s \in Ids, NEW a \in Actors
      PROVE  KeepsItsLease(s, a)
  <2> SUFFICES ASSUME sessions[s].controller = a, actors[a] = "live", sessions'[s].controller # a,
                      sessions'[s].status # "none", ~Stopping
               PROVE  \E c \in Calls : calls[c].kind = "detach" /\ calls[c].actor = a
                                       /\ calls[c].on = s /\ calls'[c] = NoCall
    BY DEF KeepsItsLease
  <2>1. ~ControllersKept
    BY DEF ControllersKept
  <2>2. TypeOK /\ sessions \in [Ids -> Entries] /\ a # Nobody
    BY <1>1, AdmissionAssumption DEF AdmissionInv, TypeOK
  <2>3. ASSUME NEW c \in Calls, Attaches(c) PROVE FALSE
    <3>1. /\ TakesLock(c)
          /\ \/ /\ LiveController(calls[c].on) \in {Nobody, calls[c].actor}
                /\ sessions' = [sessions EXCEPT ![calls[c].on] =
                                  [sessions[calls[c].on] EXCEPT !.controller = calls[c].actor]]
             \/ UNCHANGED sessions
      BY <2>3 DEF Attaches, Sets, EndsCall, Entry
    <3>2. calls[c].on = s
      BY <3>1, <2>2
    <3>3. LiveController(s) = a
      BY <2>2 DEF LiveController
    <3>4. sessions' = [sessions EXCEPT ![s] = [sessions[s] EXCEPT !.controller = a]]
      BY <3>1, <3>2, <3>3, <2>2
    <3>5. sessions[s] \in Entries /\ sessions'[s] = [sessions[s] EXCEPT !.controller = a]
      BY <3>4, <2>2
    <3> QED BY <3>5 DEF Entries
  <2>4. ASSUME NEW c \in Calls, Detaches(c)
        PROVE  calls[c].kind = "detach" /\ calls[c].actor = a /\ calls[c].on = s /\ calls'[c] = NoCall
    <3>1. /\ TakesLock(c) /\ calls[c].kind = "detach" /\ Release(c)
          /\ sessions' = [sessions EXCEPT ![calls[c].on] = LeftBy(sessions[calls[c].on], calls[c].actor)]
      BY <2>4 DEF Detaches, Sets, Entry
    <3>2. calls[c].on \in Ids /\ calls'[c] = NoCall
      BY <1>1, <3>1, LockFinds DEF Release, AdmissionInv, TypeOK
    <3> PICK t \in Ids : t = calls[c].on
      BY <3>2
    <3> PICK b : b = calls[c].actor
      OBVIOUS
    <3> PICK e : e = LeftBy(sessions[t], b)
      OBVIOUS
    <3>3. /\ sessions'[s].controller # sessions[s].controller /\ TypeOK
          /\ sessions' = [sessions EXCEPT ![t] = e]
      BY <3>1, <2>2
    <3>4. s = t /\ sessions'[t] = e
      BY <3>3, <2>2
    <3>5. sessions[t] \in Entries /\ LeftBy(sessions[t], b).controller # sessions[t].controller
      BY <3>3, <3>4, <2>2
    <3>6. sessions[t].controller = b
      BY <3>5, LeftIsTheirs
    <3> QED BY <3>1, <3>2, <3>4, <3>6
  <2>5. ASSUME NEW c \in Calls, Releases(c) PROVE FALSE
    <3>1. /\ TakesLock(c) /\ calls[c].kind = "release"
          /\ sessions' = [sessions EXCEPT ![calls[c].on] = LeftBy(sessions[calls[c].on], calls[c].actor)]
      BY <2>2, <2>5 DEF Releases
    <3>2. calls[c].on \in Ids /\ actors[calls[c].actor] = "gone"
      BY <1>1, <3>1, LockFinds DEF AdmissionInv, HoldInv, Finds
    <3> PICK t \in Ids : t = calls[c].on
      BY <3>2
    <3> PICK b : b = calls[c].actor
      OBVIOUS
    <3> PICK e : e = LeftBy(sessions[t], b)
      OBVIOUS
    <3>3. /\ sessions'[s].controller # sessions[s].controller /\ TypeOK
          /\ sessions' = [sessions EXCEPT ![t] = e]
      BY <3>1, <2>2
    <3>4. s = t /\ sessions'[t] = e
      BY <3>3, <2>2
    <3>5. sessions[t] \in Entries /\ LeftBy(sessions[t], b).controller # sessions[t].controller
      BY <3>3, <3>4, <2>2
    <3>6. sessions[t].controller = b
      BY <3>5, LeftIsTheirs
    <3> QED BY <3>2, <3>4, <3>6
  <2>6. ASSUME NEW c \in Calls, Creates(c) PROVE FALSE
    <3>1. PICK e : sessions' = [sessions EXCEPT ![created + 1] = e]
      BY <2>6 DEF Creates
    <3>2. s = created + 1
      BY <3>1, <2>2
    <3>3. sessions[s] = Absent
      BY <1>1, <3>2 DEF AdmissionInv, HoldInv, EntryInv, TypeOK
    <3> QED BY <3>3, <2>2 DEF Absent
  <2>7. ASSUME NEW c \in Calls, Turn(c) \/ AwaitEnds(c)
        PROVE  \E d \in Calls : calls[d].kind = "detach" /\ calls[d].actor = a
                                /\ calls[d].on = s /\ calls'[d] = NoCall
    BY <1>1, <2>1, <2>3, <2>4, <2>5, <2>6, <2>7, TurnKeepsControllers
  <2>8. ~Outside
    BY <1>1, <2>1, OutsideKeepsControllers
  <2>9. ~(LineDrains \/ LocksDrain \/ StopsNext \/ LoopDone \/ NowStopped \/ HostsStopped)
    BY <1>1 DEF LineDrains, LocksDrain, StopsNext, LoopDone, NowStopped, HostsStopped, Stopping,
                AdmissionInv, StopInv
  <2>10. sessions' # sessions
    BY DEF ControllersKept
  <2>11. ~UNCHANGED vars
    BY <2>10 DEF vars
  <2> QED BY <1>1, <2>7, <2>8, <2>9, <2>11 DEF Next, Progress
<1>2. AdmissionInv /\ [Next]_vars => [\A s \in Ids, a \in Actors : KeepsItsLease(s, a)]_vars
  BY <1>1
<1> QED BY <1>2, AdmissionKeeps, PTL DEF Spec, LeasesAreKept
=============================================================================
