------------------------ MODULE SessionRecordsProofs ------------------------
(***************************************************************************)
(* Proofs about SessionRecords, for any times, execs, messages and harms.  *)
(***************************************************************************)
EXTENDS SessionRecords, TLAPS

\* Times that never go back.
Rising(ms) == \A i, j \in 1..Len(ms) : i <= j => ms[i] <= ms[j]

\* Execs are submitted in the order of their numbers, and none says anything before.
Shaped(hist, msgs) ==
    /\ \A d, e \in Execs : d < e /\ hist[e].status # "none" => hist[d].status # "none"
    /\ \A e \in Execs : Rising(msgs[e]) /\ (hist[e].status = "none" => msgs[e] = <<>>)
Whole(hist, msgs) == Shaped(hist, msgs) /\ HistoryTaken(hist, msgs)

\* An entry that is in use, which has a reason while it is quarantined and may keep
\* it as it closes; and one the schema takes, but for its times, which persist's own
\* stamp sets right.
EntryOk(s) ==
    /\ s.rev <=> s.ckAt # 0
    /\ s.status = "quarantined" => s.reason
    /\ s.reason => s.status \in {"quarantined", "closed"}
    /\ ~durable => ~s.rev /\ ~s.snap
EntryFit(s) == EntryOk(s) /\ (s.reason => s.status = "quarantined")

\* What is in memory, until an exec's late failure spoils its history, and on disk.
MemOk ==
    /\ EntryOk(mem.entry) /\ Shaped(mem.hist, mem.msgs)
    /\ ~spoiled => HistoryTaken(mem.hist, mem.msgs)
DiskOk == EntryFit(disk.entry) /\ Whole(disk.hist, disk.msgs)

\* The session's status and its active exec's are as its runtime is; a loop that fails
\* late has a record that was begun.
RunOk ==
    up /\ ~gone =>
       /\ ~spoiled => /\ active # None => live = "up" /\ mem.hist[active].status = "running"
                      /\ live = "up" => mem.entry.status \in {"live_idle", "live_busy"}
                      /\ live = "killed" => mem.entry.status = "recovering"
       /\ writing => active # None
       /\ \A e \in late : mem.hist[e].status # "none"

RecordsInv == TypeOK /\ MemOk /\ DiskOk /\ RunOk /\ StoresTakeAll

-----------------------------------------------------------------------------
(* Times and messages.                                                     *)

LEMMA LaterIs ==
  ASSUME NEW a \in Nat, NEW b \in Nat
  PROVE  Later(a, b) \in Nat /\ Later(a, b) >= a /\ Later(a, b) >= b
BY DEF Later

LEMMA EarlierIs ==
  ASSUME NEW a \in Nat, NEW b \in Nat
  PROVE  /\ Earlier(a, b) \in Nat /\ Earlier(a, b) <= b
         /\ \A c \in Nat : a >= c /\ b >= c => Earlier(a, b) >= c
BY DEF Earlier

LEMMA ClockIs == \A t \in Clock : t \in Nat /\ t # 0
BY BoundAssumption DEF Clock

LEMMA PrefixSame ==
  ASSUME NEW ms \in Messages  PROVE  IsPrefix(ms, ms)
BY DEF IsPrefix, Messages

LEMMA PrefixAppend ==
  ASSUME NEW ms \in Messages, NEW x \in Nat
  PROVE  IsPrefix(ms, Append(ms, x)) /\ Append(ms, x) \in Messages
BY DEF IsPrefix, Messages

LEMMA PrefixElements ==
  ASSUME NEW ms \in Messages, NEW ns \in Messages
  PROVE  IsPrefix(ms, ns) <=> Len(ms) <= Len(ns) /\ \A i \in 1..Len(ms) : ms[i] = ns[i]
<1>1. Len(ms) \in Nat /\ Len(ns) \in Nat
  BY DEF Messages
<1>2. ASSUME Len(ms) <= Len(ns)
      PROVE  SubSeq(ms, 1, Len(ms)) = SubSeq(ns, 1, Len(ms)) <=> \A i \in 1..Len(ms) : ms[i] = ns[i]
  <2>1. SubSeq(ms, 1, Len(ms)) = [i \in 1..Len(ms) |-> ms[i]]
    BY <1>1 DEF Messages
  <2>2. SubSeq(ns, 1, Len(ms)) = [i \in 1..Len(ms) |-> ns[i]]
    BY <1>1, <1>2 DEF Messages
  <2> QED
    BY <2>1, <2>2
<1> QED
  BY <1>2 DEF IsPrefix

LEMMA PrefixTrans ==
  ASSUME NEW l \in Messages, NEW ms \in Messages, NEW ns \in Messages,
         IsPrefix(l, ms), IsPrefix(ms, ns)
  PROVE  IsPrefix(l, ns)
<1>1. Len(l) \in Nat /\ Len(ms) \in Nat /\ Len(ns) \in Nat
  BY DEF Messages
<1> QED
  BY <1>1, PrefixElements

LEMMA LastIs ==
  ASSUME NEW ms \in Messages
  PROVE  LastOf(ms) \in Nat /\ (Rising(ms) => \A i \in 1..Len(ms) : ms[i] <= LastOf(ms))
<1>1. Len(ms) \in Nat /\ (ms # <<>> => Len(ms) \in 1..Len(ms)) /\ \A i \in 1..Len(ms) : ms[i] \in Nat
  BY DEF Messages
<1>2. CASE ms = <<>>
  BY <1>2 DEF LastOf
<1>3. CASE ms # <<>>
  BY <1>1, <1>3 DEF LastOf, Rising
<1> QED
  BY <1>2, <1>3

\* A message that is no earlier than the last one keeps the times rising.
LEMMA RisesOn ==
  ASSUME NEW ms \in Messages, Rising(ms), NEW x \in Nat, x >= LastOf(ms)
  PROVE  Rising(Append(ms, x))
<1> DEFINE ns == Append(ms, x)
<1>1. /\ Len(ms) \in Nat /\ Len(ns) = Len(ms) + 1 /\ ns[Len(ms) + 1] = x
      /\ \A i \in 1..Len(ms) : ns[i] = ms[i] /\ ms[i] \in Nat
  BY DEF Messages
<1>2. \A i \in 1..Len(ms) : ms[i] <= x
  BY <1>1, LastIs
<1> HIDE DEF ns
<1>3. \A i, j \in 1..Len(ns) : i <= j => ns[i] <= ns[j]
  BY <1>1, <1>2 DEF Rising
<1> QED
  BY <1>3 DEF Rising, ns

-----------------------------------------------------------------------------
(* How an exec's record and messages may follow others: it neither begins  *)
(* nor is undone, is as whole as it was, and once it ended stays so.       *)

Sound(r, ms) == Rising(ms) /\ ExecTaken(r, ms)
Follows(r, ms, q, ns) ==
    /\ q \in Records /\ ns \in Messages
    /\ q.status = "none" <=> r.status = "none"
    /\ q.submitted = r.submitted
    /\ r.status = "none" => ns = ms
    /\ Rising(ms) => Rising(ns)
    /\ r.status # "none" /\ Sound(r, ms) => ExecTaken(q, ns)
    /\ IsPrefix(ms, ns)
    /\ r.status \in Ends => q = r /\ ns = ms

LEMMA FollowsSame ==
  ASSUME NEW r \in Records, NEW ms \in Messages  PROVE  Follows(r, ms, r, ms)
BY PrefixSame DEF Follows, Sound

LEMMA FollowsTrans ==
  ASSUME NEW p \in Records, NEW ls \in Messages, NEW r \in Records, NEW ms \in Messages,
         NEW q \in Records, NEW ns \in Messages, Follows(p, ls, r, ms), Follows(r, ms, q, ns)
  PROVE  Follows(p, ls, q, ns)
<1>1. IsPrefix(ls, ns)
  BY PrefixTrans DEF Follows
<1> QED
  BY <1>1 DEF Follows, Sound

\* The time an exec's end has is no earlier than all it did.
LEMMA EndIs ==
  ASSUME NEW r \in Records, NEW ms \in Messages, NEW t \in Clock
  PROVE  LET x == EndOf(r, ms, t) IN
         /\ x \in Nat /\ x # 0 /\ x >= r.submitted /\ x >= r.started /\ x >= Origin(r)
         /\ x >= LastOf(ms)
<1>1. t \in Nat /\ t # 0 /\ r.submitted \in Nat /\ r.started \in Nat /\ LastOf(ms) \in Nat
  BY ClockIs, LastIs DEF Records
<1>2. PICK a \in Nat : a = Later(t, r.submitted) /\ a >= t /\ a >= r.submitted
  BY <1>1, LaterIs
<1>3. PICK b \in Nat : b = Later(r.started, LastOf(ms)) /\ b >= r.started /\ b >= LastOf(ms)
  BY <1>1, LaterIs
<1>4. Later(a, b) \in Nat /\ Later(a, b) >= a /\ Later(a, b) >= b
  BY LaterIs
<1>5. EndOf(r, ms, t) = Later(a, b)
  BY <1>2, <1>3 DEF EndOf
<1> QED
  BY <1>1, <1>2, <1>3, <1>4, <1>5 DEF Origin

\* An exec with no runtime to run it ends interrupted.
LEMMA OrphanedFollows ==
  ASSUME NEW r \in Records, NEW ms \in Messages, NEW t \in Clock, r.status \in Pending
  PROVE  Follows(r, ms, Orphaned(r, ms, t), ms)
<1>1. PICK x \in Nat : /\ x = EndOf(r, ms, t) /\ x # 0 /\ x >= r.submitted /\ x >= r.started
                       /\ x >= Origin(r) /\ x >= LastOf(ms)
  BY EndIs
<1>2. PICK n \in Nat : n = IF r.status = "queued" THEN 0 ELSE x - Origin(r)
  BY <1>1 DEF Records, Origin
<1> DEFINE q == Orphaned(r, ms, t)
<1>3. /\ q \in Records /\ q.status = "interrupted" /\ q.why = TRUE /\ q.finished = x
      /\ q.lasted = n /\ q.submitted = r.submitted /\ q.started = r.started
  BY <1>1, <1>2 DEF Orphaned, Records, Ends
<1> HIDE DEF q
<1>4. Origin(q) = Origin(r) /\ r.status \notin Ends /\ r.status # "none"
  BY <1>3 DEF Origin, Pending, Ends
<1>5. ASSUME Sound(r, ms)  PROVE  ExecTaken(q, ms)
  <2>1. \A i \in 1..Len(ms) : ms[i] <= x
    BY <1>1, <1>5, LastIs DEF Sound, Messages
  <2>2. /\ q.started # 0 => q.started >= q.submitted
        /\ q.lasted = IF q.started = 0 /\ q.status = "interrupted" THEN 0
                      ELSE q.finished - Origin(q)
    BY <1>1, <1>2, <1>3, <1>4, <1>5 DEF Sound, ExecTaken, Pending
  <2>3. \A i \in 1..Len(ms) : ms[i] >= Origin(q) /\ (i > 1 => ms[i] >= ms[i - 1])
    BY <1>4, <1>5 DEF Sound, ExecTaken
  <2> QED
    BY <1>1, <1>3, <1>4, <2>1, <2>2, <2>3 DEF ExecTaken, Ends
<1> QED
  BY <1>3, <1>4, <1>5, PrefixSame DEF Follows, Sound, q

\* An exec that ran ends, as `end`.
LEMMA FinishedFollows ==
  ASSUME NEW r \in Records, NEW ms \in Messages, NEW t \in Clock, NEW end \in Ends,
         r.status = "running"
  PROVE  LET q == Finished(r, end, EndOf(r, ms, t)) IN
         /\ Follows(r, ms, q, ms)
         /\ q.status = end /\ q.finished = EndOf(r, ms, t) /\ Origin(q) = Origin(r)
<1>1. PICK x \in Nat : /\ x = EndOf(r, ms, t) /\ x # 0 /\ x >= r.submitted /\ x >= r.started
                       /\ x >= Origin(r) /\ x >= LastOf(ms)
  BY EndIs
<1>2. PICK n \in Nat : n = IF r.started # 0 /\ x >= r.started THEN x - r.started ELSE 0
  BY <1>1 DEF Records
<1> DEFINE q == Finished(r, end, x)
<1>3. /\ q \in Records /\ q.status = end /\ (q.why <=> end = "interrupted") /\ q.finished = x
      /\ q.lasted = n /\ q.submitted = r.submitted /\ q.started = r.started
  BY <1>1, <1>2 DEF Finished, Records
<1> HIDE DEF q
<1>4. Origin(q) = Origin(r) /\ r.status \notin Ends /\ r.status # "none" /\ end # "none"
  BY <1>3 DEF Origin, Ends
<1>5. ASSUME Sound(r, ms)  PROVE  ExecTaken(q, ms)
  <2>1. \A i \in 1..Len(ms) : ms[i] <= x
    BY <1>1, <1>5, LastIs DEF Sound, Messages
  <2>2. r.started # 0 /\ r.started >= r.submitted /\ Origin(r) = r.started
    BY <1>5 DEF Sound, ExecTaken, Origin
  <2>3. \A i \in 1..Len(ms) : ms[i] >= Origin(q) /\ (i > 1 => ms[i] >= ms[i - 1])
    BY <1>4, <1>5 DEF Sound, ExecTaken
  <2> QED
    BY <1>1, <1>2, <1>3, <1>4, <2>1, <2>2, <2>3 DEF ExecTaken, Ends
<1>6. Follows(r, ms, q, ms)
  BY <1>3, <1>4, <1>5, PrefixSame DEF Follows, Sound
<1> QED
  BY <1>1, <1>3, <1>4, <1>6 DEF q

\* What is said of a record comes after all that was said, and by its end.
LEMMA SaidIs ==
  ASSUME NEW r \in Records, NEW ms \in Messages, NEW v \in Clock, Rising(ms),
         r.finished # 0 => r.finished >= LastOf(ms) /\ r.finished >= Origin(r)
  PROVE  \E x \in Nat : /\ Said(r, ms, v) = Append(ms, x)
                        /\ x >= LastOf(ms) /\ x >= Origin(r)
                        /\ r.finished # 0 => x <= r.finished
<1>1. v \in Nat /\ LastOf(ms) \in Nat /\ Origin(r) \in Nat /\ r.finished \in Nat
  BY ClockIs, LastIs DEF Records, Origin
<1>2. PICK a \in Nat : a = Later(Origin(r), LastOf(ms)) /\ a >= Origin(r) /\ a >= LastOf(ms)
  BY <1>1, LaterIs
<1>3. PICK b \in Nat : b = Later(v, a) /\ b >= a
  BY <1>1, LaterIs
<1>4. CASE r.finished = 0
  BY <1>1, <1>2, <1>3, <1>4 DEF Said
<1>5. CASE r.finished # 0
  <2>1. PICK x \in Nat : /\ x = Earlier(b, r.finished) /\ x <= r.finished
                         /\ \A c \in Nat : b >= c /\ r.finished >= c => x >= c
    BY <1>1, EarlierIs
  <2>2. Said(r, ms, v) = Append(ms, x)
    BY <1>2, <1>3, <1>5, <2>1 DEF Said
  <2> QED
    BY <1>1, <1>2, <1>3, <1>5, <2>1, <2>2
<1> QED
  BY <1>4, <1>5

LEMMA SaidTaken ==
  ASSUME NEW q \in Records, NEW ms \in Messages, NEW x \in Nat, Rising(ms), ExecTaken(q, ms),
         q.status # "queued", x >= LastOf(ms), x >= Origin(q), q.finished # 0 => x <= q.finished
  PROVE  ExecTaken(q, Append(ms, x))
<1> DEFINE ns == Append(ms, x)
<1>1. /\ Len(ms) \in Nat /\ Len(ns) = Len(ms) + 1 /\ ns[Len(ms) + 1] = x
      /\ \A i \in 1..Len(ms) : ns[i] = ms[i] /\ ms[i] \in Nat
  BY DEF Messages
<1>2. Len(ms) # 0 => ms[Len(ms)] <= x
  BY <1>1, LastIs
<1> HIDE DEF ns
<1>3. \A i \in 1..Len(ns) : /\ ns[i] >= Origin(q) /\ (q.finished # 0 => ns[i] <= q.finished)
                            /\ i > 1 => ns[i] >= ns[i - 1]
  <2> TAKE i \in 1..Len(ns)
  <2>1. CASE i \in 1..Len(ms)
    <3>1. i > 1 => i - 1 \in 1..Len(ms)
      BY <1>1, <2>1
    <3> QED
      BY <1>1, <2>1, <3>1 DEF ExecTaken
  <2>2. CASE i = Len(ms) + 1
    <3>1. i > 1 => i - 1 = Len(ms) /\ Len(ms) \in 1..Len(ms)
      BY <1>1, <2>2
    <3> QED
      BY <1>1, <1>2, <2>2, <3>1
  <2> QED
    BY <1>1, <2>1, <2>2
<1>4. ExecTaken(q, ns)
  BY <1>3 DEF ExecTaken
<1> QED
  BY <1>4 DEF ns

\* A running exec says something, or fails and says why.
LEMMA SaidFollows ==
  ASSUME NEW r \in Records, NEW ms \in Messages, NEW v \in Clock, Rising(ms),
         r.status = "running", r.finished = 0
  PROVE  Follows(r, ms, r, Said(r, ms, v))
<1>1. PICK x \in Nat : Said(r, ms, v) = Append(ms, x) /\ x >= LastOf(ms) /\ x >= Origin(r)
  BY SaidIs
<1>2. Sound(r, ms) => ExecTaken(r, Append(ms, x))
  BY <1>1, SaidTaken DEF Sound
<1> QED
  BY <1>1, <1>2, RisesOn, PrefixAppend DEF Follows, Sound, Ends

LEMMA FailsFollows ==
  ASSUME NEW r \in Records, NEW ms \in Messages, NEW t \in Clock, NEW v \in Clock, Rising(ms),
         r.status = "running"
  PROVE  LET q == Finished(r, "error", EndOf(r, ms, t)) IN Follows(r, ms, q, Said(q, ms, v))
<1> DEFINE q == Finished(r, "error", EndOf(r, ms, t))
<1>1. /\ Follows(r, ms, q, ms) /\ q.status = "error" /\ q.finished = EndOf(r, ms, t)
      /\ Origin(q) = Origin(r)
  BY FinishedFollows DEF Ends
<1>2. q \in Records
  BY <1>1 DEF Follows
<1> HIDE DEF q
<1>3. q.finished # 0 /\ q.finished >= LastOf(ms) /\ q.finished >= Origin(q)
  BY <1>1, EndIs
<1>4. PICK x \in Nat : /\ Said(q, ms, v) = Append(ms, x)
                       /\ x >= LastOf(ms) /\ x >= Origin(q) /\ x <= q.finished
  BY <1>2, <1>3, SaidIs
<1>5. Sound(r, ms) => ExecTaken(q, Append(ms, x))
  BY <1>1, <1>2, <1>4, SaidTaken DEF Follows, Sound
<1>6. Follows(r, ms, q, Said(q, ms, v))
  BY <1>1, <1>4, <1>5, RisesOn, PrefixAppend DEF Follows, Sound, Ends
<1> QED
  BY <1>6 DEF q

\* A queued exec starts.
LEMMA StartedFollows ==
  ASSUME NEW r \in Records, NEW ms \in Messages, NEW t \in Clock, NEW q \in Records,
         r.status = "queued",
         q = [r EXCEPT !.status = "running", !.started = Later(t, r.submitted)]
  PROVE  Follows(r, ms, q, ms)
<1>1. PICK x \in Nat : x = Later(t, r.submitted) /\ x >= t /\ x >= r.submitted /\ x # 0
  BY ClockIs, LaterIs DEF Records
<1>2. /\ q.status = "running" /\ q.started = x /\ q.submitted = r.submitted
      /\ q.finished = r.finished /\ q.lasted = r.lasted /\ q.why = r.why
  BY <1>1 DEF Records
<1>3. ASSUME Sound(r, ms)  PROVE  ExecTaken(q, ms)
  <2>1. ms = <<>> /\ r.finished = 0 /\ ~r.why
    BY <1>3 DEF Sound, ExecTaken, Ends
  <2> QED
    BY <1>1, <1>2, <2>1 DEF ExecTaken, Ends, Origin
<1> QED
  BY <1>2, <1>3, PrefixSame DEF Follows, Sound, Ends

-----------------------------------------------------------------------------
(* The same of a session's whole history.                                  *)

Goes(m, n) ==
    \A e \in Execs : Follows(m.hist[e], m.msgs[e], n.hist[e], n.msgs[e])

LEMMA MemoryIs ==
  ASSUME NEW m \in Memories
  PROVE  /\ m.entry \in Entries /\ m.hist \in [Execs -> Records] /\ m.msgs \in [Execs -> Messages]
         /\ \A e \in Execs : m.hist[e] \in Records /\ m.msgs[e] \in Messages
         /\ m = [entry |-> m.entry, hist |-> m.hist, msgs |-> m.msgs]
BY DEF Memories

\* Only the entry changes.
SameHistory(m, n) == n \in Memories /\ n.hist = m.hist /\ n.msgs = m.msgs

LEMMA GoesSame ==
  ASSUME NEW m \in Memories, NEW n, SameHistory(m, n)
  PROVE  Goes(m, n)
BY FollowsSame, MemoryIs DEF Goes, SameHistory

LEMMA GoesTrans ==
  ASSUME NEW l \in Memories, NEW m \in Memories, NEW n \in Memories, Goes(l, m), Goes(m, n)
  PROVE  Goes(l, n)
<1> SUFFICES ASSUME NEW e \in Execs
             PROVE  Follows(l.hist[e], l.msgs[e], n.hist[e], n.msgs[e])
  BY DEF Goes
<1>1. Follows(l.hist[e], l.msgs[e], m.hist[e], m.msgs[e]) /\ Follows(m.hist[e], m.msgs[e], n.hist[e], n.msgs[e])
  BY DEF Goes
<1> QED
  BY <1>1, MemoryIs, FollowsTrans

LEMMA GoesShaped ==
  ASSUME NEW m \in Memories, NEW n \in Memories, Goes(m, n), Shaped(m.hist, m.msgs)
  PROVE  Shaped(n.hist, n.msgs)
BY DEF Goes, Follows, Shaped

\* A whole history goes on whole.
LEMMA GoesWhole ==
  ASSUME NEW m \in Memories, NEW n \in Memories, Goes(m, n), Whole(m.hist, m.msgs)
  PROVE  Whole(n.hist, n.msgs)
<1>1. Shaped(n.hist, n.msgs)
  BY GoesShaped DEF Whole
<1>2. ASSUME NEW e \in Execs, n.hist[e].status # "none"
      PROVE  ExecTaken(n.hist[e], n.msgs[e])
  BY <1>2 DEF Goes, Follows, Sound, Whole, Shaped, HistoryTaken
<1>3. ASSUME NEW e \in Execs, n.hist[e].status # "none", NEW d \in Execs, d < e
      PROVE  n.hist[d].submitted <= n.hist[e].submitted
  BY <1>3 DEF Goes, Follows, Whole, HistoryTaken
<1> QED
  BY <1>1, <1>2, <1>3 DEF Whole, HistoryTaken

LEMMA ReconciledGoes ==
  ASSUME NEW m \in Memories, NEW kept, NEW t \in Clock
  PROVE  LET n == Reconciled(m, kept, t) IN
         n \in Memories /\ n.entry = m.entry /\ Goes(m, n)
<1> DEFINE n == Reconciled(m, kept, t)
           h == [e \in Execs |-> IF m.hist[e].status \in Pending \ kept
                                 THEN Orphaned(m.hist[e], m.msgs[e], t) ELSE m.hist[e]]
<1>1. n = [m EXCEPT !.hist = h]
  BY MemoryIs DEF Reconciled
<1>2. \A e \in Execs : Follows(m.hist[e], m.msgs[e], h[e], m.msgs[e])
  BY OrphanedFollows, FollowsSame, MemoryIs
<1>3. h \in [Execs -> Records]
  BY <1>2 DEF Follows
<1> HIDE DEF h, n
<1>4. n = [entry |-> m.entry, hist |-> h, msgs |-> m.msgs]
  BY <1>1, MemoryIs
<1>5. n \in Memories /\ n.entry = m.entry /\ n.hist = h /\ n.msgs = m.msgs
  BY <1>3, <1>4, MemoryIs DEF Memories
<1>6. Goes(m, n)
  BY <1>2, <1>5 DEF Goes
<1> QED
  BY <1>5, <1>6 DEF n

\* One exec's record and messages follow what they were.
LEMMA OneGoes ==
  ASSUME NEW m \in Memories, NEW n \in Memories, NEW e \in Execs, NEW r, NEW ms,
         n.hist = [m.hist EXCEPT ![e] = r], n.msgs = [m.msgs EXCEPT ![e] = ms],
         Follows(m.hist[e], m.msgs[e], r, ms)
  PROVE  Goes(m, n)
<1> SUFFICES ASSUME NEW d \in Execs
             PROVE  Follows(m.hist[d], m.msgs[d], n.hist[d], n.msgs[d])
  BY DEF Goes
<1>1. CASE d = e
  BY <1>1, MemoryIs
<1>2. CASE d # e
  <2>1. n.hist[d] = m.hist[d] /\ n.msgs[d] = m.msgs[d]
    BY <1>2, MemoryIs
  <2> QED
    BY <2>1, FollowsSame, MemoryIs
<1> QED
  BY <1>1, <1>2

LEMMA EndedAsIs ==
  ASSUME NEW m \in Memories, NEW e \in Execs, NEW end, NEW t
  PROVE  EndedAs(m, e, end, t).hist
           = [m.hist EXCEPT ![e] = Finished(m.hist[e], end, EndOf(m.hist[e], m.msgs[e], t))]
<1> DEFINE r == Finished(m.hist[e], end, EndOf(m.hist[e], m.msgs[e], t))
<1>1. EndedAs(m, e, end, t) = [m EXCEPT !.hist[e] = r]
  BY DEF EndedAs
<1> HIDE DEF r
<1>2. EndedAs(m, e, end, t).hist = [m.hist EXCEPT ![e] = r]
  BY <1>1, MemoryIs
<1> QED
  BY <1>2 DEF r

LEMMA EndedAsGoes ==
  ASSUME NEW m \in Memories, NEW e \in Execs, NEW end \in Ends, NEW t \in Clock,
         m.hist[e].status = "running"
  PROVE  LET n == EndedAs(m, e, end, t) IN
         n \in Memories /\ n.entry = m.entry /\ n.msgs = m.msgs /\ Goes(m, n)
<1> DEFINE n == EndedAs(m, e, end, t)
           r == Finished(m.hist[e], end, EndOf(m.hist[e], m.msgs[e], t))
<1>1. n = [m EXCEPT !.hist[e] = r]
  BY DEF EndedAs
<1>2. Follows(m.hist[e], m.msgs[e], r, m.msgs[e])
  BY FinishedFollows, MemoryIs
<1>3. r \in Records
  BY <1>2 DEF Follows
<1> HIDE DEF n, r
<1>4. n = [entry |-> m.entry, hist |-> [m.hist EXCEPT ![e] = r], msgs |-> m.msgs]
  BY <1>1, MemoryIs
<1>5. [m.hist EXCEPT ![e] = r] \in [Execs -> Records] /\ m.msgs = [m.msgs EXCEPT ![e] = m.msgs[e]]
  BY <1>3, MemoryIs
<1>6. n \in Memories /\ n.entry = m.entry /\ n.hist = [m.hist EXCEPT ![e] = r] /\ n.msgs = m.msgs
  BY <1>4, <1>5, MemoryIs DEF Memories
<1>7. Goes(m, n)
  BY <1>2, <1>5, <1>6, OneGoes
<1> QED
  BY <1>6, <1>7 DEF n, r

LEMMA FailingIs ==
  ASSUME NEW m \in Memories, NEW e \in Execs, NEW v, NEW n, n = Failing(m, e, v),
         NEW s \in Messages, s = Said(m.hist[e], m.msgs[e], v)
  PROVE  /\ n \in Memories /\ n.entry = m.entry /\ n.hist = m.hist
         /\ n.msgs = [m.msgs EXCEPT ![e] = s]
<1>1. n = [m EXCEPT !.msgs[e] = s]
  BY DEF Failing
<1>2. n = [entry |-> m.entry, hist |-> m.hist, msgs |-> [m.msgs EXCEPT ![e] = s]]
  BY <1>1, MemoryIs
<1>3. [m.msgs EXCEPT ![e] = s] \in [Execs -> Messages]
  BY MemoryIs
<1> QED
  BY <1>2, <1>3, MemoryIs DEF Memories

\* The exec fails and says why.
LEMMA FailsGoes ==
  ASSUME NEW m \in Memories, NEW n \in Memories, NEW e \in Execs, NEW t \in Clock,
         NEW v \in Clock, m.hist[e].status = "running", Rising(m.msgs[e]),
         NEW r, r = Finished(m.hist[e], "error", EndOf(m.hist[e], m.msgs[e], t)),
         n.hist = [m.hist EXCEPT ![e] = r], n.msgs = [m.msgs EXCEPT ![e] = Said(r, m.msgs[e], v)]
  PROVE  Goes(m, n)
<1>1. Follows(m.hist[e], m.msgs[e], r, Said(r, m.msgs[e], v))
  BY FailsFollows, MemoryIs
<1> QED
  BY <1>1, OneGoes

LEMMA FailedGoes ==
  ASSUME NEW m \in Memories, NEW e \in Execs, NEW t \in Clock, NEW v \in Clock,
         m.hist[e].status = "running", Rising(m.msgs[e])
  PROVE  LET n == Failed(m, e, t, v) IN
         /\ n \in Memories /\ n.entry = m.entry /\ Goes(m, n)
<1> DEFINE k == EndedAs(m, e, "error", t)
           r == Finished(m.hist[e], "error", EndOf(m.hist[e], m.msgs[e], t))
           s == Said(r, m.msgs[e], v)
           n == Failing(k, e, v)
<1>0. k \in Memories /\ k.entry = m.entry /\ k.msgs = m.msgs
  BY EndedAsGoes DEF Ends
<1>1. k \in Memories /\ k.entry = m.entry /\ k.msgs = m.msgs /\ k.hist = [m.hist EXCEPT ![e] = r]
  BY <1>0, EndedAsIs
<1>2. Follows(m.hist[e], m.msgs[e], r, s)
  BY FailsFollows, MemoryIs
<1> HIDE DEF k, r, s
<1>3. k.hist[e] = r /\ k.msgs[e] = m.msgs[e] /\ s \in Messages
  BY <1>1, <1>2, MemoryIs DEF Follows
<1>4. s = Said(k.hist[e], k.msgs[e], v)
  BY <1>3 DEF s
<1>5. n = Failing(k, e, v)
  OBVIOUS
<1> HIDE DEF n
<1>6. n \in Memories /\ n.entry = k.entry /\ n.hist = k.hist /\ n.msgs = [k.msgs EXCEPT ![e] = s]
  <2>1. k \in Memories /\ s \in Messages
    BY <1>1, <1>3
  <2>2. n = Failing(k, e, v)
    BY <1>5
  <2>3. s = Said(k.hist[e], k.msgs[e], v)
    BY <1>4
  <2> QED
    BY <2>1, <2>2, <2>3, FailingIs
<1>7. Goes(m, n)
  BY <1>1, <1>2, <1>6, OneGoes
<1> QED
  BY <1>1, <1>6, <1>7 DEF n, k, Failed

-----------------------------------------------------------------------------
(* What changes an entry only.                                             *)

\* n has the history of m, and its entry but for the status, the reason and the times.
Marks(m, n, status, reason) ==
    /\ SameHistory(m, n)
    /\ n.entry.status = status /\ (n.entry.reason <=> reason)
    /\ (n.entry.rev <=> m.entry.rev) /\ n.entry.ckAt = m.entry.ckAt
    /\ (n.entry.snap <=> m.entry.snap)

LEMMA EntryIs ==
  ASSUME NEW m \in Memories, NEW s \in Entries, NEW n, n = [m EXCEPT !.entry = s]
  PROVE  SameHistory(m, n) /\ n.entry = s
<1>1. n = [entry |-> s, hist |-> m.hist, msgs |-> m.msgs]
  BY MemoryIs
<1> QED
  BY <1>1, MemoryIs DEF Memories, SameHistory

LEMMA MarksFrom ==
  ASSUME NEW m \in Memories, NEW s \in Entries, NEW n, n = [m EXCEPT !.entry = s],
         s.rev = m.entry.rev, s.ckAt = m.entry.ckAt, s.snap = m.entry.snap
  PROVE  Marks(m, n, s.status, s.reason)
BY EntryIs DEF Marks

LEMMA TouchedIs ==
  ASSUME NEW m \in Memories, NEW u \in Nat
  PROVE  Marks(m, Touched(m, u), m.entry.status, m.entry.reason)
<1>1. m.entry \in Entries /\ m.entry.created \in Nat /\ m.entry.updated \in Nat /\ m.entry.ckAt \in Nat
  BY MemoryIs DEF Entries
<1>2. PICK x \in Nat : x = Later(Later(u, m.entry.created), Later(m.entry.updated, m.entry.ckAt))
  BY <1>1, LaterIs
<1> DEFINE s == [m.entry EXCEPT !.updated = x]
<1>3. /\ s \in Entries /\ s.rev = m.entry.rev /\ s.ckAt = m.entry.ckAt /\ s.snap = m.entry.snap
      /\ s.status = m.entry.status /\ s.reason = m.entry.reason
  BY <1>1, <1>2 DEF Entries
<1>4. Touched(m, u) = [m EXCEPT !.entry = s]
  BY <1>2, MemoryIs DEF Touched
<1> HIDE DEF s
<1> QED
  BY <1>3, <1>4, MarksFrom

LEMMA StampedIs ==
  ASSUME NEW m \in Memories
  PROVE  /\ Marks(m, Stamped(m), m.entry.status, m.entry.reason)
         /\ Stamped(m).entry.updated >= Stamped(m).entry.created
         /\ Stamped(m).entry.updated >= Stamped(m).entry.ckAt
<1>1. m.entry \in Entries /\ m.entry.created \in Nat /\ m.entry.updated \in Nat /\ m.entry.ckAt \in Nat
  BY MemoryIs DEF Entries
<1> DEFINE y == Later(m.entry.created, m.entry.ckAt)
           x == Later(m.entry.updated, y)
<1>2. y \in Nat /\ y >= m.entry.created /\ y >= m.entry.ckAt
  BY <1>1, LaterIs
<1> HIDE DEF y
<1>3. x \in Nat /\ x >= y
  BY <1>1, <1>2, LaterIs
<1> HIDE DEF x
<1> DEFINE s == [m.entry EXCEPT !.updated = x]
<1>4. /\ s \in Entries /\ s.rev = m.entry.rev /\ s.ckAt = m.entry.ckAt /\ s.snap = m.entry.snap
      /\ s.status = m.entry.status /\ s.reason = m.entry.reason /\ s.updated = x
      /\ s.created = m.entry.created
  BY <1>1, <1>3 DEF Entries
<1>5. Stamped(m) = [m EXCEPT !.entry = s]
  BY MemoryIs DEF Stamped, x, y
<1> HIDE DEF s
<1>6. Stamped(m).entry = s
  BY <1>4, <1>5, EntryIs
<1> QED
  BY <1>1, <1>2, <1>3, <1>4, <1>5, <1>6, MarksFrom

LEMMA StatusIs ==
  ASSUME NEW m \in Memories, NEW status \in Statuses
  PROVE  Marks(m, Status(m, status), status, m.entry.reason)
<1> DEFINE s == [m.entry EXCEPT !.status = status]
<1>1. /\ s \in Entries /\ s.rev = m.entry.rev /\ s.ckAt = m.entry.ckAt /\ s.snap = m.entry.snap
      /\ s.status = status /\ s.reason = m.entry.reason
  BY MemoryIs DEF Entries
<1>2. Status(m, status) = [m EXCEPT !.entry = s]
  BY MemoryIs DEF Status
<1> HIDE DEF s
<1> QED
  BY <1>1, <1>2, MarksFrom

LEMMA LiveIdleIs ==
  ASSUME NEW m \in Memories
  PROVE  Marks(m, LiveIdle(m), "live_idle", FALSE)
<1> DEFINE s == [m.entry EXCEPT !.status = "live_idle", !.reason = FALSE]
<1>1. /\ s \in Entries /\ s.rev = m.entry.rev /\ s.ckAt = m.entry.ckAt /\ s.snap = m.entry.snap
      /\ s.status = "live_idle" /\ s.reason = FALSE
  BY MemoryIs DEF Entries, Statuses
<1>2. LiveIdle(m) = [m EXCEPT !.entry = s]
  BY MemoryIs DEF LiveIdle
<1> HIDE DEF s
<1>3. Marks(m, LiveIdle(m), s.status, s.reason)
  BY <1>1, <1>2, MarksFrom
<1> QED
  BY <1>1, <1>3

LEMMA QuarantinedIs ==
  ASSUME NEW m \in Memories, NEW u \in Nat
  PROVE  Marks(m, Quarantined(m, u), "quarantined", TRUE)
<1> DEFINE s == [m.entry EXCEPT !.status = "quarantined", !.reason = TRUE]
           k == [m EXCEPT !.entry.status = "quarantined", !.entry.reason = TRUE]
<1>1. /\ s \in Entries /\ s.rev = m.entry.rev /\ s.ckAt = m.entry.ckAt /\ s.snap = m.entry.snap
      /\ s.status = "quarantined" /\ s.reason = TRUE
  BY MemoryIs DEF Entries, Statuses
<1>2. k = [m EXCEPT !.entry = s]
  BY MemoryIs
<1>3. Quarantined(m, u) = Touched(k, u)
  BY DEF Quarantined
<1> HIDE DEF s, k
<1>4. Marks(m, k, s.status, s.reason)
  BY <1>1, <1>2, MarksFrom
<1>5. Marks(k, Quarantined(m, u), k.entry.status, k.entry.reason)
  BY <1>3, <1>4, TouchedIs DEF Marks, SameHistory
<1> QED
  BY <1>1, <1>4, <1>5 DEF Marks, SameHistory

\* terminalizeRuntimeExecs: the entry's marks stay, its pending execs end.
LEMMA TerminalizedIs ==
  ASSUME NEW m \in Memories, NEW kept, NEW t \in Clock
  PROVE  LET n == Terminalized(m, kept, t)
             k == Reconciled(m, kept, t) IN
         /\ Marks(k, n, m.entry.status, m.entry.reason) /\ Goes(m, n) /\ k.entry = m.entry
         /\ n \in Memories /\ n.hist = k.hist /\ n.msgs = m.msgs
<1> DEFINE n == Terminalized(m, kept, t)
           k == Reconciled(m, kept, t)
<1>1. k \in Memories /\ k.entry = m.entry /\ Goes(m, k)
  BY ReconciledGoes
<1>2. k.msgs = m.msgs
  BY MemoryIs DEF Reconciled
<1>3. m.entry \in Entries /\ m.entry.updated \in Nat
  BY MemoryIs DEF Entries
<1>4. PICK x \in Nat : x = Later(m.entry.updated, t)
  BY <1>3, LaterIs, ClockIs
<1> DEFINE s == [m.entry EXCEPT !.updated = x]
<1> HIDE DEF k
<1>5. /\ s \in Entries /\ s.rev = m.entry.rev /\ s.ckAt = m.entry.ckAt /\ s.snap = m.entry.snap
      /\ s.status = m.entry.status /\ s.reason = m.entry.reason
  BY <1>3, <1>4 DEF Entries
<1>6. n = [k EXCEPT !.entry = s]
  BY <1>1, <1>4, MemoryIs DEF Terminalized, k
<1> HIDE DEF s, n
<1>7. Marks(k, n, s.status, s.reason)
  BY <1>1, <1>5, <1>6, MarksFrom
<1>8. Goes(k, n) /\ n \in Memories /\ n.hist = k.hist /\ n.msgs = k.msgs
  BY <1>1, <1>7, GoesSame DEF Marks, SameHistory
<1>9. Goes(m, n)
  BY <1>1, <1>8, GoesTrans
<1> QED
  BY <1>1, <1>2, <1>5, <1>7, <1>8, <1>9 DEF n, k

-----------------------------------------------------------------------------
(* What a turn that persists leaves.                                       *)

\* No exec that was there is undone, nothing said is taken back, and what ended stays.
Final(m, n) ==
    \A e \in Execs :
       /\ n.hist[e].status = "none" => m.hist[e].status = "none"
       /\ IsPrefix(m.msgs[e], n.msgs[e])
       /\ m.hist[e].status \in Ends => n.hist[e] = m.hist[e] /\ n.msgs[e] = m.msgs[e]

\* What the schemas take, and what a client has read of is in.
Fine(n) ==
    n \in Memories /\ Whole(n.hist, n.msgs) /\ EntryFit(n.entry) /\ Final(mem, n)

\* A step's part of EndedIsFinal.
FinalStep ==
    up /\ up' /\ ~gone' /\ ~spoiled' =>
         \A e \in Execs :
            /\ IsPrefix(mem.msgs[e], mem'.msgs[e])
            /\ mem.hist[e].status \in Ends =>
                 mem'.hist[e] = mem.hist[e] /\ mem'.msgs[e] = mem.msgs[e]

LEMMA FineFrom ==
  ASSUME RecordsInv, ~spoiled, NEW n \in Memories, Goes(mem, n), EntryFit(n.entry)
  PROVE  Fine(n)
<1>1. mem \in Memories /\ Whole(mem.hist, mem.msgs)
  BY DEF RecordsInv, TypeOK, MemOk, Whole
<1>2. Whole(n.hist, n.msgs)
  BY <1>1, GoesWhole
<1>3. Final(mem, n)
  BY DEF Goes, Follows, Final
<1> QED
  BY <1>2, <1>3 DEF Fine

\* An entry's marks are all that make it fit.
LEMMA MarksFit ==
  ASSUME NEW m \in Memories, NEW n, NEW status \in Statuses, NEW reason \in BOOLEAN,
         EntryOk(m.entry), Marks(m, n, status, reason), reason <=> status = "quarantined"
  PROVE  EntryFit(n.entry)
BY DEF Marks, EntryFit, EntryOk

LEMMA StampedFine ==
  ASSUME NEW n \in Memories
  PROVE  /\ SameHistory(n, Stamped(n))
         /\ EntryOk(n.entry) => EntryOk(Stamped(n).entry)
         /\ EntryFit(n.entry) => EntryFit(Stamped(n).entry)
         /\ EntryFit(n.entry) /\ HistoryTaken(n.hist, n.msgs) => Taken(Stamped(n))
         /\ EntryOk(n.entry) /\ Taken(Stamped(n)) => EntryFit(Stamped(n).entry) /\ HistoryTaken(n.hist, n.msgs)
         /\ Stamped(n).entry.status = n.entry.status
<1> DEFINE k == Stamped(n)
<1>1. /\ Marks(n, k, n.entry.status, n.entry.reason)
      /\ k.entry.updated >= k.entry.created /\ k.entry.updated >= k.entry.ckAt
  BY StampedIs
<1> HIDE DEF k
<1>2. SameHistory(n, k) /\ k.entry.status = n.entry.status
  BY <1>1 DEF Marks
<1>3. EntryOk(n.entry) <=> EntryOk(k.entry)
  BY <1>1 DEF Marks, EntryOk
<1>4. EntryFit(n.entry) <=> EntryFit(k.entry)
  BY <1>1, <1>3 DEF Marks, EntryFit
<1>5. EntryFit(k.entry) => EntryTaken(k.entry)
  BY <1>1 DEF EntryFit, EntryOk, EntryTaken
<1>6. EntryOk(k.entry) /\ EntryTaken(k.entry) => EntryFit(k.entry)
  BY DEF EntryFit, EntryOk, EntryTaken
<1>7. Taken(k) <=> HistoryTaken(n.hist, n.msgs) /\ EntryTaken(k.entry)
  BY <1>2 DEF Taken, SameHistory
<1> QED
  BY <1>2, <1>3, <1>4, <1>5, <1>6, <1>7 DEF k

LEMMA ForgottenIs ==
  /\ Forgotten \in Memories /\ EntryFit(Forgotten.entry) /\ Whole(Forgotten.hist, Forgotten.msgs)
  /\ NoFiles \in [listed : BOOLEAN, entry : Entries, hist : [Execs -> Records],
                  msgs : [Execs -> Messages]]
  /\ NoFiles.entry = NoEntry /\ NoFiles.hist = NoHistory /\ NoFiles.msgs = NoMessages
  /\ Forgotten.entry = NoEntry /\ Forgotten.hist = NoHistory /\ Forgotten.msgs = NoMessages
<1>1. NoEntry \in Entries /\ EntryFit(NoEntry)
  BY DEF NoEntry, Entries, Statuses, EntryFit, EntryOk
<1>2. NoRecord \in Records /\ NoRecord.status = "none"
  BY DEF NoRecord, Records
<1>3. NoHistory \in [Execs -> Records] /\ \A e \in Execs : NoHistory[e].status = "none"
  BY <1>2 DEF NoHistory
<1>4. <<>> \in Messages /\ Len(<<>>) = 0
  BY DEF Messages
<1>5. NoMessages \in [Execs -> Messages] /\ \A e \in Execs : NoMessages[e] = <<>>
  BY <1>4 DEF NoMessages
<1>6. Whole(NoHistory, NoMessages)
  BY <1>3, <1>4, <1>5 DEF Whole, Shaped, HistoryTaken, Rising
<1> QED
  BY <1>1, <1>3, <1>5, <1>6 DEF Forgotten, NoFiles, Memories

\* persist's two files, where it may be that a schema refuses one.
LEMMA OnDiskKeeps ==
  ASSUME TypeOK, DiskOk, NEW m \in Memories, Shaped(m.hist, m.msgs), EntryOk(m.entry),
         OnDisk(m), durable' = durable
  PROVE  /\ disk' \in [listed : BOOLEAN, entry : Entries, hist : [Execs -> Records],
                       msgs : [Execs -> Messages]]
         /\ DiskOk' /\ up' \in BOOLEAN /\ mem' \in Memories
         /\ (up' /\ mem' = Stamped(m)) \/ (~up' /\ mem' = Forgotten)
<1>1. PICK dies \in BOOLEAN :
        LET lists == ~dies /\ Taken(Stamped(m)) IN
        /\ up' = ~dies /\ mem' = IF dies THEN Forgotten ELSE Stamped(m)
        /\ disk' = IF ~HistoryTaken(m.hist, m.msgs) THEN disk
                   ELSE [listed |-> disk.listed \/ lists,
                         entry |-> IF lists THEN Stamped(m).entry ELSE disk.entry,
                         hist |-> m.hist, msgs |-> m.msgs]
  BY DEF OnDisk
<1>2. Stamped(m) \in Memories /\ Stamped(m).entry \in Entries
  BY StampedFine, MemoryIs DEF SameHistory
<1>3. disk.listed \in BOOLEAN /\ disk.entry \in Entries
  BY DEF TypeOK
<1>4. CASE ~HistoryTaken(m.hist, m.msgs)
  <2>1. disk' = disk
    BY <1>1, <1>4
  <2>2. DiskOk'
    BY <2>1 DEF DiskOk, EntryFit, EntryOk, Whole, Shaped, HistoryTaken
  <2> QED
    BY <1>1, <1>2, <2>1, <2>2, ForgottenIs DEF TypeOK
<1>5. CASE HistoryTaken(m.hist, m.msgs)
  <2>1. PICK lists \in BOOLEAN : lists = (~dies /\ Taken(Stamped(m)))
    OBVIOUS
  <2>2. PICK s : s = IF lists THEN Stamped(m).entry ELSE disk.entry
    OBVIOUS
  <2>3. s \in Entries /\ EntryFit(s)
    <3>1. CASE lists
      BY <1>2, <2>1, <2>2, <3>1, StampedFine
    <3>2. CASE ~lists
      BY <1>3, <2>2, <3>2 DEF DiskOk
    <3> QED
      BY <3>1, <3>2
  <2>4. PICK b \in BOOLEAN : b = (disk.listed \/ lists)
    OBVIOUS
  <2>5. disk' = [listed |-> b, entry |-> s, hist |-> m.hist, msgs |-> m.msgs]
    BY <1>1, <1>5, <2>1, <2>2, <2>4
  <2>6. disk'.entry = s /\ disk'.hist = m.hist /\ disk'.msgs = m.msgs
    BY <2>5
  <2>7. EntryFit(disk.entry)'
    BY <2>3, <2>6 DEF EntryFit, EntryOk
  <2>8. Whole(disk.hist, disk.msgs)'
    BY <1>5, <2>6 DEF Whole, Shaped, HistoryTaken
  <2>9. disk' \in [listed : BOOLEAN, entry : Entries, hist : [Execs -> Records],
                   msgs : [Execs -> Messages]]
    BY <2>3, <2>5, MemoryIs
  <2> QED
    BY <1>1, <1>2, <2>7, <2>8, <2>9, ForgottenIs DEF DiskOk
<1> QED
  BY <1>4, <1>5

\* The runtime's state is one a session with the entry and history of m may be in.
RunsAs(m, l, a, w, late_) ==
    /\ a # None => l = "up" /\ m.hist[a].status = "running"
    /\ l = "up" => m.entry.status \in {"live_idle", "live_busy"}
    /\ l = "killed" => m.entry.status = "recovering"
    /\ w => a # None
    /\ \A e \in late_ : m.hist[e].status # "none"
Lives == {"none", "starting", "up", "killed", "closing"}

\* A turn whose writes the schemas take keeps the invariant, and what ended.
LEMMA PersistKeeps ==
  ASSUME RecordsInv, up, ~spoiled, NEW what, NEW before, NEW m,
         \A n \in before \cup {m} : Fine(n), Persist(what, before, m),
         UNCHANGED <<durable, gone, spoiled, harms>>,
         store' \in [at : Nat, reads : BOOLEAN], live' \in Lives, active' \in {None} \cup Execs,
         writing' \in BOOLEAN, late' \subseteq Execs, RunsAs(m, live', active', writing', late')
  PROVE  RecordsInv' /\ FinalStep
<1>1. Fine(m) /\ m \in Memories /\ Shaped(m.hist, m.msgs) /\ EntryOk(m.entry)
  BY DEF Fine, Whole, EntryFit
<1>2. \A n \in before \cup {m} : Taken(Stamped(n))
  BY StampedFine DEF Fine, Whole
<1>3. refused' = {}
  BY <1>2 DEF Persist, Written
<1>4. /\ disk' \in [listed : BOOLEAN, entry : Entries, hist : [Execs -> Records],
                    msgs : [Execs -> Messages]]
      /\ DiskOk' /\ up' \in BOOLEAN /\ mem' \in Memories
      /\ (up' /\ mem' = Stamped(m)) \/ (~up' /\ mem' = Forgotten)
  BY <1>1, OnDiskKeeps DEF Persist, RecordsInv
<1>5. TypeOK'
  BY <1>3, <1>4 DEF TypeOK, RecordsInv, Lives
<1>6. SameHistory(m, Stamped(m)) /\ EntryFit(Stamped(m).entry) /\ Stamped(m).entry.status = m.entry.status
  BY <1>1, StampedFine DEF Fine
<1>7. /\ EntryFit(mem'.entry) /\ Whole(mem'.hist, mem'.msgs)
      /\ up' => mem'.entry.status = m.entry.status /\ mem'.hist = m.hist /\ mem'.msgs = m.msgs
  BY <1>1, <1>4, <1>6, ForgottenIs DEF Fine, SameHistory
<1>8. MemOk'
  <2>1. Shaped(mem'.hist, mem'.msgs) /\ HistoryTaken(mem'.hist, mem'.msgs)
    BY <1>7 DEF Whole
  <2>2. EntryOk(mem.entry)'
    BY <1>7 DEF EntryFit, EntryOk
  <2>3. Shaped(mem.hist, mem.msgs)' /\ HistoryTaken(mem.hist, mem.msgs)'
    BY <2>1 DEF Shaped, HistoryTaken
  <2> QED
    BY <2>2, <2>3 DEF MemOk
<1>9. RunOk'
  BY <1>7 DEF RunOk, RunsAs
<1>10. FinalStep
  BY <1>1, <1>7 DEF FinalStep, Fine, Final
<1> QED
  BY <1>3, <1>4, <1>5, <1>8, <1>9, <1>10 DEF RecordsInv, StoresTakeAll

\* A step that leaves the session's memory, its disk and what was refused.
LEMMA StillKeeps ==
  ASSUME RecordsInv, UNCHANGED <<mem, disk, refused, durable, up, gone, spoiled>>,
         store' \in [at : Nat, reads : BOOLEAN], live' \in Lives, active' \in {None} \cup Execs,
         writing' \in BOOLEAN, late' \subseteq Execs, harms' \in 0..MaxHarms,
         up /\ ~gone => /\ ~spoiled => /\ active' # None => live' = "up" /\ mem.hist[active'].status = "running"
                                       /\ live' = "up" => mem.entry.status \in {"live_idle", "live_busy"}
                                       /\ live' = "killed" => mem.entry.status = "recovering"
                        /\ writing' => active' # None
                        /\ \A e \in late' : mem.hist[e].status # "none"
  PROVE  RecordsInv' /\ FinalStep
<1>1. TypeOK'
  BY DEF TypeOK, RecordsInv, Lives
<1>2. MemOk'
  BY DEF MemOk, RecordsInv, EntryOk, Shaped, HistoryTaken
<1>3. DiskOk'
  BY DEF DiskOk, RecordsInv, EntryFit, EntryOk, Whole, Shaped, HistoryTaken
<1>4. RunOk' /\ StoresTakeAll'
  BY DEF RunOk, RecordsInv, StoresTakeAll
<1>5. FinalStep
  <2>1. \A e \in Execs : mem.msgs[e] \in Messages
    BY MemoryIs DEF RecordsInv, TypeOK
  <2> QED
    BY <2>1, PrefixSame DEF FinalStep
<1> QED
  BY <1>1, <1>2, <1>3, <1>4, <1>5 DEF RecordsInv

\* What a session that is served and open is, by the invariant.
LEMMA OpenIs ==
  ASSUME RecordsInv, Open
  PROVE  /\ up /\ ~gone /\ ~spoiled /\ mem \in Memories /\ Goes(mem, mem)
         /\ EntryFit(mem.entry) /\ EntryOk(mem.entry) /\ mem.entry.status \in Statuses
         /\ mem.entry.reason \in BOOLEAN
         /\ \A e \in Execs : Rising(mem.msgs[e])
         /\ \A e \in Execs : mem.hist[e].status # "none" => ExecTaken(mem.hist[e], mem.msgs[e])
         /\ Whole(mem.hist, mem.msgs)
         /\ RunsAs(mem, live, active, writing, late)
         /\ live = "up" => mem.entry.status # "quarantined" /\ ~mem.entry.reason
         /\ active # None => active \in Execs /\ mem.hist[active].status = "running" /\ live = "up"
<1>1. up /\ ~gone /\ ~spoiled /\ mem.entry.status # "closed"
  BY DEF Open, Serving
<1>2. mem \in Memories /\ mem.entry \in Entries
  BY MemoryIs DEF RecordsInv, TypeOK
<1>3. EntryOk(mem.entry) /\ EntryFit(mem.entry)
  BY <1>1 DEF RecordsInv, MemOk, EntryOk, EntryFit
<1>4. Whole(mem.hist, mem.msgs)
  BY <1>1 DEF RecordsInv, MemOk, Whole
<1>5. /\ \A e \in Execs : Rising(mem.msgs[e])
      /\ \A e \in Execs : mem.hist[e].status # "none" => ExecTaken(mem.hist[e], mem.msgs[e])
  BY <1>4 DEF Whole, Shaped, HistoryTaken
<1>6. RunsAs(mem, live, active, writing, late) /\ active \in {None} \cup Execs
  BY <1>1 DEF RecordsInv, RunOk, RunsAs, TypeOK
<1>7. live = "up" => mem.entry.status # "quarantined" /\ ~mem.entry.reason
  BY <1>3, <1>6 DEF RunsAs, EntryFit
<1>8. Goes(mem, mem)
  BY <1>2, FollowsSame, MemoryIs DEF Goes
<1> QED
  BY <1>1, <1>2, <1>3, <1>4, <1>5, <1>6, <1>7, <1>8 DEF RunsAs, Entries

\* The runtime goes, or its exec ended before.
LEMMA LeavesAs ==
  ASSUME RecordsInv, Open, NEW to \in Lives, Leaves(to) \/ Idle(to), NEW m, Final(mem, m),
         to = "up" => m.entry.status \in {"live_idle", "live_busy"},
         to = "killed" => m.entry.status = "recovering"
  PROVE  /\ live' \in Lives /\ active' \in {None} \cup Execs
         /\ writing' \in BOOLEAN /\ late' \subseteq Execs
         /\ RunsAs(m, live', active', writing', late')
<1>1. late \subseteq Execs /\ \A e \in late : mem.hist[e].status # "none"
  BY OpenIs DEF RecordsInv, TypeOK, RunsAs
<1>2. \A e \in Execs : e = active => mem.hist[e].status # "none"
  BY OpenIs DEF None, Execs
<1>3. \A e \in late' : e \in Execs /\ mem.hist[e].status # "none"
  BY <1>1, <1>2 DEF Leaves, Idle
<1>4. \A e \in late' : m.hist[e].status # "none"
  BY <1>3 DEF Final
<1> QED
  BY <1>3, <1>4 DEF Leaves, Idle, RunsAs

-----------------------------------------------------------------------------
(* What the parts of a turn make of the memory.                            *)

Good(n) == n \in Memories /\ Goes(mem, n) /\ EntryFit(n.entry)

LEMMA GoodFine ==
  ASSUME RecordsInv, ~spoiled, NEW n, Good(n)
  PROVE  Fine(n)
BY FineFrom DEF Good

LEMMA GoodMarks ==
  ASSUME mem \in Memories, NEW k, Good(k), NEW n, NEW status \in Statuses, NEW reason \in BOOLEAN,
         Marks(k, n, status, reason), reason <=> status = "quarantined"
  PROVE  Good(n) /\ n.hist = k.hist /\ n.msgs = k.msgs /\ n.entry.status = status
<1>1. k \in Memories /\ Goes(mem, k) /\ EntryOk(k.entry)
  BY DEF Good, EntryFit
<1>2. n \in Memories /\ n.hist = k.hist /\ n.msgs = k.msgs /\ n.entry.status = status
  BY DEF Marks, SameHistory
<1>3. EntryFit(n.entry)
  BY <1>1, MarksFit
<1>4. Goes(mem, n)
  BY <1>1, <1>2, GoesSame, GoesTrans DEF SameHistory
<1> QED
  BY <1>2, <1>3, <1>4 DEF Good

\* What is fit is quarantined as it has a reason.
LEMMA GoodIs ==
  ASSUME NEW n, Good(n)
  PROVE  /\ n \in Memories /\ n.entry.status \in Statuses /\ n.entry.reason \in BOOLEAN
         /\ n.entry.reason <=> n.entry.status = "quarantined"
BY MemoryIs DEF Good, EntryFit, EntryOk, Entries

LEMMA GoodTouched ==
  ASSUME mem \in Memories, NEW k, Good(k), NEW u \in Nat
  PROVE  LET n == Touched(k, u) IN
         Good(n) /\ n.hist = k.hist /\ n.msgs = k.msgs /\ n.entry.status = k.entry.status
<1>1. Marks(k, Touched(k, u), k.entry.status, k.entry.reason)
  BY GoodIs, TouchedIs
<1> QED
  BY <1>1, GoodIs, GoodMarks, ZenonT(40)

LEMMA GoodQuarantined ==
  ASSUME mem \in Memories, NEW k, Good(k), NEW u \in Nat
  PROVE  LET n == Quarantined(k, u) IN
         Good(n) /\ n.hist = k.hist /\ n.msgs = k.msgs /\ n.entry.status = "quarantined"
<1>1. Marks(k, Quarantined(k, u), "quarantined", TRUE)
  BY GoodIs, QuarantinedIs
<1> QED
  BY <1>1, GoodMarks DEF Statuses

LEMMA GoodStatus ==
  ASSUME mem \in Memories, NEW k, Good(k), NEW status \in Statuses \ {"quarantined"},
         k.entry.status # "quarantined"
  PROVE  LET n == Status(k, status) IN
         Good(n) /\ n.hist = k.hist /\ n.msgs = k.msgs /\ n.entry.status = status
<1>1. Marks(k, Status(k, status), status, k.entry.reason)
  BY GoodIs, StatusIs
<1> QED
  BY <1>1, GoodIs, GoodMarks

LEMMA GoodLiveIdle ==
  ASSUME mem \in Memories, NEW k, Good(k)
  PROVE  LET n == LiveIdle(k) IN
         Good(n) /\ n.hist = k.hist /\ n.msgs = k.msgs /\ n.entry.status = "live_idle"
<1>1. Marks(k, LiveIdle(k), "live_idle", FALSE)
  BY GoodIs, LiveIdleIs
<1> QED
  BY <1>1, GoodMarks DEF Statuses

LEMMA GoodGoes ==
  ASSUME mem \in Memories, NEW k, Good(k), NEW n \in Memories, Goes(k, n), n.entry = k.entry
  PROVE  Good(n)
<1>1. Goes(mem, n)
  BY GoesTrans DEF Good
<1> QED
  BY <1>1 DEF Good

LEMMA GoodReconciled ==
  ASSUME mem \in Memories, NEW k, Good(k), NEW kept, NEW t \in Clock
  PROVE  Good(Reconciled(k, kept, t)) /\ Reconciled(k, kept, t).entry = k.entry
BY GoodIs, ReconciledGoes, GoodGoes

LEMMA GoodTerminalized ==
  ASSUME mem \in Memories, NEW k, Good(k), NEW kept, NEW t \in Clock
  PROVE  LET n == Terminalized(k, kept, t) IN Good(n) /\ n.entry.status = k.entry.status
<1> DEFINE r == Reconciled(k, kept, t)
           n == Terminalized(k, kept, t)
<1>1. Good(r) /\ r.entry = k.entry
  BY GoodReconciled
<1>2. Marks(r, n, k.entry.status, k.entry.reason)
  BY GoodIs, TerminalizedIs
<1> HIDE DEF r, n
<1>3. /\ k.entry.status \in Statuses /\ k.entry.reason \in BOOLEAN
      /\ k.entry.reason <=> k.entry.status = "quarantined"
  BY GoodIs
<1>4. Good(n) /\ n.entry.status = k.entry.status
  BY <1>1, <1>2, <1>3, GoodMarks
<1> QED
  BY <1>4 DEF n

LEMMA GoodEnded ==
  ASSUME mem \in Memories, NEW k, Good(k), NEW e \in Execs, NEW end \in Ends, NEW t \in Clock,
         k.hist[e].status = "running"
  PROVE  LET n == EndedAs(k, e, end, t) IN
         Good(n) /\ n.entry = k.entry /\ n.msgs = k.msgs
<1>1. k \in Memories
  BY GoodIs
<1> DEFINE n == EndedAs(k, e, end, t)
<1>2. n \in Memories /\ n.entry = k.entry /\ n.msgs = k.msgs /\ Goes(k, n)
  BY <1>1, EndedAsGoes
<1> HIDE DEF n
<1>3. Good(n)
  BY <1>2, GoodGoes
<1> QED
  BY <1>2, <1>3 DEF n

LEMMA GoodFailed ==
  ASSUME mem \in Memories, NEW k, Good(k), NEW e \in Execs, NEW t \in Clock, NEW v \in Clock,
         k.hist[e].status = "running", Rising(k.msgs[e])
  PROVE  LET n == Failed(k, e, t, v) IN Good(n) /\ n.entry = k.entry
<1>1. k \in Memories
  BY GoodIs
<1> QED
  BY <1>1, FailedGoes, GoodGoes

\* Its process snapshot is spent.
LEMMA GoodSpent ==
  ASSUME mem \in Memories, NEW k, Good(k), NEW n, n = [k EXCEPT !.entry.snap = FALSE]
  PROVE  Good(n) /\ n.hist = k.hist /\ n.msgs = k.msgs /\ n.entry.status = k.entry.status
<1> DEFINE s == [k.entry EXCEPT !.snap = FALSE]
<1>1. k \in Memories /\ Goes(mem, k) /\ EntryFit(k.entry)
  BY DEF Good
<1>2. /\ s \in Entries /\ s.rev = k.entry.rev /\ s.ckAt = k.entry.ckAt /\ s.snap = FALSE
      /\ s.status = k.entry.status /\ s.reason = k.entry.reason
  BY <1>1, MemoryIs DEF Entries
<1>3. n = [k EXCEPT !.entry = s]
  BY <1>1, MemoryIs
<1> HIDE DEF s
<1>4. SameHistory(k, n) /\ n.entry = s
  <2>1. k \in Memories /\ s \in Entries
    BY <1>1, <1>2
  <2> QED
    BY <2>1, <1>3, EntryIs
<1>5. EntryFit(n.entry)
  BY <1>1, <1>2, <1>4 DEF EntryFit, EntryOk
<1>6. Goes(mem, n)
  BY <1>1, <1>4, GoesSame, GoesTrans DEF SameHistory
<1> QED
  BY <1>2, <1>4, <1>5, <1>6 DEF Good, SameHistory

\* What a turn begins with.
LEMMA GoodOpen ==
  ASSUME RecordsInv, Open
  PROVE  /\ Good(mem) /\ mem \in Memories
         /\ \A t \in Clock : t \in Nat
         /\ \A e \in Execs, t \in Clock : EndOf(mem.hist[e], mem.msgs[e], t) \in Nat
<1>1. Good(mem) /\ mem \in Memories
  BY OpenIs DEF Good
<1> QED
  BY <1>1, ClockIs, EndIs, MemoryIs

\* A turn that ends with the runtime's leaving, or its exec's end.
LEMMA TurnKeeps ==
  ASSUME RecordsInv, Open, NEW what, NEW before, NEW m,
         \A n \in before : Good(n), Good(m), Persist(what, before, m),
         UNCHANGED <<durable, gone, spoiled, harms>>, store' \in [at : Nat, reads : BOOLEAN],
         NEW to \in Lives, Leaves(to) \/ Idle(to),
         to = "up" => m.entry.status \in {"live_idle", "live_busy"},
         to = "killed" => m.entry.status = "recovering"
  PROVE  RecordsInv' /\ FinalStep
<1>1. up /\ ~spoiled
  BY OpenIs
<1>2. \A n \in before \cup {m} : Fine(n)
  BY <1>1, GoodFine
<1>3. Final(mem, m)
  BY <1>2 DEF Fine
<1>4. /\ live' \in Lives /\ active' \in {None} \cup Execs
      /\ writing' \in BOOLEAN /\ late' \subseteq Execs
      /\ RunsAs(m, live', active', writing', late')
  BY <1>3, LeavesAs
<1> QED
  BY <1>1, <1>2, <1>4, PersistKeeps

-----------------------------------------------------------------------------
(* The steps: the runtime starts, and its session comes back.              *)

LEMMA SameStore ==
  ASSUME RecordsInv, SameRest
  PROVE  UNCHANGED <<durable, gone, spoiled, harms>> /\ store' \in [at : Nat, reads : BOOLEAN]
BY DEF RecordsInv, TypeOK, SameRest

LEMMA RecoverKeeps ==
  ASSUME RecordsInv, Recover  PROVE  RecordsInv' /\ FinalStep
<1>1. Open /\ mem.entry.status = "suspended" /\ Leaves("starting") /\ SameRest
  BY DEF Recover
<1>2. PICK u \in Clock : Persist("recover", {}, Touched(Status(mem, "recovering"), u))
  BY DEF Recover
<1>3. Good(mem) /\ mem \in Memories /\ u \in Nat
  BY <1>1, GoodOpen
<1>4. Good(Status(mem, "recovering"))
  BY <1>1, <1>3, GoodStatus DEF Statuses
<1>5. Good(Touched(Status(mem, "recovering"), u))
  BY <1>3, <1>4, GoodTouched
<1> QED
  BY <1>1, <1>2, <1>5, SameStore, TurnKeeps DEF Lives

LEMMA BackKeeps ==
  ASSUME RecordsInv, Back  PROVE  RecordsInv' /\ FinalStep
<1>1. Open /\ Leaves("up") /\ SameRest
  BY DEF Back
<1> DEFINE k == LiveIdle(mem)
           n == [LiveIdle(mem) EXCEPT !.entry.snap = FALSE]
<1>2. PICK u \in Clock : Persist("back", {}, Touched(n, u))
  BY DEF Back
<1>3. Good(mem) /\ mem \in Memories /\ u \in Nat
  BY <1>1, GoodOpen
<1>4. Good(k) /\ k.entry.status = "live_idle"
  BY <1>3, GoodLiveIdle
<1>5. n = [k EXCEPT !.entry.snap = FALSE]
  OBVIOUS
<1> HIDE DEF k, n
<1>6. Good(n) /\ n.entry.status = "live_idle"
  BY <1>3, <1>4, <1>5, GoodSpent
<1>7. Good(Touched(n, u)) /\ Touched(n, u).entry.status = "live_idle"
  BY <1>3, <1>6, GoodTouched
<1> QED
  BY <1>1, <1>2, <1>7, SameStore, TurnKeeps DEF Lives

LEMMA BackFailsKeeps ==
  ASSUME RecordsInv, BackFails  PROVE  RecordsInv' /\ FinalStep
<1>1. Open /\ Leaves("none") /\ SameRest
  BY DEF BackFails
<1> DEFINE k == [mem EXCEPT !.entry.snap = FALSE]
<1>2. PICK t \in Clock, u \in Clock :
        Persist("back fails", {Quarantined(k, u), Quarantined(Reconciled(k, {}, t), u)},
                Terminalized(Quarantined(k, u), {}, t))
  BY DEF BackFails
<1>3. Good(mem) /\ mem \in Memories /\ u \in Nat
  BY <1>1, GoodOpen
<1>4. Good(k)
  BY <1>3, GoodSpent
<1> HIDE DEF k
<1>5. Good(Quarantined(k, u))
  BY <1>3, <1>4, GoodQuarantined
<1>6. Good(Reconciled(k, {}, t))
  BY <1>3, <1>4, GoodReconciled
<1>7. Good(Quarantined(Reconciled(k, {}, t), u))
  BY <1>3, <1>6, GoodQuarantined
<1>8. Good(Terminalized(Quarantined(k, u), {}, t))
  BY <1>3, <1>5, GoodTerminalized
<1> DEFINE before == {Quarantined(k, u), Quarantined(Reconciled(k, {}, t), u)}
<1>9. \A n \in before : Good(n)
  BY <1>5, <1>7
<1> HIDE DEF before
<1>10. Persist("back fails", before, Terminalized(Quarantined(k, u), {}, t))
  BY <1>2 DEF before
<1> QED
  BY <1>1, <1>8, <1>9, <1>10, SameStore, TurnKeeps DEF Lives

\* A session that is gone has nothing in memory nor on disk.
LEMMA RemovedKeeps ==
  ASSUME RecordsInv, Removed, up' \in BOOLEAN, refused' \subseteq {"tombstone", "late"},
         durable' = durable, spoiled' \in BOOLEAN, harms' = harms,
         store' = store, live' = "none", active' = None, writing' = FALSE, late' \subseteq Execs
  PROVE  RecordsInv' /\ FinalStep
<1>1. gone' = TRUE /\ mem' = Forgotten /\ disk' = NoFiles
  BY DEF Removed
<1>2. TypeOK'
  BY <1>1, ForgottenIs DEF TypeOK, RecordsInv, Turns
<1>3. MemOk'
  <2>1. EntryOk(mem.entry)'
    BY <1>1, ForgottenIs DEF EntryFit, EntryOk
  <2>2. Shaped(mem.hist, mem.msgs)' /\ HistoryTaken(mem.hist, mem.msgs)'
    BY <1>1, ForgottenIs DEF Whole, Shaped, HistoryTaken
  <2> QED
    BY <2>1, <2>2 DEF MemOk
<1>4. DiskOk'
  <2>1. EntryFit(disk.entry)'
    BY <1>1, ForgottenIs DEF EntryFit, EntryOk
  <2>2. Whole(disk.hist, disk.msgs)'
    BY <1>1, ForgottenIs DEF Whole, Shaped, HistoryTaken
  <2> QED
    BY <2>1, <2>2 DEF DiskOk
<1>5. RunOk' /\ FinalStep
  BY <1>1 DEF RunOk, FinalStep
<1>6. StoresTakeAll'
  BY DEF RecordsInv, StoresTakeAll
<1> QED
  BY <1>2, <1>3, <1>4, <1>5, <1>6 DEF RecordsInv

LEMMA CreateFailsKeeps ==
  ASSUME RecordsInv, CreateFails  PROVE  RecordsInv' /\ FinalStep
<1>1. Open /\ Leaves("none") /\ Removed /\ UNCHANGED <<up, refused, durable, store, spoiled, harms>>
  BY DEF CreateFails
<1>2. /\ late' \subseteq Execs /\ up' \in BOOLEAN /\ spoiled' \in BOOLEAN
      /\ refused' \subseteq {"tombstone", "late"}
  BY <1>1 DEF Leaves, RecordsInv, TypeOK, StoresTakeAll
<1> QED
  BY <1>1, <1>2, RemovedKeeps DEF Leaves

LEMMA RecycleKeeps ==
  ASSUME RecordsInv, Recycle  PROVE  RecordsInv' /\ FinalStep
<1>1. Open /\ SameRest
  BY DEF Recycle, Unlocked
<1>2. PICK t \in Clock :
         \/ /\ Persist("recycle", {}, Terminalized(mem, {"queued"}, t))
            /\ Leaves("starting")
         \/ /\ active # None
            /\ LET ended == Touched(EndedAs(mem, active, "interrupted", t),
                                   EndOf(mem.hist[active], mem.msgs[active], t)) IN
               Persist("recycle", {ended}, Terminalized(ended, {"queued"}, t))
            /\ Idle("starting")
  BY DEF Recycle
<1>3. Good(mem) /\ mem \in Memories
  BY <1>1, GoodOpen
<1>4. CASE Persist("recycle", {}, Terminalized(mem, {"queued"}, t)) /\ Leaves("starting")
  <2>1. Good(Terminalized(mem, {"queued"}, t))
    BY <1>3, GoodTerminalized
  <2> QED
    BY <1>1, <1>4, <2>1, SameStore, TurnKeeps DEF Lives
<1>5. CASE /\ active # None
           /\ LET ended == Touched(EndedAs(mem, active, "interrupted", t),
                                  EndOf(mem.hist[active], mem.msgs[active], t)) IN
              Persist("recycle", {ended}, Terminalized(ended, {"queued"}, t))
           /\ Idle("starting")
  <2> DEFINE x == EndOf(mem.hist[active], mem.msgs[active], t)
             ended == Touched(EndedAs(mem, active, "interrupted", t), x)
  <2>1. active \in Execs /\ mem.hist[active].status = "running"
    BY <1>1, <1>5, OpenIs
  <2>2. x \in Nat
    BY <1>1, <2>1, GoodOpen
  <2>3. Good(EndedAs(mem, active, "interrupted", t))
    BY <1>3, <2>1, GoodEnded DEF Ends
  <2>4. Persist("recycle", {ended}, Terminalized(ended, {"queued"}, t)) /\ Idle("starting")
    BY <1>5
  <2> HIDE DEF x
  <2>5. Good(ended)
    BY <1>3, <2>2, <2>3, GoodTouched
  <2> HIDE DEF ended
  <2>6. Good(Terminalized(ended, {"queued"}, t))
    BY <1>3, <2>5, GoodTerminalized
  <2> QED
    BY <1>1, <2>4, <2>5, <2>6, SameStore, TurnKeeps DEF Lives
<1> QED
  BY <1>2, <1>4, <1>5

LEMMA ResetKeeps ==
  ASSUME RecordsInv, Reset  PROVE  RecordsInv' /\ FinalStep
<1>1. /\ Open /\ live = "none" /\ live' = "starting"
      /\ UNCHANGED <<mem, disk, up, refused, active, writing, late, durable, store, gone, spoiled, harms>>
  BY DEF Reset, SameRest
<1>2. RunsAs(mem, live, active, writing, late)
  BY <1>1, OpenIs
<1>3. RunsAs(mem, live', active', writing', late')
  BY <1>1, <1>2 DEF RunsAs
<1> QED
  BY <1>1, <1>3, StillKeeps DEF RecordsInv, TypeOK, Lives, RunsAs

LEMMA QuarantineKeeps ==
  ASSUME RecordsInv, Quarantine  PROVE  RecordsInv' /\ FinalStep
<1>1. Open /\ Leaves("none") /\ SameRest
  BY DEF Quarantine, Unlocked
<1>2. PICK t \in Clock, u \in Clock :
        Persist("quarantine", {Quarantined(mem, u)},
                IF Ran THEN Terminalized(Quarantined(mem, u), {}, t) ELSE Quarantined(mem, u))
  BY DEF Quarantine
<1>3. Good(mem) /\ mem \in Memories /\ u \in Nat
  BY <1>1, GoodOpen
<1>4. Good(Quarantined(mem, u))
  BY <1>3, GoodQuarantined
<1>5. Good(Terminalized(Quarantined(mem, u), {}, t))
  BY <1>3, <1>4, GoodTerminalized
<1>6. PICK m : /\ m = IF Ran THEN Terminalized(Quarantined(mem, u), {}, t) ELSE Quarantined(mem, u)
               /\ Good(m) /\ Persist("quarantine", {Quarantined(mem, u)}, m)
  BY <1>2, <1>4, <1>5
<1> QED
  BY <1>1, <1>4, <1>6, SameStore, TurnKeeps DEF Lives

\* A turn that leaves the runtime as it is.
LEMMA SameKeeps ==
  ASSUME RecordsInv, Open, NEW what, NEW m, Fine(m), Persist(what, {}, m),
         SameRest, SameRuntime, \A e \in Execs : mem.hist[e].status = "running" => m.hist[e].status = "running",
         m.entry.status = mem.entry.status
  PROVE  RecordsInv' /\ FinalStep
<1>1. up /\ ~spoiled /\ RunsAs(mem, live, active, writing, late) /\ (active # None => active \in Execs)
  BY OpenIs
<1>2. RunsAs(m, live', active', writing', late')
  <2>1. \A e \in late : m.hist[e].status # "none"
    BY <1>1 DEF RunsAs, Fine, Final, RecordsInv, TypeOK
  <2> QED
    BY <1>1, <2>1 DEF RunsAs, SameRuntime
<1>3. live' \in Lives /\ active' \in {None} \cup Execs /\ writing' \in BOOLEAN /\ late' \subseteq Execs
  BY DEF SameRuntime, RecordsInv, TypeOK, Lives
<1> QED
  BY <1>1, <1>2, <1>3, SameStore, PersistKeeps

LEMMA TouchKeeps ==
  ASSUME RecordsInv, Touch  PROVE  RecordsInv' /\ FinalStep
<1>1. Open /\ SameRuntime /\ SameRest
  BY DEF Touch, Unlocked
<1>2. PICK u \in Clock : Persist("touch", {}, Touched(mem, u))
  BY DEF Touch
<1>3. Good(mem) /\ mem \in Memories /\ u \in Nat
  BY <1>1, GoodOpen
<1>4. Good(Touched(mem, u)) /\ Touched(mem, u).hist = mem.hist /\ Touched(mem, u).entry.status = mem.entry.status
  BY <1>3, GoodTouched
<1>5. Fine(Touched(mem, u))
  BY <1>1, <1>4, GoodFine, OpenIs
<1> QED
  BY <1>1, <1>2, <1>4, <1>5, SameKeeps

-----------------------------------------------------------------------------
(* The steps of execs.                                                     *)

\* An exec that is submitted is behind all others.
LEMMA SubmittedWhole ==
  ASSUME NEW h \in [Execs -> Records], NEW ms \in [Execs -> Messages], Whole(h, ms),
         NEW e \in Execs, h[e].status = "none",
         \A d \in Execs : d < e => h[d].status # "none",
         NEW k \in [Execs -> Records], \A d \in Execs : d # e => k[d] = h[d],
         k[e].status = "queued", k[e].started = 0, k[e].finished = 0, ~k[e].why,
         e # 1 => h[e - 1].submitted <= k[e].submitted
  PROVE  Whole(k, ms)
<1>1. ms[e] = <<>> /\ Len(ms[e]) = 0
  BY DEF Whole, Shaped
<1>2. ExecTaken(k[e], ms[e])
  BY <1>1 DEF ExecTaken, Ends
<1>3. \A d \in Execs : e < d => h[d].status = "none"
  BY DEF Whole, Shaped
<1>4. Shaped(k, ms)
  <2>1. ASSUME NEW c \in Execs, NEW d \in Execs, c < d, k[d].status # "none"
        PROVE  k[c].status # "none"
    BY <2>1 DEF Whole, Shaped
  <2>2. \A d \in Execs : Rising(ms[d]) /\ (k[d].status = "none" => ms[d] = <<>>)
    BY DEF Whole, Shaped
  <2> QED
    BY <2>1, <2>2 DEF Shaped
<1>5. \A d \in Execs : d < e => h[d].submitted <= k[e].submitted
  <2> SUFFICES ASSUME NEW d \in Execs, d < e  PROVE  h[d].submitted <= k[e].submitted
    OBVIOUS
  <2>1. e - 1 \in Execs /\ e - 1 < e /\ e # 1 /\ d \in Nat /\ e \in Nat
    BY BoundAssumption DEF Execs
  <2>2. h[e - 1].status # "none" /\ h[e - 1].submitted <= k[e].submitted
    BY <2>1
  <2>3. h[d].submitted <= h[e - 1].submitted
    <3>1. CASE d = e - 1
      BY <2>1, <3>1 DEF Records
    <3>2. CASE d # e - 1
      BY <2>1, <2>2, <3>2 DEF Whole, HistoryTaken
    <3> QED
      BY <3>1, <3>2
  <2> QED
    BY <2>1, <2>2, <2>3 DEF Records
<1>6. HistoryTaken(k, ms)
  <2> SUFFICES ASSUME NEW d \in Execs, k[d].status # "none"
               PROVE  /\ ExecTaken(k[d], ms[d])
                      /\ \A c \in Execs : c < d => k[c].submitted <= k[d].submitted
    BY DEF HistoryTaken
  <2>1. CASE d = e
    BY <1>2, <1>5, <2>1 DEF Execs
  <2>2. CASE d # e
    <3>1. k[d] = h[d] /\ h[d].status # "none" /\ ~(e < d)
      BY <1>3, <2>2
    <3>2. d < e
      BY <2>2, <3>1 DEF Execs
    <3>3. \A c \in Execs : c < d => c # e
      BY <3>2 DEF Execs
    <3> QED
      BY <3>1, <3>3 DEF Whole, HistoryTaken
  <2> QED
    BY <2>1, <2>2
<1> QED
  BY <1>4, <1>6 DEF Whole

LEMMA HistoryIs ==
  ASSUME NEW m \in Memories, NEW h \in [Execs -> Records], NEW n, n = [m EXCEPT !.hist = h]
  PROVE  n \in Memories /\ n.entry = m.entry /\ n.hist = h /\ n.msgs = m.msgs
<1>1. n = [entry |-> m.entry, hist |-> h, msgs |-> m.msgs]
  BY MemoryIs
<1> QED
  BY <1>1, MemoryIs DEF Memories

LEMMA SubmitKeeps ==
  ASSUME RecordsInv, Submit  PROVE  RecordsInv' /\ FinalStep
<1>1. Open /\ SameRuntime /\ SameRest
  BY DEF Submit, Unlocked
<1>2. PICK e \in Execs, t \in Clock, u \in Clock :
         /\ mem.hist[e].status = "none"
         /\ \A d \in Execs : d < e => mem.hist[d].status # "none"
         /\ LET before == IF e = 1 THEN 0 ELSE mem.hist[e - 1].submitted
                m == Touched([mem EXCEPT !.hist[e] = [NoRecord EXCEPT
                                 !.status = "queued", !.submitted = Later(t, before)]], u) IN
            Persist("submit", {}, m)
  BY DEF Submit
<1> DEFINE before == IF e = 1 THEN 0 ELSE mem.hist[e - 1].submitted
           x == Later(t, before)
           r == [NoRecord EXCEPT !.status = "queued", !.submitted = x]
           h == [mem.hist EXCEPT ![e] = r]
           k == [mem EXCEPT !.hist[e] = r]
           n == Touched(k, u)
<1>3. /\ mem \in Memories /\ EntryOk(mem.entry) /\ Whole(mem.hist, mem.msgs)
      /\ u \in Nat /\ t \in Nat /\ mem.hist \in [Execs -> Records] /\ mem.msgs \in [Execs -> Messages]
  BY <1>1, OpenIs, ClockIs, MemoryIs
<1>4. before \in Nat /\ (e # 1 => before = mem.hist[e - 1].submitted)
  <2>1. e # 1 => e - 1 \in Execs
    BY BoundAssumption DEF Execs
  <2> QED
    BY <1>3, <2>1 DEF Records
<1> HIDE DEF before
<1>5. x \in Nat /\ x >= before
  BY <1>3, <1>4, LaterIs
<1>6. Persist("submit", {}, n)
  BY <1>2 DEF before
<1> HIDE DEF x
<1>7. k = [mem EXCEPT !.hist = h]
  BY <1>3, MemoryIs
<1>8. r = [NoRecord EXCEPT !.status = "queued", !.submitted = x] /\ h = [mem.hist EXCEPT ![e] = r]
  OBVIOUS
<1> HIDE DEF r, h, k
<1>9. /\ h \in [Execs -> Records] /\ Whole(h, mem.msgs)
      /\ h[e].status = "queued" /\ \A d \in Execs : d # e => h[d] = mem.hist[d]
  <2>1. e # 1 => mem.hist[e - 1].submitted <= x
    BY <1>4, <1>5
  <2>2. /\ r \in Records /\ r.status = "queued" /\ r.submitted = x
        /\ r.started = 0 /\ r.finished = 0 /\ r.why = FALSE
    BY <1>5, <1>8 DEF NoRecord, Records, Pending
  <2>3. h \in [Execs -> Records] /\ h[e] = r /\ \A d \in Execs : d # e => h[d] = mem.hist[d]
    BY <1>3, <1>8, <2>2
  <2>4. /\ h[e].status = "queued" /\ h[e].started = 0 /\ h[e].finished = 0 /\ ~h[e].why
        /\ e # 1 => mem.hist[e - 1].submitted <= h[e].submitted
    BY <2>1, <2>2, <2>3
  <2>5. Whole(h, mem.msgs)
    BY <1>2, <1>3, <2>3, <2>4, SubmittedWhole
  <2> QED
    BY <2>3, <2>4, <2>5
<1>10. k \in Memories /\ k.entry = mem.entry /\ k.hist = h /\ k.msgs = mem.msgs
  BY <1>3, <1>7, <1>9, HistoryIs
<1>11. Marks(k, n, k.entry.status, k.entry.reason)
  BY <1>3, <1>10, TouchedIs
<1> HIDE DEF n
<1>12. EntryFit(n.entry) /\ n.entry.status = mem.entry.status
  <2>1. EntryFit(k.entry) /\ EntryOk(k.entry) /\ k.entry.status \in Statuses /\ k.entry.reason \in BOOLEAN
    BY <1>1, <1>10, OpenIs
  <2>2. k.entry.reason <=> k.entry.status = "quarantined"
    BY <2>1 DEF EntryFit, EntryOk
  <2>3. EntryFit(n.entry)
    BY <1>10, <1>11, <2>1, <2>2, MarksFit
  <2> QED
    BY <1>10, <1>11, <2>3 DEF Marks
<1>13. n \in Memories /\ n.hist = h /\ n.msgs = mem.msgs
  BY <1>10, <1>11 DEF Marks, SameHistory
<1>14. Final(mem, n)
  <2> SUFFICES ASSUME NEW d \in Execs
               PROVE  /\ n.hist[d].status = "none" => mem.hist[d].status = "none"
                      /\ IsPrefix(mem.msgs[d], n.msgs[d])
                      /\ mem.hist[d].status \in Ends => n.hist[d] = mem.hist[d] /\ n.msgs[d] = mem.msgs[d]
    BY DEF Final
  <2>1. d = e => mem.hist[d].status \notin Ends
    BY <1>2 DEF Ends
  <2> QED
    BY <1>2, <1>3, <1>9, <1>13, <2>1, PrefixSame
<1>15. Fine(n)
  BY <1>9, <1>12, <1>13, <1>14 DEF Fine
<1>16. \A d \in Execs : mem.hist[d].status = "running" => n.hist[d].status = "running"
  BY <1>2, <1>9, <1>13
<1> QED
  BY <1>1, <1>6, <1>12, <1>15, <1>16, SameKeeps

LEMMA StartedIs ==
  ASSUME RecordsInv, Open, NEW e \in Execs, NEW t \in Clock, NEW u \in Clock, NextQueued(e)
  PROVE  LET n == Started(mem, e, t, u) IN
         /\ Good(n) /\ n.msgs = mem.msgs /\ n.hist[e].status = "running"
         /\ n.entry.status = "live_busy"
<1> DEFINE k == Status(mem, "live_busy")
           r == [mem.hist[e] EXCEPT !.status = "running", !.started = Later(t, mem.hist[e].submitted)]
           h == [mem.hist EXCEPT ![e] = r]
           j == [k EXCEPT !.hist[e].status = "running",
                          !.hist[e].started = Later(t, mem.hist[e].submitted)]
<1>1. Good(mem) /\ mem \in Memories /\ u \in Nat /\ live = "up" /\ mem.hist[e].status = "queued"
  BY GoodOpen DEF NextQueued
<1>2. mem.entry.status # "quarantined"
  BY <1>1, OpenIs
<1>3. Good(k) /\ k.hist = mem.hist /\ k.msgs = mem.msgs /\ k.entry.status = "live_busy"
  BY <1>1, <1>2, GoodStatus DEF Statuses
<1>4. k \in Memories /\ mem.hist \in [Execs -> Records] /\ mem.hist[e] \in Records /\ mem.msgs[e] \in Messages
  BY <1>1, <1>3, MemoryIs DEF Good
<1> HIDE DEF k
<1>5. r \in Records /\ r.status = "running"
  <2>1. Later(t, mem.hist[e].submitted) \in Nat
    BY <1>4, LaterIs, ClockIs DEF Records
  <2> QED
    BY <1>4, <2>1 DEF Records, Pending
<1>6. Follows(mem.hist[e], mem.msgs[e], r, mem.msgs[e])
  BY <1>1, <1>4, <1>5, StartedFollows
<1>7. h \in [Execs -> Records] /\ h[e] = r
  BY <1>4, <1>5
<1>8. j = [k EXCEPT !.hist = h]
  BY <1>3, <1>4, MemoryIs
<1>9. Started(mem, e, t, u) = Touched(j, u)
  BY DEF Started, k
<1>10. h = [mem.hist EXCEPT ![e] = r] /\ mem.msgs = [mem.msgs EXCEPT ![e] = mem.msgs[e]]
  BY <1>1, MemoryIs
<1> HIDE DEF r, h, j
<1>11. j \in Memories /\ j.entry = k.entry /\ j.hist = h /\ j.msgs = k.msgs
  BY <1>4, <1>7, <1>8, HistoryIs
<1>12. Goes(mem, j)
  BY <1>1, <1>3, <1>6, <1>10, <1>11, OneGoes
<1>13. Good(j)
  BY <1>3, <1>11, <1>12 DEF Good
<1>14. Good(Touched(j, u)) /\ Touched(j, u).hist = j.hist /\ Touched(j, u).msgs = j.msgs
       /\ Touched(j, u).entry.status = j.entry.status
  BY <1>1, <1>13, GoodTouched
<1> QED
  BY <1>3, <1>5, <1>7, <1>9, <1>11, <1>14

LEMMA StartKeeps ==
  ASSUME RecordsInv, Start  PROVE  RecordsInv' /\ FinalStep
<1>1. Open /\ writing' \in BOOLEAN /\ UNCHANGED <<live, late>> /\ SameRest
  BY DEF Start
<1>2. PICK e \in Execs, t \in Clock, u \in Clock :
         NextQueued(e) /\ active' = e /\ Persist("start", {}, Started(mem, e, t, u))
  BY DEF Start
<1> DEFINE n == Started(mem, e, t, u)
<1>3. Good(n) /\ n.hist[e].status = "running" /\ n.entry.status = "live_busy"
  BY <1>1, <1>2, StartedIs
<1> HIDE DEF n
<1>4. Fine(n) /\ Persist("start", {}, n) /\ up /\ ~spoiled /\ live = "up"
  BY <1>1, <1>2, <1>3, GoodFine, OpenIs DEF n, NextQueued
<1>5. \A d \in late : mem.hist[d].status # "none" /\ d \in Execs
  BY <1>1, OpenIs DEF RunsAs, RecordsInv, TypeOK
<1>6. RunsAs(n, live', active', writing', late')
  BY <1>1, <1>2, <1>3, <1>4, <1>5 DEF RunsAs, Fine, Final, None, Execs
<1>7. live' \in Lives /\ active' \in {None} \cup Execs /\ late' \subseteq Execs
  BY <1>1, <1>2, <1>4, <1>5 DEF Lives
<1> QED
  BY <1>1, <1>4, <1>6, <1>7, SameStore, PersistKeeps

LEMMA SubmittedKeeps ==
  ASSUME RecordsInv, Submitted  PROVE  RecordsInv' /\ FinalStep
<1>1. /\ writing' = FALSE
      /\ UNCHANGED <<mem, disk, up, refused, live, active, late, durable, store, gone, spoiled, harms>>
  BY DEF Submitted, SameRest
<1> QED
  BY <1>1, StillKeeps DEF RecordsInv, TypeOK, Lives, RunOk

LEMMA FailStartupKeeps ==
  ASSUME RecordsInv, Open, NEW m, Good(m), NEW e \in Execs, m.hist[e].status = "running",
         Rising(m.msgs[e]), FailStartup(m, e), Idle("none"), SameRest
  PROVE  RecordsInv' /\ FinalStep
<1> DEFINE x(t) == EndOf(m.hist[e], m.msgs[e], t)
           failed(t, v) == Touched(Failed(m, e, t, v), x(t))
           said(t, u, v) == Quarantined(failed(t, v), u)
<1>1. PICK t \in Clock, u \in Clock, v \in Clock :
        Persist("startup", {failed(t, v), said(t, u, v)}, Terminalized(said(t, u, v), {}, t))
  BY DEF FailStartup
<1>2. mem \in Memories /\ u \in Nat
  BY GoodOpen
<1>3. x(t) \in Nat
  BY EndIs, MemoryIs DEF Good
<1> HIDE DEF x
<1>4. Good(Failed(m, e, t, v))
  BY <1>2, GoodFailed
<1>5. Good(failed(t, v))
  BY <1>2, <1>3, <1>4, GoodTouched
<1> HIDE DEF failed
<1>6. Good(said(t, u, v))
  BY <1>2, <1>5, GoodQuarantined
<1> HIDE DEF said
<1>7. Good(Terminalized(said(t, u, v), {}, t))
  BY <1>2, <1>6, GoodTerminalized
<1>8. \A n \in {failed(t, v), said(t, u, v)} : Good(n)
  BY <1>5, <1>6
<1> QED
  BY <1>1, <1>7, <1>8, SameStore, TurnKeeps DEF Lives

LEMMA StartFailsKeeps ==
  ASSUME RecordsInv, StartFails  PROVE  RecordsInv' /\ FinalStep
<1>1. Open /\ Idle("none") /\ SameRest
  BY DEF StartFails
<1>2. \A e \in Execs : Rising(mem.msgs[e])
  BY <1>1, OpenIs
<1>3. ASSUME NEW e \in Execs, NEW t \in Clock, NEW u \in Clock, NextQueued(e),
             FailStartup(Started(mem, e, t, u), e)
      PROVE  RecordsInv' /\ FinalStep
  <2> DEFINE n == Started(mem, e, t, u)
  <2>1. Good(n) /\ n.msgs = mem.msgs /\ n.hist[e].status = "running" /\ FailStartup(n, e)
    BY <1>1, <1>3, StartedIs
  <2> HIDE DEF n
  <2>2. Rising(n.msgs[e])
    BY <1>2, <2>1
  <2> QED
    BY <1>1, <2>1, <2>2, FailStartupKeeps
<1>4. ASSUME live = "up", writing, FailStartup(mem, active)
      PROVE  RecordsInv' /\ FinalStep
  <2>1. active # None
    BY <1>1, <1>4, OpenIs DEF RunsAs
  <2>2. active \in Execs /\ mem.hist[active].status = "running"
    BY <1>1, <2>1, OpenIs
  <2>3. Good(mem)
    BY <1>1, GoodOpen
  <2> QED
    BY <1>1, <1>2, <1>4, <2>2, <2>3, FailStartupKeeps
<1> QED
  BY <1>3, <1>4 DEF StartFails

\* A turn that ends with no exec active, where it may be that a schema refuses a file.
LEMMA DiskKeeps ==
  ASSUME RecordsInv, NEW m \in Memories, Shaped(m.hist, m.msgs), EntryOk(m.entry), OnDisk(m),
         durable' = durable, gone' \in BOOLEAN, harms' = harms, store' = store,
         live' \in {"none", "starting", "closing"}, active' = None, writing' = FALSE,
         late' \subseteq Execs, \A e \in late' : m.hist[e].status # "none",
         refused' \subseteq {"tombstone", "late"}, spoiled' \in BOOLEAN,
         ~spoiled' => HistoryTaken(m.hist, m.msgs) /\ Final(mem, m)
  PROVE  RecordsInv' /\ FinalStep
<1>1. /\ disk' \in [listed : BOOLEAN, entry : Entries, hist : [Execs -> Records],
                    msgs : [Execs -> Messages]]
      /\ DiskOk' /\ up' \in BOOLEAN /\ mem' \in Memories
      /\ (up' /\ mem' = Stamped(m)) \/ (~up' /\ mem' = Forgotten)
  BY OnDiskKeeps DEF RecordsInv
<1>2. TypeOK'
  BY <1>1 DEF TypeOK, RecordsInv, Turns
<1>3. SameHistory(m, Stamped(m)) /\ EntryOk(Stamped(m).entry)
  BY StampedFine
<1>4. up' => mem'.hist = m.hist /\ mem'.msgs = m.msgs /\ EntryOk(mem'.entry)
  BY <1>1, <1>3 DEF SameHistory
<1>5. ~up' => EntryOk(mem'.entry) /\ Whole(mem'.hist, mem'.msgs)
  BY <1>1, ForgottenIs DEF EntryFit
<1>6. MemOk'
  <2>1. EntryOk(mem.entry)'
    BY <1>1, <1>4, <1>5 DEF EntryOk
  <2>2. Shaped(mem'.hist, mem'.msgs) /\ (~spoiled' => HistoryTaken(mem'.hist, mem'.msgs))
    BY <1>1, <1>4, <1>5 DEF Whole
  <2>3. Shaped(mem.hist, mem.msgs)' /\ (~spoiled => HistoryTaken(mem.hist, mem.msgs))'
    BY <2>2 DEF Shaped, HistoryTaken
  <2> QED
    BY <2>1, <2>3 DEF MemOk
<1>7. RunOk'
  BY <1>4 DEF RunOk
<1>8. FinalStep
  BY <1>4 DEF FinalStep, Final
<1> QED
  BY <1>1, <1>2, <1>6, <1>7, <1>8 DEF RecordsInv, StoresTakeAll

\* What an exec's failure adds to what it said.
LEMMA ErrorSays ==
  ASSUME NEW r \in Records, NEW ms \in Messages, Rising(ms), NEW t \in Clock, NEW v \in Clock,
         r.status = "running",
         NEW q, q = Finished(r, "error", EndOf(r, ms, t))
  PROVE  Said(q, ms, v) \in Messages /\ Rising(Said(q, ms, v)) /\ EndOf(r, ms, t) \in Nat
<1>1. Follows(r, ms, q, ms) /\ q.finished = EndOf(r, ms, t) /\ Origin(q) = Origin(r)
  BY FinishedFollows DEF Ends
<1>2. q \in Records
  BY <1>1 DEF Follows
<1>3. EndOf(r, ms, t) \in Nat /\ q.finished >= LastOf(ms) /\ q.finished >= Origin(q)
  BY <1>1, EndIs
<1>4. PICK y \in Nat : Said(q, ms, v) = Append(ms, y) /\ y >= LastOf(ms)
  BY <1>2, <1>3, SaidIs
<1> QED
  BY <1>3, <1>4, RisesOn, PrefixAppend

\* What a loop that fails late adds to what its exec said.
LEMMA LateSays ==
  ASSUME NEW r \in Records, NEW ms \in Messages, Rising(ms), NEW t \in Clock, NEW v \in Clock,
         NEW old, old = [r EXCEPT !.status = "running", !.finished = 0],
         NEW s, s = Said(Finished(old, "error", EndOf(old, ms, t)), ms, v)
  PROVE  s \in Messages /\ Rising(s) /\ EndOf(old, ms, t) \in Nat
<1>1. old \in Records /\ old.status = "running"
  BY DEF Records, Pending
<1>2. PICK q : q = Finished(old, "error", EndOf(old, ms, t))
  OBVIOUS
<1>3. Said(q, ms, v) \in Messages /\ Rising(Said(q, ms, v)) /\ EndOf(old, ms, t) \in Nat
  BY <1>1, <1>2, ErrorSays
<1> QED
  BY <1>2, <1>3

\* An entry that is in use, by its marks.
LEMMA MarksOk ==
  ASSUME NEW m \in Memories, NEW n, NEW status, NEW reason, EntryOk(m.entry),
         Marks(m, n, status, reason),
         status = "quarantined" => reason, reason => status \in {"quarantined", "closed"}
  PROVE  /\ EntryOk(n.entry) /\ n \in Memories /\ n.hist = m.hist /\ n.msgs = m.msgs
         /\ n.entry.status = status
BY DEF Marks, EntryOk, SameHistory

LEMMA LateFailsKeeps ==
  ASSUME RecordsInv, LateFails  PROVE  RecordsInv' /\ FinalStep
<1>1. /\ Serving /\ live' = (IF Ran THEN "none" ELSE live) /\ active' = None /\ writing' = FALSE
      /\ spoiled' = TRUE /\ UNCHANGED <<durable, store, gone, harms>>
  BY DEF LateFails
<1> DEFINE old(e) == [mem.hist[e] EXCEPT !.status = "running", !.finished = 0]
           x(e, t) == EndOf(old(e), mem.msgs[e], t)
           s(e, t, v) == Said(Finished(old(e), "error", x(e, t)), mem.msgs[e], v)
           k(e, t, v) == [mem EXCEPT !.msgs[e] = s(e, t, v)]
           failed(e, t, v) == Touched(k(e, t, v), x(e, t))
           said(e, t, u, v) == Quarantined(failed(e, t, v), u)
           last(e, t, u, v) == IF Ran THEN Terminalized(said(e, t, u, v), {}, t)
                               ELSE said(e, t, u, v)
<1>2. PICK e \in late, t \in Clock, u \in Clock, v \in Clock :
        /\ Persist("late", {failed(e, t, v), said(e, t, u, v)}, last(e, t, u, v))
        /\ late' = (late \ {e}) \cup {d \in Execs : d = active /\ writing}
  BY MemoryIs DEF LateFails, RecordsInv, TypeOK
<1>3. /\ mem \in Memories /\ EntryOk(mem.entry) /\ Shaped(mem.hist, mem.msgs)
      /\ late \subseteq Execs /\ e \in Execs /\ u \in Nat
      /\ \A d \in late : mem.hist[d].status # "none"
      /\ \A d \in Execs : d = active /\ writing => mem.hist[d].status # "none"
  BY <1>1, <1>2, ClockIs DEF RecordsInv, TypeOK, MemOk, RunOk, Serving, Execs, None
<1>4. /\ s(e, t, v) \in Messages /\ Rising(s(e, t, v)) /\ x(e, t) \in Nat
  <2>1. mem.hist[e] \in Records /\ mem.msgs[e] \in Messages /\ Rising(mem.msgs[e])
    BY <1>3, MemoryIs DEF Shaped
  <2>2. PICK o : o = old(e)
    OBVIOUS
  <2>3. PICK n : n = Said(Finished(o, "error", EndOf(o, mem.msgs[e], t)), mem.msgs[e], v)
    OBVIOUS
  <2>4. n \in Messages /\ Rising(n) /\ EndOf(o, mem.msgs[e], t) \in Nat
    BY <2>1, <2>2, <2>3, LateSays
  <2> QED
    BY <2>2, <2>3, <2>4
<1> HIDE DEF s, x
<1>5. PICK j : j = k(e, t, v)
  OBVIOUS
<1>6. /\ j \in Memories /\ j.entry = mem.entry /\ j.hist = mem.hist
      /\ j.msgs[e] = s(e, t, v) /\ \A d \in Execs : d # e => j.msgs[d] = mem.msgs[d]
  <2>1. PICK z \in Messages : z = s(e, t, v)
    BY <1>4
  <2>2. j = [mem EXCEPT !.msgs[e] = z]
    BY <1>5, <2>1
  <2>3. /\ j \in Memories /\ j.entry = mem.entry /\ j.hist = mem.hist
        /\ j.msgs[e] = z /\ \A d \in Execs : d # e => j.msgs[d] = mem.msgs[d]
    <3>1. j = [entry |-> mem.entry, hist |-> mem.hist, msgs |-> [mem.msgs EXCEPT ![e] = z]]
      BY <1>3, <2>2, MemoryIs
    <3>2. /\ [mem.msgs EXCEPT ![e] = z] \in [Execs -> Messages]
          /\ [mem.msgs EXCEPT ![e] = z][e] = z
          /\ \A d \in Execs : d # e => [mem.msgs EXCEPT ![e] = z][d] = mem.msgs[d]
      BY <1>3, MemoryIs
    <3> QED
      BY <1>3, <3>1, <3>2, MemoryIs DEF Memories
  <2> QED
    BY <2>1, <2>3
<1>7. Shaped(j.hist, j.msgs) /\ EntryOk(j.entry)
  <2>1. \A d \in Execs : Rising(j.msgs[d])
    BY <1>3, <1>4, <1>6 DEF Shaped
  <2>2. \A d \in Execs : j.hist[d].status = "none" => j.msgs[d] = <<>>
    BY <1>2, <1>3, <1>6 DEF Shaped
  <2> QED
    BY <1>3, <1>6, <2>1, <2>2 DEF Shaped
<1>8. PICK f : f = failed(e, t, v)
  OBVIOUS
<1>9. Marks(j, f, j.entry.status, j.entry.reason)
  BY <1>4, <1>5, <1>6, <1>8, TouchedIs
<1>10. EntryOk(f.entry) /\ f \in Memories /\ f.hist = j.hist /\ f.msgs = j.msgs
  BY <1>6, <1>7, <1>9, MarksOk DEF EntryOk
<1>11. PICK q : q = said(e, t, u, v)
  OBVIOUS
<1>12. Marks(f, q, "quarantined", TRUE)
  BY <1>3, <1>8, <1>10, <1>11, QuarantinedIs
<1>13. EntryOk(q.entry) /\ q \in Memories /\ q.hist = j.hist /\ q.msgs = j.msgs /\ q.entry.status = "quarantined"
  BY <1>10, <1>12 DEF Marks, EntryOk, SameHistory
<1>14. PICK m : m = last(e, t, u, v)
  OBVIOUS
<1>15. /\ m \in Memories /\ Shaped(m.hist, m.msgs) /\ EntryOk(m.entry)
       /\ \A d \in Execs : mem.hist[d].status # "none" => m.hist[d].status # "none"
  <2>1. CASE Ran
    <3>1. m = Terminalized(q, {}, t)
      BY <1>11, <1>14, <2>1
    <3>2. PICK r : r = Reconciled(q, {}, t)
      OBVIOUS
    <3>3. /\ Marks(r, m, q.entry.status, q.entry.reason) /\ Goes(q, m) /\ r.entry = q.entry
          /\ m \in Memories
      BY <1>13, <3>1, <3>2, TerminalizedIs
    <3>4. r \in Memories
      BY <1>13, <3>2, ReconciledGoes
    <3>5. EntryOk(m.entry)
      BY <1>13, <3>3, <3>4, MarksOk DEF EntryOk
    <3>6. Shaped(m.hist, m.msgs)
      BY <1>7, <1>13, <3>3, GoesShaped
    <3> QED
      BY <1>6, <1>13, <3>3, <3>5, <3>6 DEF Goes, Follows
  <2>2. CASE ~Ran
    BY <1>6, <1>7, <1>11, <1>13, <1>14, <2>2
  <2> QED
    BY <2>1, <2>2
<1>16. Persist("late", {f, q}, m)
  BY <1>2, <1>8, <1>11, <1>14
<1>17. OnDisk(m) /\ refused' \subseteq {"tombstone", "late"}
  BY <1>16 DEF Persist, Written
<1>18. late' \subseteq Execs /\ \A d \in late' : m.hist[d].status # "none"
  BY <1>2, <1>3, <1>15
<1>19. live' \in {"none", "starting", "closing"} /\ gone' \in BOOLEAN
  BY <1>1 DEF Ran, RecordsInv, TypeOK
<1> QED
  BY <1>1, <1>15, <1>17, <1>18, <1>19, DiskKeeps

LEMMA SaysKeeps ==
  ASSUME RecordsInv, Says  PROVE  RecordsInv' /\ FinalStep
<1>1. Open /\ active # None /\ UNCHANGED <<disk, up, refused>> /\ SameRuntime /\ SameRest
  BY DEF Says
<1>2. PICK v \in Clock : mem' = Failing(mem, active, v)
  BY DEF Says
<1>3. /\ mem \in Memories /\ active \in Execs /\ mem.hist[active].status = "running"
      /\ Rising(mem.msgs[active]) /\ Whole(mem.hist, mem.msgs) /\ EntryOk(mem.entry)
      /\ ExecTaken(mem.hist[active], mem.msgs[active])
  BY <1>1, OpenIs
<1>4. mem.hist[active] \in Records /\ mem.msgs[active] \in Messages /\ mem.hist[active].finished = 0
  BY <1>3, MemoryIs DEF ExecTaken, Ends
<1>5. PICK s : s = Said(mem.hist[active], mem.msgs[active], v)
  OBVIOUS
<1>6. Follows(mem.hist[active], mem.msgs[active], mem.hist[active], s)
  BY <1>3, <1>4, <1>5, SaidFollows
<1>7. s \in Messages
  BY <1>6 DEF Follows
<1>8. PICK n : n = Failing(mem, active, v)
  OBVIOUS
<1>9. n \in Memories /\ n.entry = mem.entry /\ n.hist = mem.hist /\ n.msgs = [mem.msgs EXCEPT ![active] = s]
  BY <1>3, <1>5, <1>7, <1>8, FailingIs
<1>10. n.hist = [mem.hist EXCEPT ![active] = mem.hist[active]]
  BY <1>3, <1>9, MemoryIs
<1>11. Goes(mem, n)
  BY <1>3, <1>6, <1>9, <1>10, OneGoes
<1>12. Whole(n.hist, n.msgs)
  BY <1>3, <1>9, <1>11, GoesWhole
<1>13. mem' = n
  BY <1>2, <1>8
<1>14. TypeOK'
  BY <1>1, <1>9, <1>13 DEF TypeOK, RecordsInv, SameRuntime, SameRest
<1>15. MemOk'
  <2>1. EntryOk(mem.entry)'
    BY <1>1, <1>3, <1>9, <1>13 DEF EntryOk, SameRest
  <2>2. Shaped(mem'.hist, mem'.msgs) /\ HistoryTaken(mem'.hist, mem'.msgs)
    BY <1>12, <1>13 DEF Whole
  <2>3. Shaped(mem.hist, mem.msgs)' /\ HistoryTaken(mem.hist, mem.msgs)'
    BY <2>2 DEF Shaped, HistoryTaken
  <2> QED
    BY <2>1, <2>3 DEF MemOk
<1>16. DiskOk'
  BY <1>1 DEF DiskOk, RecordsInv, EntryFit, EntryOk, Whole, Shaped, HistoryTaken, SameRest
<1>17. RunOk' /\ StoresTakeAll'
  BY <1>1, <1>9, <1>13 DEF RunOk, RecordsInv, StoresTakeAll, SameRuntime, SameRest
<1>18. FinalStep
  BY <1>11, <1>13 DEF FinalStep, Goes, Follows
<1> QED
  BY <1>14, <1>15, <1>16, <1>17, <1>18 DEF RecordsInv

LEMMA EndKeeps ==
  ASSUME RecordsInv, End  PROVE  RecordsInv' /\ FinalStep
<1>1. Open /\ active # None /\ Idle(live) /\ SameRest
  BY DEF End
<1> DEFINE x(t) == EndOf(mem.hist[active], mem.msgs[active], t)
           ended(end, t) == Touched(EndedAs(mem, active, end, t), x(t))
           last(end, t, u) == Touched(Status(ended(end, t), "live_idle"), u)
           before(end, t) == IF end = "interrupted" THEN {ended(end, t)} ELSE {}
<1>2. PICK end \in Ends, t \in Clock, u \in Clock :
        Persist("end", before(end, t), last(end, t, u))
  BY DEF End
<1>3. /\ Good(mem) /\ mem \in Memories /\ u \in Nat /\ active \in Execs /\ live = "up"
      /\ mem.hist[active].status = "running" /\ mem.entry.status # "quarantined"
  BY <1>1, GoodOpen, OpenIs
<1>4. x(t) \in Nat
  BY <1>1, <1>3, GoodOpen
<1> HIDE DEF x
<1>5. Good(EndedAs(mem, active, end, t)) /\ EndedAs(mem, active, end, t).entry = mem.entry
  BY <1>3, GoodEnded
<1>6. Good(ended(end, t)) /\ ended(end, t).entry.status = mem.entry.status
  BY <1>3, <1>4, <1>5, GoodTouched
<1> HIDE DEF ended
<1>7. PICK k : k = Status(ended(end, t), "live_idle")
  OBVIOUS
<1>8. Good(k) /\ k.entry.status = "live_idle"
  BY <1>3, <1>6, <1>7, GoodStatus DEF Statuses
<1>9. Good(last(end, t, u)) /\ last(end, t, u).entry.status = "live_idle"
  BY <1>3, <1>7, <1>8, GoodTouched
<1>10. \A n \in before(end, t) : Good(n)
  BY <1>6
<1> HIDE DEF before, last
<1>11. live \in Lives
  BY <1>3 DEF Lives
<1> QED
  BY <1>1, <1>2, <1>3, <1>9, <1>10, <1>11, SameStore, TurnKeeps

\* Its checkpoint is committed.
LEMMA GoodCommitted ==
  ASSUME mem \in Memories, durable, NEW k, Good(k), NEW at \in Nat, at # 0,
         NEW n, n = [k EXCEPT !.entry.rev = TRUE, !.entry.ckAt = at]
  PROVE  Good(n) /\ n.hist = k.hist /\ n.msgs = k.msgs /\ n.entry.status = k.entry.status
<1> DEFINE s == [k.entry EXCEPT !.rev = TRUE, !.ckAt = at]
<1>1. k \in Memories /\ Goes(mem, k) /\ EntryFit(k.entry)
  BY DEF Good
<1>2. /\ s \in Entries /\ s.rev = TRUE /\ s.ckAt = at /\ s.snap = k.entry.snap
      /\ s.status = k.entry.status /\ s.reason = k.entry.reason
  BY <1>1, MemoryIs DEF Entries
<1>3. n = [k EXCEPT !.entry = s]
  BY <1>1, MemoryIs
<1> HIDE DEF s
<1>4. SameHistory(k, n) /\ n.entry = s
  <2>1. k \in Memories /\ s \in Entries
    BY <1>1, <1>2
  <2> QED
    BY <2>1, <1>3, EntryIs
<1>5. EntryFit(n.entry)
  BY <1>1, <1>2, <1>4 DEF EntryFit, EntryOk
<1>6. Goes(mem, n)
  BY <1>1, <1>4, GoesSame, GoesTrans, ZenonT(40) DEF SameHistory
<1> QED
  BY <1>2, <1>4, <1>5, <1>6 DEF Good, SameHistory

LEMMA EndCommitsKeeps ==
  ASSUME RecordsInv, EndCommits  PROVE  RecordsInv' /\ FinalStep
<1>1. Open /\ active # None /\ durable /\ Idle(live) /\ UNCHANGED <<durable, gone, spoiled, harms>>
  BY DEF EndCommits
<1> DEFINE at(c) == Later(c, store.at)
           x(t) == EndOf(mem.hist[active], mem.msgs[active], t)
           ended(end, t) == EndedAs(mem, active, end, t)
           marked(end, t, c) == [ended(end, t) EXCEPT !.entry.rev = TRUE, !.entry.ckAt = at(c)]
           committed(end, t, c) == Touched(marked(end, t, c), at(c))
           idle(end, t, c) == Status(committed(end, t, c), "live_idle")
           last(end, t, c) == Touched(idle(end, t, c), x(t))
<1>2. PICK end \in {"ok", "error"}, t \in Clock, c \in Clock :
        /\ Persist("commit", {committed(end, t, c)}, last(end, t, c))
        /\ store' = [store EXCEPT !.at = at(c)]
  BY DEF EndCommits
<1>3. /\ Good(mem) /\ mem \in Memories /\ active \in Execs /\ live = "up"
      /\ mem.hist[active].status = "running" /\ mem.entry.status # "quarantined"
  BY <1>1, GoodOpen, OpenIs
<1>4. x(t) \in Nat
  BY <1>1, <1>3, GoodOpen
<1>5. at(c) \in Nat /\ at(c) # 0 /\ store \in [at : Nat, reads : BOOLEAN]
  <2>1. store \in [at : Nat, reads : BOOLEAN] /\ store.at \in Nat /\ c \in Nat /\ c # 0
    BY ClockIs DEF RecordsInv, TypeOK
  <2>2. at(c) \in Nat /\ at(c) >= c
    BY <2>1, LaterIs
  <2> QED
    BY <2>1, <2>2
<1> HIDE DEF x, at
<1>6. store' \in [at : Nat, reads : BOOLEAN]
  BY <1>2, <1>5
<1>7. Good(ended(end, t)) /\ ended(end, t).entry = mem.entry
  BY <1>2, <1>3, GoodEnded DEF Ends
<1> HIDE DEF ended
<1>8. Good(marked(end, t, c)) /\ marked(end, t, c).entry.status = mem.entry.status
  <2>1. PICK k : k = ended(end, t)
    OBVIOUS
  <2>2. PICK n : n = [k EXCEPT !.entry.rev = TRUE, !.entry.ckAt = at(c)]
    OBVIOUS
  <2>3. Good(k) /\ k.entry = mem.entry
    BY <1>7, <2>1
  <2>4. Good(n) /\ n.entry.status = k.entry.status
    BY <1>1, <1>3, <1>5, <2>2, <2>3, GoodCommitted, ZenonT(40)
  <2> QED
    BY <2>1, <2>2, <2>3, <2>4
<1> HIDE DEF marked
<1>9. Good(committed(end, t, c)) /\ committed(end, t, c).entry.status = mem.entry.status
  BY <1>3, <1>5, <1>8, GoodTouched
<1> HIDE DEF committed
<1>10. Good(idle(end, t, c)) /\ idle(end, t, c).entry.status = "live_idle"
  BY <1>3, <1>9, GoodStatus DEF Statuses
<1> HIDE DEF idle
<1>11. Good(last(end, t, c)) /\ last(end, t, c).entry.status = "live_idle"
  BY <1>3, <1>4, <1>10, GoodTouched
<1> HIDE DEF last
<1>12. live \in Lives /\ \A n \in {committed(end, t, c)} : Good(n)
  BY <1>3, <1>9 DEF Lives
<1> QED
  BY <1>1, <1>2, <1>3, <1>6, <1>11, <1>12, TurnKeeps

\* An exec that ended is made one that failed, and says why.
LEMMA RefailedIs ==
  ASSUME NEW m \in Memories, NEW h \in [Execs -> Records], NEW e \in Execs, NEW r \in Records,
         NEW s \in Messages, m.hist = [h EXCEPT ![e] = r],
         NEW q, q = [r EXCEPT !.status = "error"], NEW v, s = Said(q, m.msgs[e], v),
         NEW n, n = Failing([m EXCEPT !.hist[e].status = "error"], e, v)
  PROVE  /\ n \in Memories /\ n.entry = m.entry /\ n.hist = [h EXCEPT ![e] = q]
         /\ n.msgs = [m.msgs EXCEPT ![e] = s]
<1>1. m.hist \in [Execs -> Records] /\ m.hist[e] = r /\ q \in Records
  BY MemoryIs DEF Records, Ends
<1>2. PICK k : k = [m.hist EXCEPT ![e] = q]
  OBVIOUS
<1>3. k \in [Execs -> Records] /\ k[e] = q /\ k = [h EXCEPT ![e] = q]
  BY <1>1, <1>2
<1>4. PICK j : j = [m EXCEPT !.hist[e].status = "error"]
  OBVIOUS
<1>5. j = [m EXCEPT !.hist = k]
  BY <1>1, <1>2, <1>4, MemoryIs
<1>6. j \in Memories /\ j.entry = m.entry /\ j.hist = k /\ j.msgs = m.msgs
  BY <1>3, <1>5, HistoryIs
<1>7. n = Failing(j, e, v) /\ s = Said(j.hist[e], j.msgs[e], v)
  BY <1>3, <1>4, <1>6
<1>8. n \in Memories /\ n.entry = j.entry /\ n.hist = j.hist /\ n.msgs = [j.msgs EXCEPT ![e] = s]
  BY <1>6, <1>7, FailingIs
<1> QED
  BY <1>3, <1>6, <1>8

LEMMA EndFailsKeeps ==
  ASSUME RecordsInv, EndFails  PROVE  RecordsInv' /\ FinalStep
<1>1. Open /\ active # None /\ Idle("none") /\ SameRest
  BY DEF EndFails
<1> DEFINE x(t) == EndOf(mem.hist[active], mem.msgs[active], t)
           ended(end, t) == EndedAs(mem, active, end, t)
           told(end, t, u) == Quarantined(ended(end, t), u)
           refailed(end, t, u, v) ==
             Failing([told(end, t, u) EXCEPT !.hist[active].status = "error"], active, v)
           failed(end, t, u, v) == Touched(refailed(end, t, u, v), x(t))
           last(end, t, u, v) == Terminalized(failed(end, t, u, v), {}, t)
<1>2. PICK end \in {"ok", "error"}, t \in Clock, u \in Clock, v \in Clock :
        Persist("end fails", {told(end, t, u), failed(end, t, u, v)}, last(end, t, u, v))
  BY DEF EndFails
<1>3. /\ Good(mem) /\ mem \in Memories /\ u \in Nat /\ active \in Execs
      /\ mem.hist[active].status = "running" /\ Rising(mem.msgs[active])
      /\ mem.hist \in [Execs -> Records] /\ mem.hist[active] \in Records
      /\ mem.msgs[active] \in Messages
  BY <1>1, GoodOpen, OpenIs, MemoryIs
<1>4. x(t) \in Nat
  BY <1>1, <1>3, GoodOpen
<1>5. /\ Good(ended(end, t)) /\ ended(end, t).entry = mem.entry /\ ended(end, t).msgs = mem.msgs
      /\ ended(end, t).hist = [mem.hist EXCEPT ![active] = Finished(mem.hist[active], end, x(t))]
  <2>1. end \in Ends
    BY <1>2 DEF Ends
  <2>2. /\ Good(ended(end, t)) /\ ended(end, t).entry = mem.entry
        /\ ended(end, t).msgs = mem.msgs
    BY <1>3, <2>1, GoodEnded
  <2>3. ended(end, t).hist = [mem.hist EXCEPT ![active] = Finished(mem.hist[active], end, x(t))]
    BY <1>3, EndedAsIs
  <2> QED
    BY <2>2, <2>3
<1> HIDE DEF ended
<1>6. /\ Good(told(end, t, u)) /\ told(end, t, u).hist = ended(end, t).hist
      /\ told(end, t, u).msgs = mem.msgs /\ told(end, t, u).entry.status = "quarantined"
  BY <1>3, <1>5, GoodQuarantined
<1> HIDE DEF told
<1>7. PICK r : r = Finished(mem.hist[active], end, x(t))
  OBVIOUS
<1>8. PICK q : q = Finished(mem.hist[active], "error", x(t))
  OBVIOUS
<1>9. r \in Records /\ q = [r EXCEPT !.status = "error"]
  <2>1. Follows(mem.hist[active], mem.msgs[active], r, mem.msgs[active])
    BY <1>2, <1>3, <1>7, FinishedFollows DEF Ends
  <2>2. q = [r EXCEPT !.status = "error"]
    BY <1>2, <1>3, <1>7, <1>8 DEF Finished, Records
  <2> QED
    BY <2>1, <2>2 DEF Follows
<1>10. PICK s : s = Said(q, mem.msgs[active], v)
  OBVIOUS
<1>11. Follows(mem.hist[active], mem.msgs[active], q, s)
  BY <1>3, <1>8, <1>10, FailsFollows
<1>12. PICK m : m = told(end, t, u)
  OBVIOUS
<1>13. PICK n : n = refailed(end, t, u, v)
  OBVIOUS
<1>14. /\ n \in Memories /\ n.entry = m.entry /\ n.hist = [mem.hist EXCEPT ![active] = q]
       /\ n.msgs = [mem.msgs EXCEPT ![active] = s]
  <2>1. m \in Memories /\ m.hist = [mem.hist EXCEPT ![active] = r] /\ m.msgs = mem.msgs
    BY <1>5, <1>6, <1>7, <1>12 DEF Good
  <2>2. n = Failing([m EXCEPT !.hist[active].status = "error"], active, v)
    BY <1>12, <1>13
  <2>3. s \in Messages /\ s = Said(q, m.msgs[active], v)
    BY <1>10, <1>11, <2>1 DEF Follows
  <2>4. /\ n \in Memories /\ n.entry = m.entry /\ n.hist = [mem.hist EXCEPT ![active] = q]
        /\ n.msgs = [m.msgs EXCEPT ![active] = s]
    BY <1>3, <1>9, <2>1, <2>2, <2>3, RefailedIs, SMTT(20)
  <2> QED
    BY <2>1, <2>4
<1>15. Goes(mem, n)
  BY <1>3, <1>11, <1>14, OneGoes
<1>16. Good(n)
  BY <1>6, <1>12, <1>14, <1>15 DEF Good
<1> HIDE DEF refailed, x
<1>17. Good(failed(end, t, u, v))
  BY <1>3, <1>4, <1>13, <1>16, GoodTouched
<1> HIDE DEF failed
<1>18. Good(last(end, t, u, v))
  BY <1>3, <1>17, GoodTerminalized
<1>19. \A k \in {told(end, t, u), failed(end, t, u, v)} : Good(k)
  BY <1>6, <1>17
<1> HIDE DEF last
<1> DEFINE before == {told(end, t, u), failed(end, t, u, v)}
<1>20. \A k \in before : Good(k)
  BY <1>19
<1> HIDE DEF before
<1>21. Persist("end fails", before, last(end, t, u, v))
  BY <1>2 DEF before, last, failed, refailed, x
<1> QED
  BY <1>1, <1>18, <1>20, <1>21, SameStore, TurnKeeps DEF Lives

-----------------------------------------------------------------------------
(* The steps: the runtime's end, and the session's.                        *)

\* The active exec of a runtime that ends, if any, has failed.
LEMMA GoodActiveFailed ==
  ASSUME RecordsInv, Open, NEW t \in Clock, NEW v \in Clock
  PROVE  Good(ActiveFailed(t, v)) /\ ActiveFailed(t, v).entry = mem.entry
<1>1. Good(mem) /\ mem \in Memories
  BY GoodOpen
<1>2. CASE active = None
  BY <1>1, <1>2 DEF ActiveFailed
<1>3. CASE active # None
  <2>1. active \in Execs /\ mem.hist[active].status = "running" /\ Rising(mem.msgs[active])
    BY <1>3, OpenIs
  <2>2. Good(Failed(mem, active, t, v)) /\ Failed(mem, active, t, v).entry = mem.entry
    BY <1>1, <2>1, GoodFailed
  <2> QED
    BY <1>3, <2>2 DEF ActiveFailed
<1> QED
  BY <1>2, <1>3

LEMMA ContainKeeps ==
  ASSUME RecordsInv, Contain  PROVE  RecordsInv' /\ FinalStep
<1>1. Open /\ Idle("none") /\ SameRest
  BY DEF Contain
<1>2. PICK t \in Clock, u \in Clock, v \in Clock :
        Persist("contain", {}, Quarantined(Terminalized(ActiveFailed(t, v), {}, t), u))
  BY DEF Contain
<1>3. mem \in Memories /\ u \in Nat
  BY <1>1, GoodOpen
<1>4. Good(ActiveFailed(t, v))
  BY <1>1, GoodActiveFailed
<1>5. Good(Terminalized(ActiveFailed(t, v), {}, t))
  BY <1>3, <1>4, GoodTerminalized
<1>6. Good(Quarantined(Terminalized(ActiveFailed(t, v), {}, t), u))
  BY <1>3, <1>5, GoodQuarantined
<1> QED
  BY <1>1, <1>2, <1>6, SameStore, TurnKeeps DEF Lives

LEMMA KilledKeeps ==
  ASSUME RecordsInv, Open, NEW m, Good(m), Persist("memory kill", {}, m), Idle("killed"), SameRest,
         m.entry.status = "recovering"
  PROVE  RecordsInv' /\ FinalStep
<1>1. UNCHANGED <<durable, gone, spoiled, harms>> /\ store' \in [at : Nat, reads : BOOLEAN]
  BY SameStore
<1>2. up /\ ~spoiled
  BY OpenIs
<1>3. \A n \in {} \cup {m} : Fine(n)
  BY <1>2, GoodFine
<1>4. Final(mem, m)
  BY <1>3 DEF Fine
<1>5. PICK to \in Lives : to = "killed"
  BY DEF Lives
<1>6. Idle(to) /\ (to = "up" => FALSE) /\ (to = "killed" => m.entry.status = "recovering")
  BY <1>5
<1>7. /\ live' \in Lives /\ active' \in {None} \cup Execs
      /\ writing' \in BOOLEAN /\ late' \subseteq Execs
      /\ RunsAs(m, live', active', writing', late')
  BY <1>2, <1>4, <1>5, <1>6, LeavesAs
<1> QED
  BY <1>1, <1>2, <1>3, <1>7, PersistKeeps

LEMMA MemoryKillKeeps ==
  ASSUME RecordsInv, MemoryKill  PROVE  RecordsInv' /\ FinalStep
<1>1. Open /\ live = "up" /\ Idle("killed") /\ SameRest
  BY DEF MemoryKill
<1>2. PICK t \in Clock, u \in Clock, v \in Clock :
        Persist("memory kill", {}, Touched(Status(ActiveFailed(t, v), "recovering"), u))
  BY DEF MemoryKill
<1>3. mem \in Memories /\ u \in Nat /\ mem.entry.status # "quarantined"
  BY <1>1, GoodOpen, OpenIs
<1>4. PICK k : k = ActiveFailed(t, v) /\ Good(k) /\ k.entry.status # "quarantined"
  BY <1>1, <1>3, GoodActiveFailed
<1>5. PICK n : n = Status(k, "recovering") /\ Good(n) /\ n.entry.status = "recovering"
  BY <1>3, <1>4, GoodStatus DEF Statuses
<1>6. Good(Touched(n, u)) /\ Touched(n, u).entry.status = "recovering"
  BY <1>3, <1>5, GoodTouched
<1>7. PICK m : m = Touched(n, u)
  OBVIOUS
<1>8. Persist("memory kill", {}, m) /\ Good(m) /\ m.entry.status = "recovering"
  BY <1>2, <1>4, <1>5, <1>6, <1>7
<1> QED
  BY <1>1, <1>8, KilledKeeps

LEMMA CloseStartsKeeps ==
  ASSUME RecordsInv, CloseStarts  PROVE  RecordsInv' /\ FinalStep
<1>1. Open /\ Leaves("closing") /\ SameRest
  BY DEF CloseStarts, Unlocked
<1>2. PICK t \in Clock : Persist("stop", {}, Terminalized(mem, {}, t))
  BY DEF CloseStarts
<1>3. Good(mem) /\ mem \in Memories
  BY <1>1, GoodOpen
<1>4. Good(Terminalized(mem, {}, t))
  BY <1>3, GoodTerminalized
<1> QED
  BY <1>1, <1>2, <1>4, SameStore, TurnKeeps DEF Lives

LEMMA CloseEndsKeeps ==
  ASSUME RecordsInv, CloseEnds  PROVE  RecordsInv' /\ FinalStep
<1>1. Serving /\ Leaves("none") /\ UNCHANGED <<durable, store, spoiled, harms>>
  BY DEF CloseEnds
<1>2. PICK u \in Clock :
        LET m == Touched(Status(mem, "closed"), u) IN
        /\ Written(IF mem.entry.reason THEN "tombstone" ELSE "close", {m})
        /\ \/ OnDisk(m) /\ UNCHANGED gone
           \/ Removed /\ UNCHANGED up
  BY DEF CloseEnds
<1>3. /\ mem \in Memories /\ EntryOk(mem.entry) /\ Whole(mem.hist, mem.msgs) /\ u \in Nat
      /\ up /\ ~spoiled /\ late \subseteq Execs
      /\ \A e \in late : mem.hist[e].status # "none"
      /\ \A e \in Execs : e = active /\ writing => mem.hist[e].status # "none"
  BY <1>1, ClockIs DEF RecordsInv, TypeOK, MemOk, RunOk, Serving, Whole, Execs, None
<1>4. PICK k : k = Status(mem, "closed")
  OBVIOUS
<1>5. Marks(mem, k, "closed", mem.entry.reason)
  BY <1>3, <1>4, StatusIs DEF Statuses
<1>6. k \in Memories /\ k.hist = mem.hist /\ k.msgs = mem.msgs /\ EntryOk(k.entry)
      /\ k.entry.status = "closed" /\ (k.entry.reason <=> mem.entry.reason)
  BY <1>3, <1>5 DEF Marks, SameHistory, EntryOk
<1>7. PICK m : m = Touched(k, u)
  OBVIOUS
<1>8. Marks(k, m, k.entry.status, k.entry.reason)
  BY <1>3, <1>6, <1>7, TouchedIs
<1>9. m \in Memories /\ m.hist = mem.hist /\ m.msgs = mem.msgs /\ EntryOk(m.entry)
      /\ (m.entry.reason <=> mem.entry.reason)
  BY <1>6, <1>8 DEF Marks, SameHistory, EntryOk
<1>10. /\ Written(IF mem.entry.reason THEN "tombstone" ELSE "close", {m})
       /\ (OnDisk(m) /\ UNCHANGED gone) \/ (Removed /\ UNCHANGED up)
  BY <1>2, <1>4, <1>7
<1>11. refused' \subseteq {"tombstone", "late"}
  <2>1. CASE mem.entry.reason
    BY <1>10, <2>1 DEF Written
  <2>2. CASE ~mem.entry.reason
    <3>1. EntryFit(m.entry) /\ HistoryTaken(m.hist, m.msgs)
      BY <1>3, <1>9, <2>2 DEF EntryFit, Whole
    <3>2. Taken(Stamped(m))
      BY <1>9, <3>1, StampedFine
    <3> QED
      BY <1>10, <2>2, <3>2 DEF Written
  <2> QED
    BY <2>1, <2>2
<1>12. /\ live' = "none" /\ active' = None /\ writing' = FALSE
       /\ late' \subseteq Execs /\ \A e \in late' : mem.hist[e].status # "none"
  BY <1>1, <1>3 DEF Leaves
<1>13. CASE OnDisk(m) /\ UNCHANGED gone
  <2>1. Shaped(m.hist, m.msgs) /\ HistoryTaken(m.hist, m.msgs)
    BY <1>3, <1>9 DEF Whole
  <2>2. Final(mem, m)
    BY <1>3, <1>9, PrefixSame, MemoryIs DEF Final
  <2>3. gone' \in BOOLEAN /\ spoiled' \in BOOLEAN
    BY <1>1, <1>13 DEF RecordsInv, TypeOK
  <2>4. \A e \in late' : m.hist[e].status # "none"
    BY <1>9, <1>12
  <2> QED
    BY <1>1, <1>9, <1>11, <1>12, <1>13, <2>1, <2>2, <2>3, <2>4, DiskKeeps
<1>14. CASE Removed /\ UNCHANGED up
  <2>1. up' \in BOOLEAN /\ spoiled' \in BOOLEAN
    BY <1>1, <1>14 DEF RecordsInv, TypeOK
  <2> QED
    BY <1>1, <1>11, <1>12, <1>14, <2>1, RemovedKeeps
<1> QED
  BY <1>10, <1>13, <1>14

\* A server that is down remembers nothing.
LEMMA DownKeeps ==
  ASSUME RecordsInv, up' = FALSE, mem' = Forgotten, DiskOk',
         disk' \in [listed : BOOLEAN, entry : Entries, hist : [Execs -> Records],
                    msgs : [Execs -> Messages]],
         refused' \subseteq {"tombstone", "late"}, UNCHANGED <<durable, store, gone, spoiled, harms>>,
         live' = "none", active' = None, writing' = FALSE, late' \subseteq Execs
  PROVE  RecordsInv' /\ FinalStep
<1>1. TypeOK'
  BY ForgottenIs DEF TypeOK, RecordsInv, Turns
<1>2. MemOk'
  <2>1. EntryOk(mem.entry)'
    BY ForgottenIs DEF EntryFit, EntryOk
  <2>2. Shaped(mem.hist, mem.msgs)' /\ HistoryTaken(mem.hist, mem.msgs)'
    BY ForgottenIs DEF Whole, Shaped, HistoryTaken
  <2> QED
    BY <2>1, <2>2 DEF MemOk
<1>3. RunOk' /\ FinalStep /\ StoresTakeAll'
  BY DEF RunOk, FinalStep, StoresTakeAll
<1> QED
  BY <1>1, <1>2, <1>3 DEF RecordsInv

LEMMA SameDisk ==
  ASSUME RecordsInv, UNCHANGED <<disk, durable>>
  PROVE  /\ DiskOk'
         /\ disk' \in [listed : BOOLEAN, entry : Entries, hist : [Execs -> Records],
                       msgs : [Execs -> Messages]]
BY DEF DiskOk, RecordsInv, TypeOK, EntryFit, EntryOk, Whole, Shaped, HistoryTaken

LEMMA CrashKeeps ==
  ASSUME RecordsInv, Crash  PROVE  RecordsInv' /\ FinalStep
<1>1. /\ up' = FALSE /\ mem' = Forgotten
      /\ UNCHANGED <<disk, refused, durable, store, gone, spoiled, harms>>
      /\ live' = "none" /\ active' = None /\ writing' = FALSE
  BY DEF Crash, Leaves, SameRest
<1>2. late' \subseteq Execs /\ refused' \subseteq {"tombstone", "late"}
  BY <1>1 DEF Crash, Leaves, RecordsInv, TypeOK, StoresTakeAll
<1> QED
  BY <1>1, <1>2, SameDisk, DownKeeps

\* A session with a checkpoint may be kept with a process snapshot.
LEMMA GoodDumped ==
  ASSUME mem \in Memories, durable, NEW k, Good(k), NEW n, n = [k EXCEPT !.entry.snap = TRUE]
  PROVE  Good(n)
<1> DEFINE s == [k.entry EXCEPT !.snap = TRUE]
<1>1. k \in Memories /\ Goes(mem, k) /\ EntryFit(k.entry)
  BY DEF Good
<1>2. /\ s \in Entries /\ s.rev = k.entry.rev /\ s.ckAt = k.entry.ckAt
      /\ s.status = k.entry.status /\ s.reason = k.entry.reason
  BY <1>1, MemoryIs DEF Entries
<1>3. n = [k EXCEPT !.entry = s]
  BY <1>1, MemoryIs
<1> HIDE DEF s
<1>4. SameHistory(k, n) /\ n.entry = s
  <2>1. k \in Memories /\ s \in Entries
    BY <1>1, <1>2
  <2> QED
    BY <2>1, <1>3, EntryIs
<1>5. EntryFit(n.entry)
  BY <1>1, <1>2, <1>4 DEF EntryFit, EntryOk
<1>6. Goes(mem, n)
  BY <1>1, <1>4, GoesSame, GoesTrans, ZenonT(40) DEF SameHistory
<1> QED
  BY <1>4, <1>5, <1>6 DEF Good, SameHistory

\* It is given a status with the reason that goes with it.
LEMMA GoodGiven ==
  ASSUME mem \in Memories, NEW k, Good(k), NEW status \in Statuses, NEW reason \in BOOLEAN,
         reason <=> status = "quarantined",
         NEW n, n = [k EXCEPT !.entry.status = status, !.entry.reason = reason]
  PROVE  Good(n)
<1> DEFINE s == [k.entry EXCEPT !.status = status, !.reason = reason]
<1>1. k \in Memories
  BY DEF Good
<1>2. /\ s \in Entries /\ s.rev = k.entry.rev /\ s.ckAt = k.entry.ckAt /\ s.snap = k.entry.snap
      /\ s.status = status /\ s.reason = reason
  BY <1>1, MemoryIs DEF Entries
<1>3. n = [k EXCEPT !.entry = s]
  BY <1>1, MemoryIs
<1> HIDE DEF s
<1>4. Marks(k, n, s.status, s.reason)
  <2>1. k \in Memories /\ s \in Entries
    BY <1>1, <1>2
  <2>2. s.rev = k.entry.rev /\ s.ckAt = k.entry.ckAt /\ s.snap = k.entry.snap
    BY <1>2
  <2> QED
    BY <2>1, <2>2, <1>3, MarksFrom
<1>5. Marks(k, n, status, reason)
  BY <1>2, <1>4
<1> QED
  BY <1>5, GoodMarks

LEMMA GoodSuspended ==
  ASSUME mem \in Memories, NEW k, Good(k)
  PROVE  Good(Suspended(k))
<1>1. CASE k.entry.status = "quarantined"
  BY <1>1 DEF Suspended
<1>2. CASE k.entry.status # "quarantined" /\ ~Compatible /\ ~k.entry.snap
  <2>1. PICK n : n = [k EXCEPT !.entry.status = "quarantined", !.entry.reason = TRUE]
    OBVIOUS
  <2>2. Good(n)
    BY <2>1, GoodGiven DEF Statuses
  <2> QED
    BY <1>2, <2>1, <2>2 DEF Suspended
<1>3. CASE k.entry.status # "quarantined" /\ ~(~Compatible /\ ~k.entry.snap)
  <2>1. PICK n : n = [k EXCEPT !.entry.status = "suspended", !.entry.reason = FALSE]
    OBVIOUS
  <2>2. Good(n)
    BY <2>1, GoodGiven DEF Statuses
  <2> QED
    BY <1>3, <2>1, <2>2 DEF Suspended
<1> QED
  BY <1>1, <1>2, <1>3

\* What a server leaves on disk of a memory the schemas take.
LEMMA FineDisk ==
  ASSUME RecordsInv, NEW m \in Memories, Whole(m.hist, m.msgs), EntryFit(m.entry), durable' = durable,
         disk' = [listed |-> TRUE, entry |-> Stamped(m).entry, hist |-> m.hist, msgs |-> m.msgs]
  PROVE  /\ DiskOk'
         /\ disk' \in [listed : BOOLEAN, entry : Entries, hist : [Execs -> Records],
                       msgs : [Execs -> Messages]]
<1>1. Stamped(m).entry \in Entries /\ EntryFit(Stamped(m).entry)
  BY StampedFine, MemoryIs DEF SameHistory
<1>2. disk'.entry = Stamped(m).entry /\ disk'.hist = m.hist /\ disk'.msgs = m.msgs
  OBVIOUS
<1>3. EntryFit(disk.entry)'
  BY <1>1, <1>2 DEF EntryFit, EntryOk
<1>4. Whole(disk.hist, disk.msgs)'
  BY <1>2 DEF Whole, Shaped, HistoryTaken
<1> QED
  BY <1>1, <1>3, <1>4, MemoryIs DEF DiskOk

LEMMA ShutdownKeeps ==
  ASSUME RecordsInv, Shutdown  PROVE  RecordsInv' /\ FinalStep
<1>1. /\ Serving /\ live \in {"none", "up", "killed"} /\ up' = FALSE /\ Leaves("none")
      /\ UNCHANGED <<durable, store, spoiled, harms>>
  BY DEF Shutdown
<1>2. /\ live' = "none" /\ active' = None /\ writing' = FALSE /\ late' \subseteq Execs
      /\ up' \in BOOLEAN /\ spoiled' \in BOOLEAN
  BY <1>1 DEF Leaves, RecordsInv, TypeOK
<1>3. CASE ~durable
  <2>1. Removed /\ UNCHANGED refused
    BY <1>3 DEF Shutdown
  <2>2. refused' \subseteq {"tombstone", "late"}
    BY <2>1 DEF RecordsInv, StoresTakeAll
  <2> QED
    BY <1>1, <1>2, <2>1, <2>2, RemovedKeeps
<1>4. CASE durable /\ ~Ran
  <2>1. mem' = Forgotten /\ UNCHANGED <<disk, gone, refused>>
    BY <1>4 DEF Shutdown
  <2>2. refused' \subseteq {"tombstone", "late"}
    BY <2>1 DEF RecordsInv, StoresTakeAll
  <2> QED
    BY <1>1, <1>2, <2>1, <2>2, SameDisk, DownKeeps
<1>5. CASE durable /\ Ran
  <2> DEFINE stopped(t, dumped) == IF dumped THEN [mem EXCEPT !.entry.snap = TRUE]
                                   ELSE Terminalized(mem, {}, t)
             last(t, u, dumped) == Touched(Suspended(stopped(t, dumped)), u)
  <2>1. PICK t \in Clock, u \in Clock, dumped \in BOOLEAN :
          LET m == last(t, u, dumped) IN
          /\ Written("shutdown", {m} \cup (IF dumped THEN {} ELSE {stopped(t, dumped)}))
          /\ disk' = IF ~Taken(Stamped(m)) THEN disk
                     ELSE [listed |-> TRUE, entry |-> Stamped(m).entry,
                           hist |-> m.hist, msgs |-> m.msgs]
    BY <1>5 DEF Shutdown
  <2>2. UNCHANGED gone /\ mem' = Forgotten
    BY <1>5 DEF Shutdown
  <2>3. Open
    BY <1>1, <1>5 DEF Open, Serving, Ran, RecordsInv, RunOk
  <2>4. Good(mem) /\ mem \in Memories /\ u \in Nat /\ ~spoiled
    BY <2>3, GoodOpen, OpenIs
  <2>5. PICK k : k = stopped(t, dumped)
    OBVIOUS
  <2>6. Good(k)
    <3>1. CASE dumped
      <4>1. k = [mem EXCEPT !.entry.snap = TRUE]
        BY <2>5, <3>1
      <4> QED
        BY <1>5, <2>4, <4>1, GoodDumped
    <3>2. CASE ~dumped
      BY <2>4, <2>5, <3>2, GoodTerminalized
    <3> QED
      BY <3>1, <3>2
  <2>7. PICK m : m = last(t, u, dumped)
    OBVIOUS
  <2>8. Good(m)
    <3>1. Good(Suspended(k))
      BY <2>4, <2>6, GoodSuspended
    <3>2. m = Touched(Suspended(k), u)
      BY <2>5, <2>7
    <3> QED
      BY <2>4, <3>1, <3>2, GoodTouched
  <2>9. Fine(m) /\ Fine(k)
    BY <2>4, <2>6, <2>8, GoodFine
  <2>10. m \in Memories /\ Whole(m.hist, m.msgs) /\ EntryFit(m.entry) /\ Taken(Stamped(m)) /\ Taken(Stamped(k))
    BY <2>9, StampedFine DEF Fine, Whole
  <2> HIDE DEF stopped, last
  <2>11. /\ Written("shutdown", {m} \cup (IF dumped THEN {} ELSE {k}))
         /\ disk' = [listed |-> TRUE, entry |-> Stamped(m).entry, hist |-> m.hist, msgs |-> m.msgs]
    BY <2>1, <2>5, <2>7, <2>10
  <2>12. refused' \subseteq {"tombstone", "late"}
    BY <2>10, <2>11 DEF Written
  <2>13. /\ DiskOk'
         /\ disk' \in [listed : BOOLEAN, entry : Entries, hist : [Execs -> Records],
                       msgs : [Execs -> Messages]]
    BY <1>1, <2>10, <2>11, FineDisk
  <2> QED
    BY <1>1, <1>2, <2>2, <2>12, <2>13, DownKeeps
<1> QED
  BY <1>3, <1>4, <1>5

-----------------------------------------------------------------------------
(* The next server's start, and harm from outside.                         *)

\* normalizeCatalogEntry makes an entry fit again, whatever became of its checkpoint.
LEMMA NormalizedIs ==
  ASSUME TypeOK, durable, NEW e \in Entries, EntryFit(e)
  PROVE  Normalized(e) \in Entries /\ EntryFit(Normalized(e))
<1>1. store.at \in Nat /\ store.reads \in BOOLEAN /\ e.updated \in Nat
  BY DEF TypeOK, Entries
<1>2. CASE ~store.reads /\ ~e.snap
  <2>1. PICK a : a = [e EXCEPT !.rev = FALSE, !.ckAt = 0, !.status = "quarantined", !.reason = TRUE]
    OBVIOUS
  <2>2. Normalized(e) = a
    BY <1>2, <2>1 DEF Normalized
  <2>3. a.rev = FALSE /\ a.ckAt = 0 /\ a.status = "quarantined" /\ a.reason = TRUE /\ a.snap = e.snap
    BY <2>1 DEF Entries
  <2>4. a \in Entries
    BY <2>1 DEF Entries, Statuses
  <2>5. EntryFit(a)
    BY <1>2, <2>3 DEF EntryFit, EntryOk
  <2> QED
    BY <2>2, <2>4, <2>5
<1>3. CASE ~(~store.reads /\ ~e.snap)
  <2>1. PICK at \in Nat : at = IF store.reads THEN store.at ELSE 0
    BY <1>1
  <2>2. PICK w \in Nat : w = Later(e.updated, at)
    BY <1>1, LaterIs
  <2>3. PICK b \in BOOLEAN : b = (at # 0)
    OBVIOUS
  <2>4. PICK a : a = [e EXCEPT !.rev = b, !.ckAt = at, !.updated = w]
    OBVIOUS
  <2>5. /\ a \in Entries /\ a.rev = b /\ a.ckAt = at /\ a.status = e.status
        /\ a.reason = e.reason /\ a.snap = e.snap
    BY <2>4 DEF Entries
  <2>6. Normalized(e) = IF e.status = "quarantined" THEN [a EXCEPT !.snap = FALSE]
                        ELSE IF ~e.snap /\ at = 0 /\ e.rev
                        THEN [a EXCEPT !.status = "quarantined", !.reason = TRUE]
                        ELSE [a EXCEPT !.status = "suspended", !.reason = FALSE]
    BY <1>3, <2>1, <2>2, <2>3, <2>4 DEF Normalized
  <2>7. CASE e.status = "quarantined"
    BY <2>3, <2>5, <2>6, <2>7 DEF Entries, EntryFit, EntryOk
  <2>8. CASE e.status # "quarantined" /\ ~e.snap /\ at = 0 /\ e.rev
    <3>1. Normalized(e) = [a EXCEPT !.status = "quarantined", !.reason = TRUE]
      BY <2>6, <2>8
    <3> QED
      BY <2>3, <2>5, <3>1 DEF Entries, Statuses, EntryFit, EntryOk
  <2>9. CASE e.status # "quarantined" /\ ~(~e.snap /\ at = 0 /\ e.rev)
    <3>1. Normalized(e) = [a EXCEPT !.status = "suspended", !.reason = FALSE]
      BY <2>6, <2>9
    <3> QED
      BY <2>3, <2>5, <3>1 DEF Entries, Statuses, EntryFit, EntryOk
  <2> QED
    BY <2>7, <2>8, <2>9
<1> QED
  BY <1>2, <1>3

LEMMA LoadKeeps ==
  ASSUME RecordsInv, Load  PROVE  RecordsInv' /\ FinalStep
<1>1. /\ ~up /\ ~gone /\ up' = TRUE /\ spoiled' = FALSE /\ late' = {} /\ live' = "none"
      /\ active' = None /\ writing' = FALSE /\ UNCHANGED <<durable, store, harms>>
  BY DEF Load
<1>2. CASE ~disk.listed \/ ~durable \/ disk.entry.status = "closed"
  <2>1. Removed /\ UNCHANGED refused
    BY <1>2 DEF Load
  <2>2. refused' \subseteq {"tombstone", "late"}
    BY <2>1 DEF RecordsInv, StoresTakeAll
  <2> QED
    BY <1>1, <2>1, <2>2, RemovedKeeps
<1>3. CASE ~(~disk.listed \/ ~durable \/ disk.entry.status = "closed")
  <2> DEFINE found(r) == [disk.entry EXCEPT !.snap = @ /\ r]
             read(r) == [entry |-> Normalized(found(r)), hist |-> disk.hist, msgs |-> disk.msgs]
  <2>1. PICK t \in Clock, restorable \in BOOLEAN :
          LET m == Reconciled(read(restorable), {}, t) IN
          /\ Written("load", {m}) /\ mem' = Stamped(m)
          /\ disk' = [listed |-> TRUE, entry |-> mem'.entry, hist |-> m.hist, msgs |-> m.msgs]
    BY <1>3 DEF Load
  <2>2. UNCHANGED gone /\ durable
    BY <1>3 DEF Load
  <2>3. /\ disk.entry \in Entries /\ disk.hist \in [Execs -> Records]
        /\ disk.msgs \in [Execs -> Messages] /\ EntryFit(disk.entry) /\ Whole(disk.hist, disk.msgs)
        /\ TypeOK
    BY DEF RecordsInv, TypeOK, DiskOk
  <2>4. PICK f : f = found(restorable)
    OBVIOUS
  <2>5. f \in Entries /\ EntryFit(f)
    <3>1. PICK b \in BOOLEAN : b = (disk.entry.snap /\ restorable)
      OBVIOUS
    <3>2. f = [disk.entry EXCEPT !.snap = b]
      BY <2>4, <3>1
    <3> QED
      BY <2>2, <2>3, <3>2 DEF Entries, EntryFit, EntryOk
  <2>6. PICK s \in Entries : s = Normalized(f) /\ EntryFit(s)
    BY <2>2, <2>3, <2>5, NormalizedIs
  <2>7. PICK k : k = [entry |-> s, hist |-> disk.hist, msgs |-> disk.msgs]
    OBVIOUS
  <2>8. k = read(restorable) /\ k \in Memories /\ k.entry = s /\ k.hist = disk.hist /\ k.msgs = disk.msgs
    BY <2>3, <2>4, <2>6, <2>7 DEF Memories
  <2> HIDE DEF read, found
  <2>9. PICK m : m = Reconciled(k, {}, t)
    OBVIOUS
  <2>10. m \in Memories /\ m.entry = s /\ Goes(k, m)
    BY <2>8, <2>9, ReconciledGoes
  <2>11. Whole(m.hist, m.msgs) /\ EntryFit(m.entry) /\ EntryOk(m.entry)
    BY <2>3, <2>6, <2>8, <2>10, GoesWhole DEF EntryFit
  <2>12. /\ SameHistory(m, Stamped(m)) /\ EntryOk(Stamped(m).entry) /\ Taken(Stamped(m))
         /\ Stamped(m) \in Memories
    BY <2>10, <2>11, StampedFine DEF Whole, SameHistory
  <2>13. /\ Written("load", {m}) /\ mem' = Stamped(m)
         /\ disk' = [listed |-> TRUE, entry |-> Stamped(m).entry, hist |-> m.hist, msgs |-> m.msgs]
    BY <2>1, <2>8, <2>9
  <2>14. refused' = {}
    BY <2>12, <2>13 DEF Written
  <2>15. /\ DiskOk'
         /\ disk' \in [listed : BOOLEAN, entry : Entries, hist : [Execs -> Records],
                       msgs : [Execs -> Messages]]
    BY <1>1, <2>10, <2>11, <2>13, FineDisk
  <2>16. TypeOK'
    BY <1>1, <2>2, <2>12, <2>13, <2>14, <2>15 DEF TypeOK, RecordsInv
  <2>17. MemOk'
    <3>1. EntryOk(mem.entry)'
      BY <1>1, <2>12, <2>13 DEF EntryOk
    <3>2. Shaped(mem'.hist, mem'.msgs) /\ HistoryTaken(mem'.hist, mem'.msgs)
      BY <2>11, <2>12, <2>13 DEF Whole, SameHistory
    <3>3. Shaped(mem.hist, mem.msgs)' /\ HistoryTaken(mem.hist, mem.msgs)'
      BY <3>2 DEF Shaped, HistoryTaken
    <3> QED
      BY <3>1, <3>3 DEF MemOk
  <2>18. RunOk' /\ StoresTakeAll' /\ FinalStep
    BY <1>1, <2>14 DEF RunOk, StoresTakeAll, FinalStep
  <2> QED
    BY <2>15, <2>16, <2>17, <2>18 DEF RecordsInv
<1> QED
  BY <1>2, <1>3

LEMMA HarmKeeps ==
  ASSUME RecordsInv, Harm  PROVE  RecordsInv' /\ FinalStep
<1>1. /\ harms < MaxHarms /\ harms' = harms + 1
      /\ UNCHANGED <<mem, disk, up, refused, durable, gone, spoiled, live, active, writing, late>>
      /\ store' \in {[at |-> 0, reads |-> TRUE], [store EXCEPT !.reads = FALSE]}
  BY DEF Harm, SameRuntime
<1>2. harms' \in 0..MaxHarms
  BY <1>1, BoundAssumption DEF RecordsInv, TypeOK
<1>3. store \in [at : Nat, reads : BOOLEAN]
  BY DEF RecordsInv, TypeOK
<1>4. store' \in [at : Nat, reads : BOOLEAN]
  <2>1. [at |-> 0, reads |-> TRUE] \in [at : Nat, reads : BOOLEAN]
    OBVIOUS
  <2>2. [store EXCEPT !.reads = FALSE] \in [at : Nat, reads : BOOLEAN]
    BY <1>3
  <2> QED
    BY <1>1, <2>1, <2>2
<1> QED
  BY <1>1, <1>2, <1>4, StillKeeps DEF RecordsInv, TypeOK, Lives, RunOk
-----------------------------------------------------------------------------
(* The specification.                                                      *)

\* A session being created: its history is empty, and its entry as a checkpoint that
\* was committed first, if any, makes it.
LEMMA InitKeeps ==
  ASSUME Init  PROVE  RecordsInv
<1>1. PICK t \in Clock, c \in Clock \cup {0} :
         /\ c # 0 => durable
         /\ mem = [entry |-> [status |-> "recovering", reason |-> FALSE, created |-> t,
                              updated |-> Later(t, c), rev |-> c # 0, ckAt |-> c,
                              snap |-> FALSE],
                   hist |-> NoHistory, msgs |-> NoMessages]
         /\ store = [at |-> c, reads |-> TRUE]
         /\ disk = IF c = 0 THEN NoFiles ELSE [NoFiles EXCEPT !.listed = TRUE, !.entry = mem.entry]
  BY DEF Init
<1>2. t \in Nat /\ c \in Nat /\ Later(t, c) \in Nat
  <2>1. t \in Nat
    BY ClockIs
  <2>2. c \in Nat
    BY ClockIs
  <2> QED
    BY <2>1, <2>2, LaterIs
<1>3. PICK b \in BOOLEAN : b = (c # 0)
  OBVIOUS
<1>4. PICK s : s = [status |-> "recovering", reason |-> FALSE, created |-> t,
                    updated |-> Later(t, c), rev |-> b, ckAt |-> c, snap |-> FALSE]
  OBVIOUS
<1>5. s \in Entries /\ EntryFit(s)
  <2>1. s \in Entries
    BY <1>2, <1>4 DEF Entries, Statuses
  <2>2. EntryFit(s)
    BY <1>1, <1>3, <1>4 DEF EntryFit, EntryOk
  <2> QED
    BY <2>1, <2>2
<1>6. mem = [entry |-> s, hist |-> NoHistory, msgs |-> NoMessages]
  BY <1>1, <1>3, <1>4
<1>7. /\ NoHistory \in [Execs -> Records] /\ NoMessages \in [Execs -> Messages]
      /\ Whole(NoHistory, NoMessages)
  BY ForgottenIs, MemoryIs
<1>8. mem \in Memories /\ mem.entry = s /\ mem.hist = NoHistory /\ mem.msgs = NoMessages
  BY <1>5, <1>6, <1>7 DEF Memories
<1>9. /\ disk \in [listed : BOOLEAN, entry : Entries, hist : [Execs -> Records],
                    msgs : [Execs -> Messages]]
      /\ EntryFit(disk.entry) /\ disk.hist = NoHistory /\ disk.msgs = NoMessages
  <2>1. CASE c = 0
    BY <1>1, <2>1, ForgottenIs
  <2>2. CASE c # 0
    <3>1. disk = [NoFiles EXCEPT !.listed = TRUE, !.entry = s]
      BY <1>1, <1>8, <2>2
    <3>2. disk = [listed |-> TRUE, entry |-> s, hist |-> NoHistory, msgs |-> NoMessages]
      BY <3>1 DEF NoFiles
    <3> QED
      BY <1>5, <1>7, <3>2
  <2> QED
    BY <2>1, <2>2
<1>10. TypeOK
  <2>1. /\ durable \in BOOLEAN /\ live = "starting" /\ active = None /\ writing = FALSE /\ late = {}
        /\ up = TRUE /\ gone = FALSE /\ spoiled = FALSE /\ refused = {} /\ harms = 0
    BY DEF Init
  <2>2. store \in [at : Nat, reads : BOOLEAN]
    BY <1>1, <1>2
  <2>3. /\ live \in {"none", "starting", "up", "killed", "closing"}
        /\ active \in {None} \cup Execs /\ writing \in BOOLEAN /\ late \subseteq Execs
    BY <2>1
  <2>4. up \in BOOLEAN /\ gone \in BOOLEAN /\ spoiled \in BOOLEAN /\ refused \subseteq Turns
    BY <2>1
  <2>5. harms \in 0..MaxHarms
    <3>1. harms = 0 /\ MaxHarms \in Nat
      BY <2>1, BoundAssumption
    <3> QED
      BY <3>1
  <2> QED
    BY <1>8, <1>9, <2>1, <2>2, <2>3, <2>4, <2>5 DEF TypeOK
<1>11. MemOk
  BY <1>5, <1>7, <1>8 DEF MemOk, EntryFit, Whole
<1>12. DiskOk
  BY <1>7, <1>9 DEF DiskOk
<1>13. RunOk /\ StoresTakeAll
  BY DEF Init, RunOk, StoresTakeAll
<1> QED
  BY <1>10, <1>11, <1>12, <1>13 DEF RecordsInv

LEMMA StepKeeps ==
  ASSUME RecordsInv, Next  PROVE  RecordsInv' /\ FinalStep
<1>1. CASE Recover \/ Back \/ BackFails \/ CreateFails \/ Recycle \/ Reset \/ Quarantine \/ Touch
  BY <1>1, RecoverKeeps, BackKeeps, BackFailsKeeps, CreateFailsKeeps, RecycleKeeps, ResetKeeps,
     QuarantineKeeps, TouchKeeps
<1>2. CASE Submit \/ Start \/ Submitted \/ StartFails \/ LateFails \/ Says
  BY <1>2, SubmitKeeps, StartKeeps, SubmittedKeeps, StartFailsKeeps, LateFailsKeeps, SaysKeeps
<1>3. CASE End \/ EndCommits \/ EndFails \/ Contain \/ MemoryKill
  BY <1>3, EndKeeps, EndCommitsKeeps, EndFailsKeeps, ContainKeeps, MemoryKillKeeps
<1>4. CASE CloseStarts \/ CloseEnds \/ Shutdown \/ Crash \/ Load \/ Harm
  BY <1>4, CloseStartsKeeps, CloseEndsKeeps, ShutdownKeeps, CrashKeeps, LoadKeeps, HarmKeeps
<1> QED
  BY <1>1, <1>2, <1>3, <1>4 DEF Next

LEMMA StutterKeeps ==
  ASSUME RecordsInv, UNCHANGED vars  PROVE  RecordsInv'
<1>1. UNCHANGED <<mem, durable, live, active, writing, late, store, disk, up, gone, spoiled, refused, harms>>
  BY DEF vars
<1>2. TypeOK' /\ RunOk' /\ StoresTakeAll'
  BY <1>1 DEF RecordsInv, TypeOK, RunOk, StoresTakeAll
<1>3. MemOk'
  BY <1>1 DEF MemOk, RecordsInv, EntryOk, Shaped, HistoryTaken
<1>4. DiskOk'
  BY <1>1 DEF DiskOk, RecordsInv, EntryFit, EntryOk, Whole, Shaped, HistoryTaken
<1> QED
  BY <1>2, <1>3, <1>4 DEF RecordsInv

\* The invariant: what is in memory and on disk is what the schemas take, and the
\* session's status is as its runtime.
THEOREM RecordsAlways == Spec => []RecordsInv
<1>1. RecordsInv /\ [Next]_vars => RecordsInv'
  BY StepKeeps, StutterKeeps
<1> QED
  BY <1>1, InitKeeps, PTL DEF Spec

\* A session's entry, its history, its checkpoint and its runtime are of their types,
\* in memory and on disk.
THEOREM RecordsTypeCorrect == Spec => []TypeOK
<1>1. RecordsInv => TypeOK
  BY DEF RecordsInv
<1> QED
  BY <1>1, RecordsAlways, PTL

\* The schemas take all that the session manager writes, and all that a start writes of
\* what it read, but for the tombstone of a quarantined session and the failure of a
\* write that outlived its exec: however the clock is set, wherever the server dies, and
\* whatever becomes of the checkpoint.
THEOREM StoresTake == Spec => []StoresTakeAll
<1>1. RecordsInv => StoresTakeAll
  BY DEF RecordsInv
<1> QED
  BY <1>1, RecordsAlways, PTL

\* What a client read of an exec that ended is what it is told from then on, and what
\* it read of one that runs is a beginning of it.
THEOREM EndedStays == Spec => EndedIsFinal
<1>1. RecordsInv /\ [Next]_vars =>
        [up /\ up' /\ ~gone' /\ ~spoiled' =>
         \A e \in Execs :
            /\ IsPrefix(mem.msgs[e], mem'.msgs[e])
            /\ mem.hist[e].status \in Ends =>
                 mem'.hist[e] = mem.hist[e] /\ mem'.msgs[e] = mem.msgs[e]]_vars
  BY StepKeeps DEF FinalStep
<1> QED
  BY <1>1, RecordsAlways, PTL DEF Spec, EndedIsFinal

=============================================================================
