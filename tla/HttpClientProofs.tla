--------------------------- MODULE HttpClientProofs ---------------------------
(***************************************************************************)
(* Proofs about HttpClient, for any resources and any number of requests,  *)
(* changes and saves.                                                      *)
(***************************************************************************)
EXTENDS HttpClient, TLAPS

\* The session that is there is open, and once it is closed nothing of it is left
\* to lapse, or to be answered.
ClosedInv ==
    /\ known => mcp = "open"
    /\ mcp = "closed" => ~out /\ \A t \in Timers : timers[t] = "off"
    /\ closedBy = "silence" => mcp = "closed" /\ ~inTime

\* A ping is out as long as its answer is timed.  One answered in time has its
\* answer still on its way, and as its time lapses that came first.
PingInv ==
    /\ out <=> timers["answer"] # "off"
    /\ inTime /\ out => mine /\ at["answer"] \in {"came", "gate"}
    /\ inTime /\ timers["answer"] = "due" => saved \/ "answer" \in owed
    /\ "answer" \notin open

\* An idle timeout runs while nothing holds the session, and has since it was armed.
IdleInv == timers["idle"] # "off" => open = {} /\ rested

\* What is not told is pending, or in the batch the drain sends once the list's
\* change is told.
UpdateInv ==
    /\ untold \subseteq pending \cup (IF drain = "list" THEN batch ELSE {})
    /\ drain = "off" => pending = {}

\* A session yet to begin has nothing but the request that begins it.
BegunInv ==
    /\ at["begin"] \in {"came", "dialled", "gate", "body"} => mcp = "none"
    /\ mcp = "none" => /\ \A k \in Kinds : k # "begin" => at[k] = "none"
                       /\ open = {} /\ ~out /\ \A t \in Timers : timers[t] = "off"

TimerInv == ClosedInv /\ PingInv /\ IdleInv
ClientInv == TypeOK /\ TimerInv /\ BegunInv /\ UpdateInv

States == {"off", "armed", "due", "waits"}

LEMMA TimersNamed ==
  /\ "idle" \in Timers /\ "ping" \in Timers /\ "answer" \in Timers
  /\ "answer" \in Kinds /\ "answer" \notin Streams /\ "call" \in Kinds /\ "stream" \in Kinds
  /\ "begin" \in Kinds /\ "delete" \in Kinds /\ Streams \subseteq Kinds /\ "begin" \notin Streams
BY DEF Timers, Kinds, Streams, Posts

\* What the handlers make of the timers.
LEMMA ArmedIdleIs ==
  ASSUME NEW ts \in [Timers -> States], NEW opened
  PROVE  /\ ArmedIdle(ts, opened) \in [Timers -> States]
         /\ \A t \in Timers : t # "idle" => ArmedIdle(ts, opened)[t] = ts[t]
         /\ ArmedIdle(ts, opened)["idle"] # "off" =>
               (opened = {} /\ ~Cleaned) \/ ts["idle"] # "off"
         /\ Cleaned => ArmedIdle(ts, opened) = ts
BY TimersNamed DEF ArmedIdle, States

LEMMA PingLaterIs ==
  ASSUME NEW ts \in [Timers -> States], NEW opened, NEW pinged
  PROVE  /\ PingLater(ts, opened, pinged) \in [Timers -> States]
         /\ \A t \in Timers : t # "ping" => PingLater(ts, opened, pinged)[t] = ts[t]
         /\ Cleaned => PingLater(ts, opened, pinged) = ts
BY TimersNamed DEF PingLater, States

LEMMA TrackedIs ==
  ASSUME NEW ts \in [Timers -> States]
  PROVE  /\ Tracked(ts) \in [Timers -> States] /\ Tracked(ts)["idle"] = "off"
         /\ \A t \in Timers : t # "idle" => Tracked(ts)[t] = ts[t]
BY TimersNamed DEF Tracked, States

LEMMA RearmedIs ==
  ASSUME NEW ts \in [Timers -> States]
  PROVE  /\ Rearmed(ts) \in [Timers -> States]
         /\ \A t \in Timers : /\ Rearmed(ts)[t] = "off" <=> ts[t] = "off"
                              /\ ts[t] # "due" => Rearmed(ts)[t] # "due"
BY DEF Rearmed, States

\* What a tracked response's end does to the timers, and to the ping that is out.
TimersTyped == timers \in [Timers -> States] /\ open \subseteq Kinds /\ out \in BOOLEAN

LEMMA EndedKeeps ==
  ASSUME TimersTyped, TimerInv, NEW k \in Kinds, ResponseEnded(k),
         UNCHANGED <<known, mcp, closedBy, saved, owed>>, at'["answer"] = at["answer"]
  PROVE  /\ timers' \in [Timers -> States] /\ open' \subseteq Kinds /\ out' \in BOOLEAN
         /\ rested \in BOOLEAN => rested' \in BOOLEAN
         /\ mine \in BOOLEAN => mine' \in BOOLEAN
         /\ inTime \in BOOLEAN => inTime' \in BOOLEAN
         /\ TimerInv'
<1> DEFINE left == open \ {k}
           unpinged == Unpinged(left)
           ts == IF k \in Streams THEN Voided(left) ELSE timers
<1>1. /\ open' = left /\ timers' = ArmedIdle(ts, left)
      /\ rested' = (rested \/ (left = {} /\ ~Cleaned))
      /\ IF k \in Streams THEN out' = FALSE /\ mine' = FALSE /\ inTime' = FALSE
         ELSE UNCHANGED <<out, mine, inTime>>
  BY DEF ResponseEnded, pingVars
<1>2. /\ unpinged \in [Timers -> States] /\ unpinged["idle"] = timers["idle"]
      /\ unpinged["answer"] = "off"
      /\ Cleaned => unpinged = timers
  <2>1. /\ unpinged \in [Timers -> States] /\ unpinged["idle"] = timers["idle"]
        /\ unpinged["answer"] = IF out THEN "off" ELSE timers["answer"]
    BY TimersNamed DEF Unpinged, TimersTyped, States
  <2>2. unpinged["answer"] = "off"
    BY <2>1 DEF TimerInv, PingInv
  <2>3. Cleaned => unpinged = timers
    <3>1. SUFFICES ASSUME Cleaned
                   PROVE  \A t \in Timers : unpinged[t] = timers[t]
      BY <2>1 DEF TimersTyped
    <3>2. \A t \in Timers : timers[t] = "off"
      BY <3>1 DEF TimerInv, ClosedInv, Cleaned
    <3> QED BY <3>2, TimersNamed DEF Unpinged, TimersTyped
  <2> QED BY <2>1, <2>2, <2>3
<1> HIDE DEF unpinged
<1>3. /\ ts \in [Timers -> States] /\ ts["idle"] = timers["idle"]
      /\ ts["answer"] = IF k \in Streams THEN "off" ELSE timers["answer"]
      /\ Cleaned => ts = timers
  <2>1. CASE k \in Streams
    <3>1. ts = PingLater(unpinged, left, FALSE)
      BY <2>1 DEF Voided, unpinged
    <3>2. /\ PingLater(unpinged, left, FALSE) \in [Timers -> States]
          /\ \A t \in Timers : t # "ping" => PingLater(unpinged, left, FALSE)[t] = unpinged[t]
          /\ Cleaned => PingLater(unpinged, left, FALSE) = unpinged
      BY <1>2, PingLaterIs
    <3> QED BY <1>2, <2>1, <3>1, <3>2, TimersNamed
  <2>2. CASE k \notin Streams
    BY <2>2 DEF TimersTyped
  <2> QED BY <2>1, <2>2
<1> HIDE DEF ts
<1> HIDE DEF left
<1>4. /\ timers' \in [Timers -> States] /\ timers'["answer"] = ts["answer"]
      /\ timers'["idle"] # "off" => (left = {} /\ ~Cleaned) \/ ts["idle"] # "off"
      /\ Cleaned => timers' = timers
  BY <1>1, <1>3, ArmedIdleIs, TimersNamed
<1> USE DEF left
<1>5. ClosedInv'
  BY <1>1, <1>4 DEF TimerInv, ClosedInv, Cleaned
<1>6. PingInv'
  <2>1. CASE k \in Streams
    BY <1>1, <1>3, <1>4, <2>1 DEF TimerInv, PingInv
  <2>2. CASE k \notin Streams
    BY <1>1, <1>3, <1>4, <2>2 DEF TimerInv, PingInv
  <2> QED BY <2>1, <2>2
<1>7. IdleInv'
  BY <1>1, <1>3, <1>4 DEF TimerInv, IdleInv
<1> QED BY <1>1, <1>4, <1>5, <1>6, <1>7 DEF TimersTyped, TimerInv

\* A session that is closed, for whatever reason but its client's silence or for that
\* of one that answered no ping in time.
LEMMA ClosesKeeps ==
  ASSUME TimersTyped, TimerInv, NEW by \in {"client", "idle", "silence", "stop"}, Closes(by),
         by = "silence" => ~inTime, UNCHANGED saved, open' \subseteq open
  PROVE  /\ timers' \in [Timers -> States] /\ mcp' = "closed" /\ known' = FALSE
         /\ out' = FALSE /\ mine' = FALSE /\ inTime' = inTime /\ rested' = rested /\ owed' = owed
         /\ closedBy' = by
         /\ TimerInv'
<1>1. /\ mcp' = "closed" /\ known' = FALSE /\ timers' = [t \in Timers |-> "off"]
      /\ out' = FALSE /\ mine' = FALSE /\ closedBy' = by
      /\ UNCHANGED <<inTime, rested, owed>>
  BY DEF Closes
<1>2. timers' \in [Timers -> States] /\ \A t \in Timers : timers'[t] = "off"
  BY <1>1 DEF States
<1> QED BY <1>1, <1>2, TimersNamed DEF TimerInv, ClosedInv, PingInv, IdleInv

LEMMA Typed ==
  ASSUME ClientInv
  PROVE  /\ TypeOK /\ TimersTyped /\ TimerInv /\ BegunInv /\ UpdateInv
         /\ at \in [Kinds -> {"none", "came", "dialled", "gate", "body", "served"}]
         /\ timers \in [Timers -> States] /\ open \subseteq Kinds /\ owed \subseteq Kinds
         /\ out \in BOOLEAN /\ mine \in BOOLEAN /\ inTime \in BOOLEAN /\ rested \in BOOLEAN
BY DEF ClientInv, TypeOK, TimersTyped, States

\* A step that leaves the updates, and the counts but the requests', alone.
Elsewhere == UNCHANGED <<updateVars, changes, saves>>

LEMMA ElsewhereKeeps ==
  ASSUME ClientInv, Elsewhere,
         UNCHANGED <<up, lets>> \/ (up' \in {"serving", "stopping", "stopped"} /\ lets' \in BOOLEAN),
         saved' \in BOOLEAN, mcp' \in {"none", "opening", "open", "failed", "closed"},
         known' \in BOOLEAN,
         at' \in [Kinds -> {"none", "came", "dialled", "gate", "body", "served"}],
         open' \subseteq Kinds, timers' \in [Timers -> States], owed' \subseteq Kinds,
         out' \in BOOLEAN, mine' \in BOOLEAN, inTime' \in BOOLEAN, rested' \in BOOLEAN,
         closedBy' \in {"nothing", "client", "idle", "silence", "stop"},
         asked' \in 0..MaxAsks, TimerInv', BegunInv'
  PROVE  ClientInv'
<1>1. TypeOK /\ UpdateInv
  BY DEF ClientInv
<1>2. UpdateInv'
  BY <1>1 DEF Elsewhere, updateVars, UpdateInv
<1>3. TypeOK'
  BY <1>1 DEF TypeOK, Elsewhere, updateVars, States
<1> QED BY <1>2, <1>3 DEF ClientInv

LEMMA SendsKeeps ==
  ASSUME ClientInv, NEW k \in Kinds, Sends(k)
  PROVE  ClientInv'
<1>1. /\ TypeOK /\ TimerInv /\ BegunInv
      /\ at \in [Kinds -> {"none", "came", "dialled", "gate", "body", "served"}]
      /\ inTime \in BOOLEAN /\ mine \in BOOLEAN
  BY Typed
<1>2. PICK how \in {"came", "dialled"} :
          /\ at' = [at EXCEPT ![k] = how]
          /\ inTime' = (inTime \/ (k = "answer" /\ how = "came"
                                     /\ timers["answer"] \in {"armed", "waits"}))
  BY DEF Sends
<1>3. /\ at[k] = "none" /\ InMind(k) /\ mine' = (mine \/ k = "answer")
      /\ asked < MaxAsks /\ asked' = asked + 1
      /\ UNCHANGED <<up, saved, lets, mcp, known, open, timers, owed, rested, out, closedBy>>
      /\ Elsewhere
  BY DEF Sends, serverVars, timerVars, Elsewhere
<1>4. /\ at' \in [Kinds -> {"none", "came", "dialled", "gate", "body", "served"}]
      /\ inTime' \in BOOLEAN /\ mine' \in BOOLEAN /\ asked' \in 0..MaxAsks
      /\ \A j \in Kinds : at'[j] = IF j = k THEN how ELSE at[j]
  BY <1>1, <1>2, <1>3, BoundAssumption DEF TypeOK
<1>5. TimerInv'
  <2>1. CASE k = "answer"
    <3>1. out /\ ~mine /\ ~inTime /\ mcp # "none"
      BY <1>1, <1>3, <2>1 DEF InMind, Knows, TimerInv, PingInv
    <3>2. mcp # "closed" /\ closedBy # "silence"
      BY <1>1, <3>1 DEF TimerInv, ClosedInv
    <3>3. inTime' => how = "came" /\ timers["answer"] \in {"armed", "waits"}
      BY <1>2, <3>1
    <3> QED BY <1>1, <1>3, <1>4, <2>1, <3>2, <3>3, TimersNamed
            DEF TimerInv, ClosedInv, PingInv, IdleInv
  <2>2. CASE k # "answer"
    BY <1>1, <1>2, <1>3, <1>4, <2>2, TimersNamed DEF TimerInv, ClosedInv, PingInv, IdleInv
  <2> QED BY <2>1, <2>2
<1>6. BegunInv'
  <2>1. mcp = "none" => k = "begin"
    BY <1>1, <1>3 DEF InMind, Knows, Kinds, Streams, Posts
  <2>2. k = "begin" => mcp = "none"
    BY <1>3 DEF InMind
  <2> QED BY <1>1, <1>3, <1>4, <2>1, <2>2, TimersNamed DEF BegunInv
<1> QED BY <1>1, <1>3, <1>4, <1>5, <1>6, ElsewhereKeeps DEF TypeOK, States

\* A response that ends, of a request that is not the session's beginning unless that
\* has been.
LEMMA ResponsesKeep ==
  ASSUME ClientInv, NEW k \in Kinds, k \in open, k # "answer", ResponseEnded(k),
         NEW place \in {"none"}, at' = [at EXCEPT ![k] = place],
         UNCHANGED <<up, saved, lets, mcp, known, owed, closedBy>>, Elsewhere,
         asked' \in 0..MaxAsks
  PROVE  ClientInv'
<1>1. /\ TypeOK /\ TimersTyped /\ TimerInv /\ BegunInv
      /\ at \in [Kinds -> {"none", "came", "dialled", "gate", "body", "served"}]
      /\ inTime \in BOOLEAN /\ mine \in BOOLEAN /\ rested \in BOOLEAN
  BY Typed
<1>2. /\ at' \in [Kinds -> {"none", "came", "dialled", "gate", "body", "served"}]
      /\ \A j \in Kinds : at'[j] = IF j = k THEN "none" ELSE at[j]
  BY <1>1
<1>3. /\ timers' \in [Timers -> States] /\ open' \subseteq Kinds /\ out' \in BOOLEAN
      /\ rested' \in BOOLEAN /\ mine' \in BOOLEAN /\ inTime' \in BOOLEAN /\ TimerInv'
  BY <1>1, <1>2, EndedKeeps, TimersNamed
<1>4. BegunInv'
  BY <1>1, <1>2, TimersNamed DEF BegunInv
<1> QED BY <1>1, <1>2, <1>3, <1>4, ElsewhereKeeps DEF TypeOK

LEMMA DropsKeeps ==
  ASSUME ClientInv, Drops
  PROVE  ClientInv'
<1>1. /\ "stream" \in open /\ at' = [at EXCEPT !["stream"] = "none"] /\ ResponseEnded("stream")
      /\ asked < MaxAsks /\ asked' = asked + 1
      /\ UNCHANGED <<up, saved, lets, mcp, known, owed, closedBy>> /\ Elsewhere
  BY DEF Drops, serverVars, Elsewhere
<1>2. asked' \in 0..MaxAsks
  BY <1>1, Typed, BoundAssumption DEF TypeOK
<1> QED BY <1>1, <1>2, ResponsesKeep, TimersNamed

LEMMA ResponseEndsKeeps ==
  ASSUME ClientInv, NEW k \in Kinds, ResponseEnds(k)
  PROVE  ClientInv'
<1>1. /\ k \in open /\ at' = [at EXCEPT ![k] = "none"] /\ ResponseEnded(k) /\ at[k] = "served"
      /\ UNCHANGED <<up, saved, lets, mcp, known, owed, closedBy, asked>> /\ Elsewhere
  BY DEF ResponseEnds, serverVars, countVars, Elsewhere
<1>2. asked' \in 0..MaxAsks
  BY <1>1, Typed DEF TypeOK
<1>3. k # "answer"
  BY <1>1, Typed DEF TimerInv, PingInv
<1> QED BY <1>1, <1>2, <1>3, ResponsesKeep

\* A request on its way in: nothing but its place changes, and what was owed of it.
LEMMA GoesIs ==
  ASSUME ClientInv, NEW k \in Kinds, NEW place \in {"none", "gate", "body", "served"},
         Goes(k, place)
  PROVE  /\ at' \in [Kinds -> {"none", "came", "dialled", "gate", "body", "served"}]
         /\ \A j \in Kinds : at'[j] = IF j = k THEN place ELSE at[j]
         /\ owed' = owed \ {k} /\ owed' \subseteq Kinds
BY Typed DEF Goes

LEMMA WaitsKeeps ==
  ASSUME ClientInv, NEW k \in Kinds, Waits(k)
  PROVE  ClientInv'
<1>1. /\ Goes(k, "gate") /\ at[k] \in {"came", "dialled"} /\ saved
      /\ UNCHANGED <<up, saved, lets, mcp, known, open, timers, rested, out, mine, inTime, closedBy, asked>>
      /\ Elsewhere
  BY DEF Waits, serverVars, pingVars, countVars, Elsewhere, Arrived
<1>2. /\ TypeOK /\ TimerInv /\ BegunInv
  BY Typed
<1>3. /\ at' \in [Kinds -> {"none", "came", "dialled", "gate", "body", "served"}]
      /\ \A j \in Kinds : at'[j] = IF j = k THEN "gate" ELSE at[j]
      /\ owed' \subseteq Kinds
  BY <1>1, GoesIs
<1>4. TimerInv'
  BY <1>1, <1>2, <1>3, TimersNamed DEF TimerInv, ClosedInv, PingInv, IdleInv
<1>5. BegunInv'
  BY <1>1, <1>2, <1>3, TimersNamed DEF BegunInv
<1> QED BY <1>1, <1>2, <1>3, <1>4, <1>5, ElsewhereKeeps DEF TypeOK, States

LEMMA RefusedKeeps ==
  ASSUME ClientInv, NEW k \in Kinds, Refused(k)
  PROVE  ClientInv'
<1>1. /\ Goes(k, "none") /\ at[k] \in {"came", "dialled", "gate"}
      /\ IF k = "answer" THEN mine' = FALSE /\ inTime' = FALSE ELSE UNCHANGED <<mine, inTime>>
      /\ UNCHANGED <<up, saved, lets, mcp, known, open, timers, rested, out, closedBy, asked>>
      /\ Elsewhere
  BY DEF Refused, serverVars, countVars, Elsewhere, Arrived
<1>2. /\ TypeOK /\ TimerInv /\ BegunInv /\ inTime \in BOOLEAN /\ mine \in BOOLEAN
  BY Typed
<1>3. /\ at' \in [Kinds -> {"none", "came", "dialled", "gate", "body", "served"}]
      /\ \A j \in Kinds : at'[j] = IF j = k THEN "none" ELSE at[j]
      /\ owed' = owed \ {k} /\ owed' \subseteq Kinds
  BY <1>1, GoesIs
<1>4. TimerInv'
  <2>1. CASE k = "answer"
    BY <1>1, <1>2, <1>3, <2>1 DEF TimerInv, ClosedInv, PingInv, IdleInv
  <2>2. CASE k # "answer"
    BY <1>1, <1>2, <1>3, <2>2, TimersNamed DEF TimerInv, ClosedInv, PingInv, IdleInv
  <2> QED BY <2>1, <2>2
<1>5. BegunInv'
  BY <1>1, <1>2, <1>3, TimersNamed DEF BegunInv
<1>6. mine' \in BOOLEAN /\ inTime' \in BOOLEAN
  BY <1>1, <1>2
<1> QED BY <1>1, <1>2, <1>3, <1>4, <1>5, <1>6, ElsewhereKeeps DEF TypeOK, States

\* A request let in that holds its session, where it is there.
LEMMA HoldsKeeps ==
  ASSUME ClientInv, NEW k \in Kinds \ {"begin", "answer"}, NEW place \in {"none", "body", "served"},
         Goes(k, place), at[k] # "none", NEW ts \in [Timers -> States],
         ts["answer"] = timers["answer"], ts["idle"] = "off" \/ ts = timers,
         \/ known /\ open' = open \cup {k} /\ timers' = ts /\ rested' = FALSE /\ ts["idle"] = "off"
         \/ UNCHANGED <<open, timers, rested>>,
         UNCHANGED <<up, saved, lets, mcp, known, out, mine, inTime, closedBy, asked>>, Elsewhere
  PROVE  ClientInv'
<1>1. /\ TypeOK /\ TimerInv /\ BegunInv /\ rested \in BOOLEAN /\ open \subseteq Kinds
      /\ timers \in [Timers -> States]
  BY Typed
<1>2. /\ at' \in [Kinds -> {"none", "came", "dialled", "gate", "body", "served"}]
      /\ \A j \in Kinds : at'[j] = IF j = k THEN place ELSE at[j]
      /\ owed' = owed \ {k} /\ owed' \subseteq Kinds
  BY GoesIs
<1>3. mcp # "none"
  BY <1>1 DEF BegunInv
<1>4. timers' \in [Timers -> States] /\ open' \subseteq Kinds /\ rested' \in BOOLEAN
  BY <1>1
<1>5. TimerInv'
  <2>1. CASE UNCHANGED <<open, timers, rested>>
    BY <1>1, <1>2, <2>1, TimersNamed DEF TimerInv, ClosedInv, PingInv, IdleInv
  <2>2. CASE known /\ open' = open \cup {k} /\ timers' = ts /\ rested' = FALSE /\ ts["idle"] = "off"
    <3>1. mcp # "closed"
      BY <1>1, <2>2 DEF TimerInv, ClosedInv
    <3> QED BY <1>1, <1>2, <2>2, <3>1, TimersNamed DEF TimerInv, ClosedInv, PingInv, IdleInv
  <2> QED BY <2>1, <2>2
<1>6. BegunInv'
  BY <1>1, <1>2, <1>3, TimersNamed DEF BegunInv
<1> QED BY <1>1, <1>2, <1>4, <1>5, <1>6, ElsewhereKeeps DEF TypeOK

LEMMA PostedKeeps ==
  ASSUME ClientInv, Posted
  PROVE  ClientInv'
<1>1. PICK ts : ts = Tracked(timers)
  OBVIOUS
<1>2. ts \in [Timers -> States] /\ ts["answer"] = timers["answer"] /\ ts["idle"] = "off"
  BY <1>1, Typed, TrackedIs, TimersNamed
<1>3. /\ Goes("call", "body") /\ at["call"] # "none"
      /\ \/ known /\ open' = open \cup {"call"} /\ timers' = ts /\ rested' = FALSE
         \/ UNCHANGED <<open, timers, rested>>
      /\ UNCHANGED <<up, saved, lets, mcp, known, out, mine, inTime, closedBy, asked>> /\ Elsewhere
  BY <1>1 DEF Posted, LetIn, Arrived, serverVars, pingVars, countVars, Elsewhere
<1>4. "call" \in Kinds \ {"begin", "answer"}
  BY DEF Kinds, Posts
<1> QED BY <1>2, <1>3, <1>4, HoldsKeeps

LEMMA GotKeeps ==
  ASSUME ClientInv, NEW k \in Kinds, Got(k)
  PROVE  ClientInv'
<1>1. PICK ts : ts = IF k \in Streams THEN PingLater(Tracked(timers), open \cup {k}, out)
                     ELSE Tracked(timers)
  OBVIOUS
<1>2. ts \in [Timers -> States] /\ ts["answer"] = timers["answer"] /\ ts["idle"] = "off"
  <2>1. PICK u : u = Tracked(timers)
    OBVIOUS
  <2>2. u \in [Timers -> States] /\ u["answer"] = timers["answer"] /\ u["idle"] = "off"
    BY <2>1, Typed, TrackedIs, TimersNamed
  <2>3. /\ PingLater(u, open \cup {k}, out) \in [Timers -> States]
        /\ \A t \in Timers : t # "ping" => PingLater(u, open \cup {k}, out)[t] = u[t]
    BY <2>2, PingLaterIs
  <2> QED BY <1>1, <2>1, <2>2, <2>3, TimersNamed
<1>3. /\ \E place \in {"none", "served"} : Goes(k, place)
      /\ at[k] # "none" /\ k \in Streams \cup {"delete"}
      /\ \/ known /\ open' = open \cup {k} /\ timers' = ts /\ rested' = FALSE
         \/ UNCHANGED <<open, timers, rested>>
      /\ UNCHANGED <<up, saved, lets, mcp, known, out, mine, inTime, closedBy, asked>> /\ Elsewhere
  BY <1>1 DEF Got, LetIn, Arrived, serverVars, pingVars, countVars, Elsewhere
<1>4. k \in Kinds \ {"begin", "answer"}
  BY <1>3, TimersNamed
<1> QED BY <1>2, <1>3, <1>4, HoldsKeeps

LEMMA BodyReadKeeps ==
  ASSUME ClientInv, BodyRead
  PROVE  ClientInv'
<1>1. /\ TypeOK /\ TimerInv /\ BegunInv
      /\ at \in [Kinds -> {"none", "came", "dialled", "gate", "body", "served"}]
  BY Typed
<1>2. /\ at["call"] = "body"
      /\ UNCHANGED <<up, saved, lets, mcp, known, owed, closedBy, asked>> /\ Elsewhere
      /\ asked' \in 0..MaxAsks
  BY <1>1 DEF BodyRead, serverVars, countVars, Elsewhere, TypeOK
<1>3. CASE "call" \in open /\ ResponseEnded("call") /\ at' = [at EXCEPT !["call"] = "none"]
  <2>1. "call" # "answer" /\ "call" \in Kinds
    BY TimersNamed
  <2> QED BY <1>2, <1>3, <2>1, ResponsesKeep
<1>4. CASE /\ UNCHANGED <<open, timers, rested, out, mine, inTime>>
           /\ \E place \in {"none", "served"} : at' = [at EXCEPT !["call"] = place]
  <2>1. PICK place \in {"none", "served"} : at' = [at EXCEPT !["call"] = place]
    BY <1>4
  <2>2. /\ at' \in [Kinds -> {"none", "came", "dialled", "gate", "body", "served"}]
        /\ \A j \in Kinds : at'[j] = IF j = "call" THEN place ELSE at[j]
    BY <1>1, <2>1
  <2>3. TimerInv'
    BY <1>1, <1>2, <1>4, <2>2, TimersNamed DEF TimerInv, ClosedInv, PingInv, IdleInv
  <2>4. BegunInv'
    BY <1>1, <1>2, <1>4, <2>2, TimersNamed DEF BegunInv
  <2> QED BY <1>1, <1>2, <1>4, <2>2, <2>3, <2>4, ElsewhereKeeps DEF TypeOK, States
<1> QED BY <1>3, <1>4 DEF BodyRead, pingVars

\* An answer let in: the ping it is to is answered, and one given up on is not.
LEMMA AnsweredKeeps ==
  ASSUME ClientInv, Answered
  PROVE  ClientInv'
<1> DEFINE answered == out /\ mine
<1>1. /\ TypeOK /\ TimerInv /\ BegunInv /\ timers \in [Timers -> States]
      /\ out \in BOOLEAN /\ mine \in BOOLEAN /\ rested \in BOOLEAN /\ inTime \in BOOLEAN
  BY Typed
<1>2. PICK unpinged : unpinged = IF answered THEN [timers EXCEPT !["answer"] = "off"] ELSE timers
  OBVIOUS
<1>3. PICK held : held = IF known THEN ArmedIdle(Tracked(unpinged), open) ELSE unpinged
  OBVIOUS
<1>4. /\ Goes("answer", "none") /\ at["answer"] # "none"
      /\ out' = (out /\ ~answered)
      /\ timers' = IF answered THEN PingLater(held, open, FALSE) ELSE held
      /\ rested' = IF known THEN open = {} ELSE rested
      /\ mine' = FALSE
      /\ UNCHANGED <<up, saved, lets, mcp, known, open, inTime, closedBy, asked>> /\ Elsewhere
  BY <1>2, <1>3 DEF Answered, LetIn, Arrived, serverVars, countVars, Elsewhere
<1>5. /\ unpinged \in [Timers -> States] /\ unpinged["idle"] = timers["idle"]
      /\ unpinged["answer"] = IF answered THEN "off" ELSE timers["answer"]
      /\ ~answered => unpinged = timers
  BY <1>1, <1>2, TimersNamed DEF States
<1>6. /\ held \in [Timers -> States] /\ held["answer"] = unpinged["answer"]
      /\ held["idle"] # "off" => IF known THEN open = {} ELSE timers["idle"] # "off"
      /\ ~known => held = unpinged
  <2>1. CASE known
    <3>1. PICK u : u = Tracked(unpinged)
      OBVIOUS
    <3>2. u \in [Timers -> States] /\ u["answer"] = unpinged["answer"] /\ u["idle"] = "off"
      BY <1>5, <3>1, TrackedIs, TimersNamed
    <3>3. /\ ArmedIdle(u, open) \in [Timers -> States]
          /\ ArmedIdle(u, open)["answer"] = u["answer"]
          /\ ArmedIdle(u, open)["idle"] # "off" => open = {} \/ u["idle"] # "off"
      BY <3>2, ArmedIdleIs, TimersNamed
    <3> QED BY <1>3, <2>1, <3>1, <3>2, <3>3
  <2>2. CASE ~known
    BY <1>3, <1>5, <2>2
  <2> QED BY <2>1, <2>2
<1>7. /\ timers' \in [Timers -> States] /\ timers'["answer"] = unpinged["answer"]
      /\ timers'["idle"] = held["idle"]
      /\ ~answered => timers' = held
  <2>1. /\ PingLater(held, open, FALSE) \in [Timers -> States]
        /\ \A t \in Timers : t # "ping" => PingLater(held, open, FALSE)[t] = held[t]
    <3>1. held \in [Timers -> States]
      BY <1>6
    <3> QED BY <3>1, PingLaterIs, Zenon
  <2> QED BY <1>4, <1>6, <2>1, TimersNamed
<1>8. /\ at' \in [Kinds -> {"none", "came", "dialled", "gate", "body", "served"}]
      /\ \A j \in Kinds : at'[j] = IF j = "answer" THEN "none" ELSE at[j]
      /\ owed' = owed \ {"answer"} /\ owed' \subseteq Kinds
  BY <1>4, GoesIs, TimersNamed
<1>9. ClosedInv'
  <2>1. mcp = "closed" => ~known /\ ~answered
    BY <1>1 DEF TimerInv, ClosedInv
  <2> QED BY <1>1, <1>4, <1>5, <1>6, <1>7, <2>1 DEF TimerInv, ClosedInv
<1>10. PingInv'
  <2>1. inTime => ~out'
    BY <1>1, <1>4 DEF TimerInv, PingInv
  <2>2. out' <=> timers'["answer"] # "off"
    BY <1>1, <1>4, <1>5, <1>7 DEF TimerInv, PingInv
  <2> QED BY <1>1, <1>4, <2>1, <2>2 DEF TimerInv, PingInv
<1>11. IdleInv'
  BY <1>1, <1>4, <1>6, <1>7 DEF TimerInv, IdleInv
<1>12. BegunInv'
  <2>1. mcp # "none"
    BY <1>1, <1>4, TimersNamed DEF BegunInv
  <2> QED BY <1>1, <1>4, <1>8, <2>1, TimersNamed DEF BegunInv
<1>13. out' \in BOOLEAN /\ mine' \in BOOLEAN /\ rested' \in BOOLEAN
  BY <1>1, <1>4
<1> QED BY <1>1, <1>4, <1>7, <1>8, <1>9, <1>10, <1>11, <1>12, <1>13, ElsewhereKeeps DEF TypeOK, TimerInv

LEMMA DeletedKeeps ==
  ASSUME ClientInv, Deleted
  PROVE  ClientInv'
<1>1. /\ TypeOK /\ TimersTyped /\ TimerInv /\ BegunInv /\ timers \in [Timers -> States]
      /\ at \in [Kinds -> {"none", "came", "dialled", "gate", "body", "served"}]
      /\ out \in BOOLEAN /\ mine \in BOOLEAN /\ rested \in BOOLEAN /\ inTime \in BOOLEAN
  BY Typed
<1>2. /\ at["delete"] = "served"
      /\ at' = [at EXCEPT !["delete"] = "none"] /\ open' = open \ {"delete"}
      /\ UNCHANGED <<up, saved, lets, asked>> /\ Elsewhere
  BY DEF Deleted, serverVars, countVars, Elsewhere
<1>3. /\ at' \in [Kinds -> {"none", "came", "dialled", "gate", "body", "served"}]
      /\ \A j \in Kinds : at'[j] = IF j = "delete" THEN "none" ELSE at[j]
      /\ open' \subseteq Kinds
  BY <1>1, <1>2, TimersNamed DEF TypeOK
<1>4. mcp # "none"
  BY <1>1, <1>2, TimersNamed DEF BegunInv
<1>5. CASE UNCHANGED <<mcp, known, timers, out, mine, closedBy, inTime, rested, owed>>
  <2>1. TimerInv'
    BY <1>1, <1>2, <1>3, <1>5, TimersNamed DEF TimerInv, ClosedInv, PingInv, IdleInv, Kinds
  <2>2. BegunInv'
    BY <1>1, <1>2, <1>3, <1>4, <1>5, TimersNamed DEF BegunInv
  <2> QED BY <1>1, <1>2, <1>3, <1>5, <2>1, <2>2, ElsewhereKeeps DEF TypeOK
<1>6. CASE Closes("client")
  <2>1. /\ timers' \in [Timers -> States] /\ mcp' = "closed" /\ known' = FALSE
        /\ out' = FALSE /\ mine' = FALSE /\ inTime' = inTime /\ rested' = rested /\ owed' = owed
        /\ closedBy' = "client" /\ TimerInv'
    <3>1. open' \subseteq open
      BY <1>2
    <3> QED BY <1>1, <1>2, <1>6, <3>1, ClosesKeeps
  <2>2. BegunInv'
    BY <1>1, <1>3, <1>4, <2>1, TimersNamed DEF BegunInv
  <2> QED BY <1>1, <1>2, <1>3, <2>1, <2>2, ElsewhereKeeps DEF TypeOK
<1> QED BY <1>5, <1>6 DEF Deleted

LEMMA BeginComesKeeps ==
  ASSUME ClientInv, BeginComes
  PROVE  ClientInv'
<1>1. /\ Goes("begin", "body") /\ at["begin"] \in {"came", "dialled", "gate"}
      /\ UNCHANGED <<up, saved, lets, mcp, known, open, timers, rested, out, mine, inTime, closedBy, asked>>
      /\ Elsewhere
  BY DEF BeginComes, LetIn, Arrived, serverVars, pingVars, countVars, Elsewhere
<1>2. /\ TypeOK /\ TimerInv /\ BegunInv
  BY Typed
<1>3. /\ at' \in [Kinds -> {"none", "came", "dialled", "gate", "body", "served"}]
      /\ \A j \in Kinds : at'[j] = IF j = "begin" THEN "body" ELSE at[j]
      /\ owed' = owed \ {"begin"} /\ owed' \subseteq Kinds
  BY <1>1, GoesIs, TimersNamed
<1>4. TimerInv'
  BY <1>1, <1>2, <1>3, TimersNamed DEF TimerInv, ClosedInv, PingInv, IdleInv
<1>5. BegunInv'
  BY <1>1, <1>2, <1>3, TimersNamed DEF BegunInv
<1> QED BY <1>1, <1>2, <1>3, <1>4, <1>5, ElsewhereKeeps DEF TypeOK, States

LEMMA BeginsKeeps ==
  ASSUME ClientInv, Begins
  PROVE  ClientInv'
<1>1. /\ TypeOK /\ TimerInv /\ BegunInv /\ timers \in [Timers -> States] /\ open \subseteq Kinds
      /\ at \in [Kinds -> {"none", "came", "dialled", "gate", "body", "served"}]
  BY Typed
<1>2. PICK ts : ts = Tracked(timers)
  OBVIOUS
<1>3. /\ ts \in [Timers -> States] /\ ts["answer"] = timers["answer"] /\ ts["idle"] = "off"
  BY <1>1, <1>2, TrackedIs, TimersNamed
<1>4. /\ at["begin"] = "body"
      /\ at' = [at EXCEPT !["begin"] = "served"] /\ mcp' = "opening"
      /\ open' = open \cup {"begin"} /\ timers' = ts /\ rested' = FALSE
      /\ UNCHANGED <<up, saved, lets, known, owed, out, mine, inTime, closedBy, asked>> /\ Elsewhere
  BY <1>2 DEF Begins, serverVars, pingVars, countVars, Elsewhere
<1>5. mcp = "none"
  BY <1>1, <1>4 DEF BegunInv
<1>6. /\ at' \in [Kinds -> {"none", "came", "dialled", "gate", "body", "served"}]
      /\ \A j \in Kinds : at'[j] = IF j = "begin" THEN "served" ELSE at[j]
  BY <1>1, <1>4
<1>7. TimerInv'
  BY <1>1, <1>3, <1>4, <1>5, <1>6, TimersNamed DEF TimerInv, ClosedInv, PingInv, IdleInv
<1>8. BegunInv'
  BY <1>4, <1>6, TimersNamed DEF BegunInv
<1> QED BY <1>1, <1>3, <1>4, <1>6, <1>7, <1>8, TimersNamed, ElsewhereKeeps DEF TypeOK

\* What follows an initialize request's handling: the session is there, or is not.
LEMMA BeganKeeps ==
  ASSUME ClientInv, Initialized \/ InitializeFails
  PROVE  ClientInv'
<1>1. /\ mcp = "opening"
      /\ \/ mcp' = "open" /\ known' = TRUE
         \/ mcp' = "failed" /\ UNCHANGED known
      /\ UNCHANGED <<up, saved, lets, at, open, timers, owed, rested, out, mine, inTime, closedBy, asked>>
      /\ Elsewhere
  BY DEF Initialized, InitializeFails, serverVars, timerVars, pingVars, countVars, Elsewhere
<1>2. /\ TypeOK /\ TimerInv /\ BegunInv
  BY Typed
<1>3. TimerInv'
  BY <1>1, <1>2 DEF TimerInv, ClosedInv, PingInv, IdleInv
<1>4. BegunInv'
  BY <1>1, <1>2 DEF BegunInv
<1> QED BY <1>1, <1>2, <1>3, <1>4, ElsewhereKeeps DEF TypeOK, States

LEMMA LapsesKeeps ==
  ASSUME ClientInv, NEW t \in Timers, Lapses(t)
  PROVE  ClientInv'
<1>1. /\ TypeOK /\ TimerInv /\ BegunInv /\ timers \in [Timers -> States] /\ owed \subseteq Kinds
      /\ saved \in BOOLEAN
  BY Typed DEF TypeOK
<1>2. PICK s \in {"waits", "due"} : s = IF saved THEN "waits" ELSE "due"
  OBVIOUS
<1>3. /\ timers[t] = "armed"
      /\ saved \/ \A k \in Kinds : at[k] # "gate"
      /\ timers' = [timers EXCEPT ![t] = s]
      /\ owed' = IF saved THEN owed ELSE owed \cup {k \in Kinds : at[k] = "came"}
      /\ UNCHANGED <<up, saved, lets, mcp, known, at, open, rested, out, mine, inTime, closedBy, asked>>
      /\ Elsewhere
  BY <1>2 DEF Lapses, serverVars, clientVars, pingVars, countVars, Elsewhere
<1>4. /\ timers' \in [Timers -> States] /\ owed' \subseteq Kinds
      /\ \A u \in Timers : timers'[u] = IF u = t THEN s ELSE timers[u]
  BY <1>1, <1>3 DEF States
<1>5. mcp # "closed" /\ mcp # "none"
  BY <1>1, <1>3 DEF TimerInv, ClosedInv, BegunInv
<1>6. PingInv'
  <2>1. (out <=> timers'["answer"] # "off") /\ "answer" \notin open
    BY <1>1, <1>2, <1>3, <1>4, TimersNamed DEF TimerInv, PingInv
  <2>2. ASSUME inTime, timers'["answer"] = "due", ~saved
        PROVE  "answer" \in owed'
    <3>1. CASE t = "answer"
      <4>1. at["answer"] = "came"
        BY <1>1, <1>3, <2>2, <3>1, TimersNamed DEF TimerInv, PingInv
      <4> QED BY <1>3, <2>2, <4>1, TimersNamed
    <3>2. CASE t # "answer"
      BY <1>1, <1>3, <1>4, <2>2, <3>2, TimersNamed DEF TimerInv, PingInv
    <3> QED BY <3>1, <3>2
  <2> QED BY <1>1, <1>3, <2>1, <2>2 DEF TimerInv, PingInv
<1>7. TimerInv'
  BY <1>1, <1>3, <1>4, <1>5, <1>6, TimersNamed DEF TimerInv, ClosedInv, IdleInv
<1>8. BegunInv'
  BY <1>1, <1>3, <1>5 DEF BegunInv
<1> QED BY <1>1, <1>3, <1>4, <1>7, <1>8, ElsewhereKeeps DEF TypeOK

LEMMA DueWaitsKeeps ==
  ASSUME ClientInv, NEW t \in Timers, DueWaits(t)
  PROVE  ClientInv'
<1>1. /\ TypeOK /\ TimerInv /\ BegunInv /\ timers \in [Timers -> States]
  BY Typed
<1>2. /\ timers[t] = "due" /\ saved /\ timers' = [timers EXCEPT ![t] = "waits"]
      /\ UNCHANGED <<up, saved, lets, mcp, known, at, open, owed, rested, out, mine, inTime, closedBy, asked>>
      /\ Elsewhere
  BY DEF DueWaits, serverVars, clientVars, pingVars, countVars, Elsewhere
<1>3. /\ timers' \in [Timers -> States]
      /\ \A u \in Timers : timers'[u] = IF u = t THEN "waits" ELSE timers[u]
  BY <1>1, <1>2 DEF States
<1>4. TimerInv'
  BY <1>1, <1>2, <1>3, TimersNamed DEF TimerInv, ClosedInv, PingInv, IdleInv
<1>5. BegunInv'
  BY <1>1, <1>2, <1>3 DEF BegunInv
<1> QED BY <1>1, <1>2, <1>3, <1>4, <1>5, ElsewhereKeeps DEF TypeOK

\* A session that a timeout's callback, or the server's stop, closes.
LEMMA ClosingKeeps ==
  ASSUME ClientInv, mcp # "none", NEW by \in {"idle", "silence", "stop"}, Closes(by),
         by = "silence" => ~inTime,
         up' \in {"serving", "stopping", "stopped"},
         UNCHANGED <<saved, lets, at, open, asked>>, Elsewhere
  PROVE  ClientInv'
<1>1. /\ TypeOK /\ TimersTyped /\ TimerInv /\ BegunInv /\ inTime \in BOOLEAN /\ rested \in BOOLEAN
  BY Typed
<1>2. /\ timers' \in [Timers -> States] /\ mcp' = "closed" /\ known' = FALSE
      /\ out' = FALSE /\ mine' = FALSE /\ inTime' = inTime /\ rested' = rested /\ owed' = owed
      /\ closedBy' = by /\ TimerInv'
  BY <1>1, ClosesKeeps
<1>3. BegunInv'
  BY <1>1, <1>2 DEF BegunInv
<1> QED BY <1>1, <1>2, <1>3, ElsewhereKeeps DEF TypeOK

LEMMA IdleOverKeeps ==
  ASSUME ClientInv, IdleOver
  PROVE  ClientInv'
<1>1. /\ TypeOK /\ TimerInv /\ BegunInv /\ timers \in [Timers -> States]
  BY Typed
<1>2. /\ timers["idle"] = "due" /\ UNCHANGED <<up, saved, lets, at, open, asked>> /\ Elsewhere
      /\ up' \in {"serving", "stopping", "stopped"}
  BY <1>1 DEF IdleOver, CallsBack, serverVars, countVars, Elsewhere, TypeOK
<1>3. mcp # "none" /\ "idle" \in Timers
  BY <1>1, <1>2, TimersNamed DEF BegunInv
<1>4. CASE Closes("idle")
  BY <1>2, <1>3, <1>4, ClosingKeeps
<1>5. CASE /\ mcp = "failed" /\ timers' = [timers EXCEPT !["idle"] = "off"]
           /\ UNCHANGED <<mcp, known, out, mine, inTime, rested, owed, closedBy>>
  <2>1. /\ timers' \in [Timers -> States]
        /\ \A u \in Timers : timers'[u] = IF u = "idle" THEN "off" ELSE timers[u]
    BY <1>1, <1>5 DEF States
  <2>2. TimerInv'
    BY <1>1, <1>2, <1>5, <2>1, TimersNamed DEF TimerInv, ClosedInv, PingInv, IdleInv
  <2>3. BegunInv'
    BY <1>1, <1>2, <1>5 DEF BegunInv
  <2> QED BY <1>1, <1>2, <1>5, <2>1, <2>2, <2>3, ElsewhereKeeps DEF TypeOK
<1> QED BY <1>4, <1>5 DEF IdleOver, pingVars

LEMMA PingsKeeps ==
  ASSUME ClientInv, Pings
  PROVE  ClientInv'
<1>1. /\ TypeOK /\ TimerInv /\ BegunInv /\ timers \in [Timers -> States]
  BY Typed
<1>2. /\ timers["ping"] = "due"
      /\ timers' = [timers EXCEPT !["ping"] = "off", !["answer"] = "armed"]
      /\ out' = TRUE /\ mine' = FALSE /\ inTime' = FALSE
      /\ UNCHANGED <<up, saved, lets, mcp, known, at, open, owed, rested, closedBy, asked>> /\ Elsewhere
  BY DEF Pings, CallsBack, serverVars, clientVars, countVars, Elsewhere
<1>3. /\ timers' \in [Timers -> States] /\ timers'["idle"] = timers["idle"]
      /\ timers'["answer"] = "armed"
  BY <1>1, <1>2, TimersNamed DEF States
<1>4. mcp # "closed" /\ mcp # "none"
  BY <1>1, <1>2, TimersNamed DEF TimerInv, ClosedInv, BegunInv
<1>5. TimerInv'
  BY <1>1, <1>2, <1>3, <1>4 DEF TimerInv, ClosedInv, PingInv, IdleInv
<1>6. BegunInv'
  BY <1>1, <1>2, <1>4 DEF BegunInv
<1> QED BY <1>1, <1>2, <1>3, <1>5, <1>6, ElsewhereKeeps DEF TypeOK

LEMMA UnansweredKeeps ==
  ASSUME ClientInv, Unanswered
  PROVE  ClientInv'
<1>1. /\ timers["answer"] = "due" /\ ~saved /\ owed = {} /\ Closes("silence")
      /\ UNCHANGED <<up, saved, lets, at, open, asked>> /\ Elsewhere
  BY DEF Unanswered, CallsBack, serverVars, countVars, Elsewhere
<1>2. /\ TypeOK /\ TimerInv /\ BegunInv
  BY Typed
<1>3. ~inTime
  BY <1>1, <1>2 DEF TimerInv, PingInv
<1>4. mcp # "none" /\ up' \in {"serving", "stopping", "stopped"}
  BY <1>1, <1>2, TimersNamed DEF BegunInv, TypeOK
<1> QED BY <1>1, <1>3, <1>4, ClosingKeeps

LEMMA SavesKeeps ==
  ASSUME ClientInv, Saves
  PROVE  ClientInv'
<1>1. /\ saved' = TRUE /\ saves < MaxSaves /\ saves' = saves + 1
      /\ UNCHANGED <<up, lets, mcp, known, at, open, timers, owed, rested, out, mine, inTime, closedBy>>
      /\ UNCHANGED <<pending, listed, drain, batch, untold, asked, changes>>
  BY DEF Saves, clientVars, timerVars, pingVars, updateVars
<1>2. TypeOK /\ TimerInv /\ BegunInv /\ UpdateInv
  BY Typed
<1>3. TypeOK'
  <2>1. saves' \in 0..MaxSaves
    BY <1>1, <1>2, BoundAssumption DEF TypeOK
  <2> QED BY <1>1, <1>2, <2>1 DEF TypeOK
<1>4. TimerInv'
  BY <1>1, <1>2 DEF TimerInv, ClosedInv, PingInv, IdleInv
<1>5. BegunInv' /\ UpdateInv'
  BY <1>1, <1>2 DEF BegunInv, UpdateInv
<1> QED BY <1>3, <1>4, <1>5 DEF ClientInv

LEMMA ResumesKeeps ==
  ASSUME ClientInv, Resumes
  PROVE  ClientInv'
<1>1. /\ saved' = FALSE /\ (\A t \in Timers : timers[t] # "due") /\ timers' = Rearmed(timers)
      /\ UNCHANGED <<up, lets, mcp, known, at, open, owed, rested, out, mine, inTime, closedBy, asked>>
      /\ Elsewhere
  BY DEF Resumes, clientVars, pingVars, countVars, Elsewhere
<1>2. /\ TypeOK /\ TimerInv /\ BegunInv /\ timers \in [Timers -> States]
  BY Typed
<1>3. /\ timers' \in [Timers -> States]
      /\ \A t \in Timers : (timers'[t] = "off" <=> timers[t] = "off") /\ timers'[t] # "due"
  BY <1>1, <1>2, RearmedIs
<1>4. TimerInv'
  BY <1>1, <1>2, <1>3, TimersNamed DEF TimerInv, ClosedInv, PingInv, IdleInv
<1>5. BegunInv'
  BY <1>1, <1>2, <1>3 DEF BegunInv
<1>6. saved' \in BOOLEAN
  BY <1>1
<1> QED BY <1>1, <1>2, <1>3, <1>4, <1>5, <1>6, ElsewhereKeeps DEF TypeOK

\* A restore starts the idle timeout of a session nothing holds anew.
LEMMA RestoresKeeps ==
  ASSUME ClientInv, Restores
  PROVE  ClientInv'
<1>1. /\ TypeOK /\ TimerInv /\ BegunInv /\ timers \in [Timers -> States] /\ rested \in BOOLEAN
  BY Typed
<1>2. PICK u : u = Tracked(timers)
  OBVIOUS
<1>3. PICK ts : ts = IF known THEN ArmedIdle(u, open) ELSE timers
  OBVIOUS
<1>4. /\ saved' = FALSE /\ (\A t \in Timers : timers[t] # "due") /\ timers' = Rearmed(ts)
      /\ lets' \in BOOLEAN /\ rested' = IF known THEN open = {} ELSE rested
      /\ UNCHANGED <<up, mcp, known, at, open, owed, out, mine, inTime, closedBy, asked>>
      /\ Elsewhere
  BY <1>2, <1>3 DEF Restores, clientVars, pingVars, countVars, Elsewhere
<1>5. /\ ts \in [Timers -> States] /\ ts["answer"] = timers["answer"]
      /\ ts["idle"] # "off" => IF known THEN open = {} ELSE timers["idle"] # "off"
      /\ ~known => ts = timers
  <2>1. CASE known
    <3>1. u \in [Timers -> States] /\ u["answer"] = timers["answer"] /\ u["idle"] = "off"
      BY <1>1, <1>2, TrackedIs, TimersNamed
    <3>2. /\ ArmedIdle(u, open) \in [Timers -> States]
          /\ ArmedIdle(u, open)["answer"] = u["answer"]
          /\ ArmedIdle(u, open)["idle"] # "off" => open = {} \/ u["idle"] # "off"
      BY <3>1, ArmedIdleIs, TimersNamed
    <3> QED BY <1>3, <2>1, <3>1, <3>2
  <2>2. CASE ~known
    BY <1>1, <1>3, <2>2
  <2> QED BY <2>1, <2>2
<1>6. /\ timers' \in [Timers -> States]
      /\ \A t \in Timers : /\ timers'[t] = "off" <=> ts[t] = "off"
                           /\ ts[t] # "due" => timers'[t] # "due"
  BY <1>4, <1>5, RearmedIs
<1>7. ClosedInv'
  <2>1. mcp = "closed" => ~known
    BY <1>1 DEF TimerInv, ClosedInv
  <2> QED BY <1>1, <1>4, <1>5, <1>6, <2>1 DEF TimerInv, ClosedInv
<1>8. PingInv'
  BY <1>1, <1>4, <1>5, <1>6, TimersNamed DEF TimerInv, PingInv
<1>9. IdleInv'
  BY <1>1, <1>4, <1>5, <1>6, TimersNamed DEF TimerInv, IdleInv
<1>10. BegunInv'
  <2>1. mcp = "none" => ~known
    BY <1>1 DEF TimerInv, ClosedInv
  <2> QED BY <1>1, <1>4, <1>5, <1>6, <2>1 DEF BegunInv
<1>11. rested' \in BOOLEAN
  BY <1>1, <1>4
<1> QED BY <1>1, <1>4, <1>6, <1>7, <1>8, <1>9, <1>10, <1>11, ElsewhereKeeps DEF TypeOK, TimerInv

LEMMA StopsKeeps ==
  ASSUME ClientInv, Stops
  PROVE  ClientInv'
<1>1. /\ up' \in {"serving", "stopping", "stopped"} /\ UNCHANGED <<saved, lets, at, open, asked>> /\ Elsewhere
  BY DEF Stops, countVars, Elsewhere
<1>2. /\ TypeOK /\ TimerInv /\ BegunInv
  BY Typed
<1>3. CASE known /\ Closes("stop")
  <2>1. mcp # "none"
    BY <1>2, <1>3 DEF TimerInv, ClosedInv
  <2> QED BY <1>1, <1>3, <2>1, ClosingKeeps
<1>4. CASE UNCHANGED <<mcp, known, timers, out, mine, closedBy, inTime, rested, owed>>
  <2>1. TimerInv' /\ BegunInv'
    BY <1>1, <1>2, <1>4 DEF TimerInv, ClosedInv, PingInv, IdleInv, BegunInv
  <2> QED BY <1>1, <1>2, <1>4, <2>1, ElsewhereKeeps DEF TypeOK, States
<1> QED BY <1>3, <1>4 DEF Stops

LEMMA StoppedKeeps ==
  ASSUME ClientInv, Stopped
  PROVE  ClientInv'
<1>1. /\ up' = "stopped"
      /\ UNCHANGED <<saved, lets, mcp, known, at, open, timers, owed, rested, out, mine, inTime, closedBy, asked>>
      /\ Elsewhere
  BY DEF Stopped, clientVars, timerVars, pingVars, countVars, Elsewhere
<1>2. /\ TypeOK /\ TimerInv /\ BegunInv
  BY Typed
<1>3. TimerInv' /\ BegunInv'
  BY <1>1, <1>2 DEF TimerInv, ClosedInv, PingInv, IdleInv, BegunInv
<1> QED BY <1>1, <1>2, <1>3, ElsewhereKeeps DEF TypeOK, States

\* The publisher takes what it does, and what it takes is not lost: the list's change
\* is sent first, and the batch is still to be.
UpdatesTyped ==
    pending \subseteq Uris /\ listed \in BOOLEAN /\ batch \subseteq Uris /\ untold \subseteq Uris
    /\ drain \in {"off", "list", "uris", "leaving"}

LEMMA TakesIs ==
  ASSUME UpdatesTyped, NEW uris \in SUBSET Uris, NEW list \in BOOLEAN, NEW changed \in SUBSET Uris,
         changed \subseteq uris, pending \subseteq uris, Takes(uris, list, changed)
  PROVE  UpdatesTyped' /\ UpdateInv'
<1>1. CASE list \/ uris # {}
  BY <1>1 DEF Takes, UpdatesTyped, UpdateInv
<1>2. CASE ~(list \/ uris # {})
  BY <1>2 DEF Takes, UpdatesTyped, UpdateInv
<1> QED BY <1>1, <1>2

\* A step of the publisher's.
LEMMA UpdatesKeep ==
  ASSUME ClientInv, UpdatesTyped', UpdateInv', changes' \in 0..MaxChanges,
         UNCHANGED <<serverVars, clientVars, timerVars, pingVars, closedBy, asked, saves>>
  PROVE  ClientInv'
<1>1. UNCHANGED <<up, saved, lets, mcp, known, at, open, timers, owed, rested, out, mine, inTime,
                  closedBy, asked, saves>>
  BY DEF serverVars, clientVars, timerVars, pingVars
<1>2. TypeOK /\ TimerInv /\ BegunInv
  BY Typed
<1>3. TypeOK'
  BY <1>1, <1>2 DEF TypeOK, UpdatesTyped
<1>4. TimerInv' /\ BegunInv'
  BY <1>1, <1>2 DEF TimerInv, ClosedInv, PingInv, IdleInv, BegunInv
<1> QED BY <1>3, <1>4 DEF ClientInv

LEMMA PublishedKeeps ==
  ASSUME ClientInv, Published
  PROVE  ClientInv'
<1>1. TypeOK /\ UpdateInv /\ UpdatesTyped
  BY Typed DEF TypeOK, UpdatesTyped
<1>2. /\ changes < MaxChanges /\ changes' = changes + 1
      /\ UNCHANGED <<serverVars, clientVars, timerVars, pingVars, closedBy, asked, saves>>
  BY DEF Published
<1>3. changes' \in 0..MaxChanges
  BY <1>1, <1>2, BoundAssumption DEF TypeOK
<1>4. PICK uris \in SUBSET Uris \ {{}}, list \in BOOLEAN :
           IF drain = "off"
           THEN Takes(uris, list, untold \cup uris)
           ELSE /\ pending' = pending \cup uris /\ listed' = (listed \/ list)
                /\ untold' = untold \cup uris
                /\ UNCHANGED <<drain, batch>>
  BY DEF Published
<1>5. CASE drain = "off"
  <2>1. pending = {} /\ untold = {}
    BY <1>1, <1>5 DEF UpdateInv
  <2>2. UpdatesTyped' /\ UpdateInv'
    <3>1. uris \in SUBSET Uris /\ untold \cup uris \in SUBSET Uris /\ untold \cup uris \subseteq uris
          /\ pending \subseteq uris
      BY <2>1
    <3> QED BY <1>1, <1>4, <1>5, <3>1, TakesIs
  <2> QED BY <1>2, <1>3, <2>2, UpdatesKeep
<1>6. CASE drain # "off"
  <2>1. UpdatesTyped'
    BY <1>1, <1>4, <1>6 DEF UpdatesTyped
  <2>2. UpdateInv'
    BY <1>1, <1>4, <1>6 DEF UpdateInv
  <2> QED BY <1>2, <1>3, <2>1, <2>2, UpdatesKeep
<1> QED BY <1>5, <1>6

LEMMA DrainKeeps ==
  ASSUME ClientInv, ListTold \/ UrisTold \/ DrainLeaves
  PROVE  ClientInv'
<1>1. TypeOK /\ UpdateInv /\ UpdatesTyped
  BY Typed DEF TypeOK, UpdatesTyped
<1>2. /\ UNCHANGED <<serverVars, clientVars, timerVars, pingVars, closedBy, asked, saves>>
      /\ changes' \in 0..MaxChanges
  BY <1>1 DEF ListTold, UrisTold, DrainLeaves, UpdatesOnly, countVars, TypeOK
<1>3. UpdatesTyped' /\ UpdateInv'
  <2>1. CASE ListTold
    BY <1>1, <2>1 DEF ListTold, UpdatesTyped, UpdateInv
  <2>2. CASE drain \in {"uris", "leaving"} /\ Takes(pending, listed, untold)
    <3>1. pending \in SUBSET Uris /\ untold \in SUBSET Uris /\ untold \subseteq pending
          /\ listed \in BOOLEAN
      BY <1>1, <2>2 DEF UpdatesTyped, UpdateInv
    <3> QED BY <1>1, <2>2, <3>1, TakesIs
  <2>3. CASE /\ drain = "leaving" /\ pending = {} /\ drain' = "off"
             /\ UNCHANGED <<pending, listed, batch, untold>>
    BY <1>1, <2>3 DEF UpdatesTyped, UpdateInv
  <2> QED BY <2>1, <2>2, <2>3 DEF UrisTold, DrainLeaves
<1> QED BY <1>2, <1>3, UpdatesKeep

LEMMA StillClient ==
  ASSUME ClientInv, UNCHANGED vars
  PROVE  ClientInv'
BY DEF ClientInv, TypeOK, TimerInv, ClosedInv, PingInv, IdleInv, BegunInv, UpdateInv, vars,
       serverVars, clientVars, pingVars, timerVars, updateVars, countVars

LEMMA ClientInit ==
  ASSUME Init
  PROVE  ClientInv
<1>1. TypeOK
  <2>1. at \in [Kinds -> {"none", "came", "dialled", "gate", "body", "served"}]
    BY DEF Init
  <2>2. timers \in [Timers -> {"off", "armed", "due", "waits"}]
    BY DEF Init
  <2>3. asked \in 0..MaxAsks /\ changes \in 0..MaxChanges /\ saves \in 0..MaxSaves
    BY BoundAssumption DEF Init
  <2> QED BY <2>1, <2>2, <2>3 DEF Init, TypeOK
<1>2. TimerInv
  BY TimersNamed DEF Init, TimerInv, ClosedInv, PingInv, IdleInv
<1>3. BegunInv /\ UpdateInv
  BY TimersNamed DEF Init, BegunInv, UpdateInv
<1> QED BY <1>1, <1>2, <1>3 DEF ClientInv

LEMMA ClientStep ==
  ASSUME ClientInv, [Next]_vars
  PROVE  ClientInv'
<1>1. CASE UNCHANGED vars
  BY <1>1, StillClient
<1>2. ASSUME NEW k \in Kinds, Waits(k) \/ Refused(k) \/ Got(k) \/ ResponseEnds(k) \/ Sends(k)
      PROVE  ClientInv'
  BY <1>2, WaitsKeeps, RefusedKeeps, GotKeeps, ResponseEndsKeeps, SendsKeeps
<1>3. CASE Posted \/ BodyRead \/ Answered \/ Deleted \/ BeginComes \/ Begins
  BY <1>3, PostedKeeps, BodyReadKeeps, AnsweredKeeps, DeletedKeeps, BeginComesKeeps, BeginsKeeps
<1>4. CASE Initialized \/ InitializeFails
  BY <1>4, BeganKeeps
<1>5. ASSUME NEW t \in Timers, DueWaits(t) \/ Lapses(t)
      PROVE  ClientInv'
  BY <1>5, DueWaitsKeeps, LapsesKeeps
<1>6. CASE IdleOver \/ Pings \/ Unanswered \/ Stopped
  BY <1>6, IdleOverKeeps, PingsKeeps, UnansweredKeeps, StoppedKeeps
<1>7. CASE Updates
  BY <1>7, DrainKeeps DEF Updates
<1>8. CASE Drops \/ Saves \/ Resumes \/ Restores \/ Stops
  BY <1>8, DropsKeeps, SavesKeeps, ResumesKeeps, RestoresKeeps, StopsKeeps
<1>9. CASE Published
  BY <1>9, PublishedKeeps
<1> QED BY <1>1, <1>2, <1>3, <1>4, <1>5, <1>6, <1>7, <1>8, <1>9 DEF Next, ServerStep, ResponsesEnd

\* In every state of every run: what the proofs below rest on.
THEOREM ClientAlways == Spec => []ClientInv
<1>1. Init => ClientInv
  BY ClientInit
<1>2. ClientInv /\ [Next]_vars => ClientInv'
  BY ClientStep
<1> QED BY <1>1, <1>2, PTL DEF Spec

\* Every variable holds what it is meant to, whatever comes and in whatever order.
THEOREM TypeCorrect == Spec => []TypeOK
<1>1. ClientInv => TypeOK
  BY DEF ClientInv
<1> QED BY <1>1, ClientAlways, PTL

\* A client that answers each ping before its time is over, on a connection the server
\* keeps, is never closed for its silence (http.ts's ping and its answer's timeout),
\* however saves, restores and the answer's way in interleave.
THEOREM AnswerInTime == Spec => []AnswerInTimeKeeps
<1>1. ClientInv => AnswerInTimeKeeps
  BY DEF ClientInv, TimerInv, ClosedInv, AnswerInTimeKeeps
<1> QED BY <1>1, ClientAlways, PTL

\* Once the publisher of resource updates rests, the client was told of each resource
\* after its last change (events.ts's drain), however many came while it sent.
THEOREM LastChange == Spec => []LastChangeIsTold
<1>1. ClientInv => LastChangeIsTold
  BY DEF ClientInv, UpdateInv, LastChangeIsTold
<1> QED BY <1>1, ClientAlways, PTL

\* What closes a session as idle is its idle timeout's callback alone.
LEMMA IdleOverOnly ==
  ASSUME ClientInv, [Next]_vars, closedBy # "idle", closedBy' = "idle"
  PROVE  IdleOver
<1>1. CASE UNCHANGED vars
  BY <1>1 DEF vars
<1>2. ASSUME NEW k \in Kinds, Waits(k) \/ Refused(k) \/ Got(k) \/ ResponseEnds(k) \/ Sends(k)
      PROVE  FALSE
  BY <1>2 DEF Waits, Refused, Got, ResponseEnds, Sends
<1>3. CASE Posted \/ BodyRead \/ Answered \/ BeginComes \/ Begins \/ Initialized \/ InitializeFails
  BY <1>3 DEF Posted, BodyRead, Answered, BeginComes, Begins, Initialized, InitializeFails
<1>4. ASSUME NEW t \in Timers, DueWaits(t) \/ Lapses(t)
      PROVE  FALSE
  BY <1>4 DEF DueWaits, Lapses
<1>5. CASE Deleted \/ Unanswered \/ Stops
  BY <1>5 DEF Deleted, Unanswered, Stops, Closes
<1>6. CASE Pings \/ Stopped \/ Drops \/ Saves \/ Resumes \/ Restores \/ Published
  BY <1>6 DEF Pings, Stopped, Drops, Saves, Resumes, Restores, Published
<1>7. CASE Updates
  BY <1>7 DEF Updates, ListTold, UrisTold, DrainLeaves, UpdatesOnly
<1> QED BY <1>1, <1>2, <1>3, <1>4, <1>5, <1>6, <1>7 DEF Next, ServerStep, ResponsesEnd

\* A session closed as idle is one nothing held, and nothing that had come by then, for
\* the whole of its timeout (http.ts's closeIdleClientSession), which a restore of the
\* sandbox starts again.
THEOREM Idle == Spec => IdleIsIdle
<1>1. ASSUME ClientInv, [Next]_vars, closedBy # "idle", closedBy' = "idle"
      PROVE  open = {} /\ owed = {} /\ rested
  <2>1. timers["idle"] = "due" /\ owed = {}
    BY <1>1, IdleOverOnly DEF IdleOver, CallsBack
  <2> QED BY <1>1, <2>1 DEF ClientInv, TimerInv, IdleInv
<1>2. ClientInv /\ [Next]_vars
        => [closedBy # "idle" /\ closedBy' = "idle" => open = {} /\ owed = {} /\ rested]_vars
  BY <1>1
<1> QED BY <1>2, ClientAlways, PTL DEF Spec, IdleIsIdle

=============================================================================
