------------------------------ MODULE HttpClient ------------------------------
(***************************************************************************)
(* One client's MCP session at the HTTP server (mcp/http.ts), and the      *)
(* resource updates it is sent (mcp/events.ts).                            *)
(*                                                                         *)
(* The server's map of sessions is all that sessions share, and each has a *)
(* key of its own in it, so one session stands for any number.  The client *)
(* begins it, calls in it, holds streams of the server's messages open,    *)
(* answers the pings it is sent on them or does not, and ends it or just   *)
(* goes.  The server closes a session no response holds open once its idle *)
(* timeout is over, and one whose client answers no ping; both timeouts    *)
(* run only while the server is not saved, and only after what had come is *)
(* read (sandbox.ts's runningTimeout).  The sandbox is saved, resumed and  *)
(* restored meanwhile, and the server stops.                               *)
(*                                                                         *)
(* Time is abstract: a timeout that is armed may lapse at any moment, and  *)
(* a lapsed one calls back only after the poll that follows.               *)
(***************************************************************************)
EXTENDS Naturals, FiniteSets

CONSTANTS
    Uris,        \* the resources a change may touch, which the client subscribed to
    MaxAsks,     \* bound: requests the client sends
    MaxChanges,  \* bound: changes of the manager's sessions
    MaxSaves     \* bound: saves of the sandbox

ASSUME BoundAssumption ==
    MaxAsks \in Nat /\ MaxChanges \in Nat /\ MaxSaves \in Nat

VARIABLES
    up,        \* the server serves, is stopping, or its listener is closed
    saved,     \* sandbox.ts: the server is marked saved
    lets,      \* authorizeRequest lets the client's requests in
    mcp,       \* how far the client's MCP session is
    known,     \* `sessions` holds it
    at,        \* of each kind of request: how far the one under way is
    open,      \* tracked responses not ended: openResponses is their number
    timers,    \* of idleTimer, pingTimer and a ping's answerTimer: its state
    owed,      \* requests that came, on a connection kept, by a timer's lapse
    out,       \* outstanding: a ping is not answered, given up on or voided
    mine,      \* the answer under way is to the ping that is out
    pending,   \* pendingUris
    listed,    \* listChangePending
    drain,     \* how far the publisher's drain is
    batch,     \* the uris the drain took to send
    untold,    \* history: resources that changed since their last update was sent
    closedBy,  \* history: what closed the session
    inTime,    \* history: the ping out was answered before its time was over
    rested,    \* history: nothing has held the session since idleTimer was armed
    asked, changes, saves  \* history: what the bounds count

serverVars == <<up, saved, lets>>
clientVars == <<mcp, known, at, open>>
pingVars == <<out, mine, inTime>>
timerVars == <<timers, owed, rested>>
updateVars == <<pending, listed, drain, batch, untold>>
countVars == <<asked, changes, saves>>
vars == <<serverVars, clientVars, pingVars, timerVars, updateVars, closedBy, countVars>>

Streams == {"stream", "again"}
Posts == {"call", "answer"}
Kinds == {"begin", "delete"} \cup Streams \cup Posts
Timers == {"idle", "ping", "answer"}

TypeOK ==
    /\ up \in {"serving", "stopping", "stopped"} /\ saved \in BOOLEAN /\ lets \in BOOLEAN
    /\ mcp \in {"none", "opening", "open", "failed", "closed"} /\ known \in BOOLEAN
    /\ at \in [Kinds -> {"none", "came", "dialled", "gate", "body", "served"}]
    /\ open \subseteq Kinds
    /\ timers \in [Timers -> {"off", "armed", "due", "waits"}]
    /\ owed \subseteq Kinds
    /\ out \in BOOLEAN /\ mine \in BOOLEAN
    /\ pending \subseteq Uris /\ listed \in BOOLEAN /\ batch \subseteq Uris
    /\ drain \in {"off", "list", "uris", "leaving"} /\ untold \subseteq Uris
    /\ closedBy \in {"nothing", "client", "idle", "silence", "stop"}
    /\ inTime \in BOOLEAN /\ rested \in BOOLEAN
    /\ asked \in 0..MaxAsks /\ changes \in 0..MaxChanges /\ saves \in 0..MaxSaves

Init ==
    /\ up = "serving" /\ saved = FALSE /\ lets = TRUE
    /\ mcp = "none" /\ known = FALSE
    /\ at = [k \in Kinds |-> "none"] /\ open = {}
    /\ timers = [t \in Timers |-> "off"] /\ owed = {} /\ rested = FALSE
    /\ out = FALSE /\ mine = FALSE /\ inTime = FALSE
    /\ pending = {} /\ listed = FALSE /\ drain = "off" /\ batch = {} /\ untold = {}
    /\ closedBy = "nothing"
    /\ asked = 0 /\ changes = 0 /\ saves = 0

-----------------------------------------------------------------------------
(* What a session's handlers are made of, as functions of its timers.      *)

Cleaned == mcp = "closed"
OpenStreams(opened) == opened \cap Streams

\* The idle timeout armed anew: by the last tracked response's end, and by a
\* restore.
ArmedIdle(ts, opened) ==
    IF opened = {} /\ ~Cleaned THEN [ts EXCEPT !["idle"] = "armed"] ELSE ts

\* pingLater: one ping at a time, while a stream is open.
PingLater(ts, opened, pinged) ==
    IF ts["ping"] = "off" /\ ~pinged /\ OpenStreams(opened) # {} /\ ~Cleaned
    THEN [ts EXCEPT !["ping"] = "armed"] ELSE ts

\* The idle timeout runs on though a request holds the session (mutant).
TrackedAnyhow(ts) == ts

\* track: whatever comes, the idle timeout is cleared.
Tracked(ts) == [ts EXCEPT !["idle"] = "off"]

\* A stream's end voids the ping that is out, and its own timer with it; what
\* else `finished` does of it.
Unpinged(left) ==
    [timers EXCEPT !["answer"] = IF out THEN "off" ELSE @,
                   !["ping"] = IF OpenStreams(left) = {} THEN "off" ELSE @]

\* A ping voided is followed by none (mutant).
VoidedForGood(left) == PingLater(Unpinged(left), left, out)

\* The next ping is timed from the voided one's end, where a stream is open.
Voided(left) == PingLater(Unpinged(left), left, FALSE)

\* A tracked response ends: track's and trackStream's `finished`.
ResponseEnded(k) ==
    LET left == open \ {k}
    IN  /\ open' = left
        /\ timers' = ArmedIdle(IF k \in Streams THEN Voided(left) ELSE timers, left)
        /\ rested' = (rested \/ (left = {} /\ ~Cleaned))
        /\ IF k \in Streams
           THEN out' = FALSE /\ mine' = FALSE /\ inTime' = FALSE
           ELSE UNCHANGED pingVars

\* closeClientSession, with the application closed beside it: the session is
\* out of the map, its timeouts are cleared, and the ping that is out ends.
Closes(by) ==
    /\ mcp' = "closed" /\ known' = FALSE
    /\ timers' = [t \in Timers |-> "off"]
    /\ out' = FALSE /\ mine' = FALSE
    /\ closedBy' = by
    /\ UNCHANGED <<inTime, rested, owed>>

-----------------------------------------------------------------------------
(* The client.                                                             *)

Knows == mcp \in {"open", "closed"}
InMind(k) ==
    CASE k = "begin"  -> mcp = "none"
      [] k = "answer" -> out /\ ~mine /\ Knows
      [] k = "again"  -> at["stream"] = "served" /\ Knows
      [] OTHER        -> Knows

\* The client sends a request, on a connection the server keeps or on a new
\* one: a call, an answer to the ping that is out, a stream asked for, perhaps
\* while it holds one, its session's beginning and its end.
Sends(k) ==
    /\ up = "serving" /\ asked < MaxAsks /\ at[k] = "none" /\ InMind(k)
    /\ \E how \in {"came", "dialled"} :
           /\ at' = [at EXCEPT ![k] = how]
           /\ inTime' = (inTime \/ (k = "answer" /\ how = "came"
                                      /\ timers["answer"] \in {"armed", "waits"}))
    /\ mine' = (mine \/ k = "answer")
    /\ asked' = asked + 1
    /\ UNCHANGED <<serverVars, mcp, known, open, timerVars, out, updateVars, closedBy, changes, saves>>

\* A stream's connection is dropped: by the client, by a proxy, or as the
\* sandbox is restored elsewhere.
Drops ==
    /\ "stream" \in open /\ up = "serving" /\ asked < MaxAsks
    /\ asked' = asked + 1
    /\ at' = [at EXCEPT !["stream"] = "none"]
    /\ ResponseEnded("stream")
    /\ UNCHANGED <<serverVars, mcp, known, owed, updateVars, closedBy, changes, saves>>

\* A call's and the initialize request's responses end as they are handled; a
\* second stream is refused while the first is open; and the streams of an
\* application that is closed end.
ResponseEnds(k) ==
    /\ k \in open /\ at[k] = "served" /\ k # "delete"
    /\ k = "begin" => mcp # "opening"
    /\ k = "stream" => Cleaned
    /\ at' = [at EXCEPT ![k] = "none"]
    /\ ResponseEnded(k)
    /\ UNCHANGED <<serverVars, mcp, known, owed, updateVars, closedBy, countVars>>

-----------------------------------------------------------------------------
(* A request's way in.                                                     *)

Arrived(k) == at[k] \in {"came", "dialled"}
Goes(k, place) == at' = [at EXCEPT ![k] = place] /\ owed' = owed \ {k}

\* A request read while the server is saved waits for it to run on,
Waits(k) ==
    /\ Arrived(k) /\ saved
    /\ Goes(k, "gate")
    /\ UNCHANGED <<serverVars, mcp, known, open, timers, rested, pingVars, updateVars, closedBy, countVars>>

\* and is to be sent again (503) where it does not in time.  An answer that
\* is not let in has not come.
Refused(k) ==
    /\ \/ at[k] = "gate" /\ saved
       \/ (Arrived(k) \/ at[k] = "gate") /\ ~saved /\ ~lets
    /\ Goes(k, "none")
    /\ IF k = "answer" THEN mine' = FALSE /\ inTime' = FALSE ELSE UNCHANGED <<mine, inTime>>
    /\ UNCHANGED <<serverVars, mcp, known, open, timers, rested, out, updateVars, closedBy, countVars>>

\* The token is asked for only once the server runs on.
LetIn(k) == (Arrived(k) \/ at[k] = "gate") /\ ~saved /\ lets

\* A POST holds its session from when it comes, before its body is read.
Posted ==
    /\ LetIn("call")
    /\ Goes("call", "body")
    /\ IF known
       THEN /\ open' = open \cup {"call"} /\ timers' = Tracked(timers) /\ rested' = FALSE
       ELSE UNCHANGED <<open, timers, rested>>
    /\ UNCHANGED <<serverVars, mcp, known, pingVars, updateVars, closedBy, countVars>>

\* Its body read, it is handled where its session was there and still is;
\* otherwise, or where the body does not come or is none, it is refused.
BodyRead ==
    /\ at["call"] = "body"
    /\ \/ /\ known /\ "call" \in open
          /\ at' = [at EXCEPT !["call"] = "served"]
          /\ UNCHANGED <<open, timers, rested, pingVars>>
       \/ /\ at' = [at EXCEPT !["call"] = "none"]
          /\ IF "call" \in open THEN ResponseEnded("call")
                                ELSE UNCHANGED <<open, timers, rested, pingVars>>
    /\ UNCHANGED <<serverVars, mcp, known, owed, updateVars, closedBy, countVars>>

\* An answer, which comes whole: the ping it is to is answered, its timer
\* cleared, and the next timed from now.  Its own response ends as it is read.
Answered ==
    /\ LetIn("answer")
    /\ Goes("answer", "none")
    /\ LET answered == out /\ mine
           unpinged == IF answered THEN [timers EXCEPT !["answer"] = "off"] ELSE timers
           held == IF known THEN ArmedIdle(Tracked(unpinged), open) ELSE unpinged
       IN  /\ out' = (out /\ ~answered)
           /\ timers' = IF answered THEN PingLater(held, open, FALSE) ELSE held
           /\ rested' = IF known THEN open = {} ELSE rested
    /\ mine' = FALSE
    /\ UNCHANGED <<serverVars, mcp, known, open, inTime, updateVars, closedBy, countVars>>

\* A GET opens a stream, and is pinged on it; a DELETE holds the session too.
Got(k) ==
    /\ k \in Streams \cup {"delete"} /\ LetIn(k)
    /\ IF known
       THEN /\ Goes(k, "served")
            /\ open' = open \cup {k} /\ rested' = FALSE
            /\ timers' = IF k \in Streams THEN PingLater(Tracked(timers), open', out)
                                          ELSE Tracked(timers)
       ELSE /\ Goes(k, "none")
            /\ UNCHANGED <<open, timers, rested>>
    /\ UNCHANGED <<serverVars, mcp, known, pingVars, updateVars, closedBy, countVars>>

\* onsessionclosed: a DELETE ends the session, unless it is closed by now,
\* and is answered.
Deleted ==
    /\ at["delete"] = "served"
    /\ at' = [at EXCEPT !["delete"] = "none"] /\ open' = open \ {"delete"}
    /\ IF Cleaned THEN UNCHANGED <<mcp, known, timers, out, mine, closedBy, inTime, rested, owed>>
                  ELSE Closes("client")
    /\ UNCHANGED <<serverVars, updateVars, countVars>>

\* An initialize request comes, its body read before anything holds it, and
\* then the session's transport and application are made for it.
BeginComes ==
    /\ LetIn("begin")
    /\ Goes("begin", "body")
    /\ UNCHANGED <<serverVars, mcp, known, open, timers, rested, pingVars, updateVars, closedBy, countVars>>

Begins ==
    /\ at["begin"] = "body"
    /\ at' = [at EXCEPT !["begin"] = "served"] /\ mcp' = "opening"
    /\ open' = open \cup {"begin"} /\ timers' = Tracked(timers) /\ rested' = FALSE
    /\ UNCHANGED <<serverVars, known, owed, pingVars, updateVars, closedBy, countVars>>

\* onsessioninitialized: the session is there, though the server may have
\* begun to stop, and closed the sessions it had, while it was made.
Initialized ==
    /\ mcp = "opening"
    /\ mcp' = "open" /\ known' = TRUE
    /\ UNCHANGED <<serverVars, at, open, timerVars, pingVars, updateVars, closedBy, countVars>>

\* It is refused, or fails: it has no id, so nothing is cleaned up but its
\* application, and its idle timeout is armed all the same.
InitializeFails ==
    /\ mcp = "opening"
    /\ mcp' = "failed"
    /\ UNCHANGED <<serverVars, known, at, open, timerVars, pingVars, updateVars, closedBy, countVars>>

-----------------------------------------------------------------------------
(* The timeouts.                                                           *)

\* A timer's time is over: it calls back after the poll that follows, or, as
\* the server is saved, is armed anew once it runs on.  What a request that
\* waited for that does comes first.
Lapses(t) ==
    /\ timers[t] = "armed"
    /\ saved \/ \A k \in Kinds : at[k] # "gate"
    /\ timers' = [timers EXCEPT ![t] = IF saved THEN "waits" ELSE "due"]
    /\ owed' = IF saved THEN owed ELSE owed \cup {k \in Kinds : at[k] = "came"}
    /\ UNCHANGED <<serverVars, clientVars, rested, pingVars, updateVars, closedBy, countVars>>

\* The poll marks the server saved first.
DueWaits(t) ==
    /\ timers[t] = "due" /\ saved
    /\ timers' = [timers EXCEPT ![t] = "waits"]
    /\ UNCHANGED <<serverVars, clientVars, owed, rested, pingVars, updateVars, closedBy, countVars>>

\* The callback does not wait for what came to be read (mutant).
CallsBackAtOnce(t) == timers[t] = "due" /\ ~saved

\* What came by the lapse is read, and did not clear the timeout.
CallsBack(t) == timers[t] = "due" /\ ~saved /\ owed = {}

\* closeIdleClientSession, of the idle timeout.
IdleOver ==
    /\ CallsBack("idle")
    /\ IF mcp = "failed"
       THEN /\ timers' = [timers EXCEPT !["idle"] = "off"]
            /\ UNCHANGED <<mcp, known, pingVars, rested, owed, closedBy>>
       ELSE Closes("idle")
    /\ UNCHANGED <<serverVars, at, open, updateVars, countVars>>

\* ping: sent on the stream, its answer timed.
Pings ==
    /\ CallsBack("ping")
    /\ timers' = [timers EXCEPT !["ping"] = "off", !["answer"] = "armed"]
    /\ out' = TRUE /\ mine' = FALSE /\ inTime' = FALSE
    /\ UNCHANGED <<serverVars, clientVars, owed, rested, updateVars, closedBy, countVars>>

\* No answer in time: the session is closed.
Unanswered ==
    /\ CallsBack("answer")
    /\ Closes("silence")
    /\ UNCHANGED <<serverVars, at, open, updateVars, countVars>>

-----------------------------------------------------------------------------
(* Saves of the sandbox, and the server's stop.                            *)

Saves ==
    /\ up = "serving" /\ ~saved /\ saves < MaxSaves
    /\ saved' = TRUE /\ saves' = saves + 1
    /\ UNCHANGED <<up, lets, clientVars, timerVars, pingVars, updateVars, closedBy, asked, changes>>

Rearmed(ts) == [t \in Timers |-> IF ts[t] = "waits" THEN "armed" ELSE ts[t]]

\* A save that left the sandbox running: the timeouts run on.
Resumes ==
    /\ saved /\ saved' = FALSE /\ \A t \in Timers : timers[t] # "due"
    /\ timers' = Rearmed(timers)
    /\ UNCHANGED <<up, lets, clientVars, owed, rested, pingVars, updateVars, closedBy, countVars>>

\* Another host, perhaps: the token is read anew, before the server runs on,
\* and each session's idle timeout starts from now (restartTimers).
Restores ==
    /\ saved /\ saved' = FALSE /\ \A t \in Timers : timers[t] # "due"
    /\ lets' \in BOOLEAN
    /\ LET cleared == IF known THEN Tracked(timers) ELSE timers
       IN  timers' = Rearmed(IF known THEN ArmedIdle(cleared, open) ELSE cleared)
    /\ rested' = IF known THEN open = {} ELSE rested
    /\ UNCHANGED <<up, clientVars, owed, pingVars, updateVars, closedBy, countVars>>

\* shutdown: no connection is taken any more, and the sessions there are are
\* closed.
Stops ==
    /\ up = "serving" /\ up' = "stopping"
    /\ IF known THEN Closes("stop")
                ELSE UNCHANGED <<mcp, known, timers, out, mine, closedBy, inTime, rested, owed>>
    /\ UNCHANGED <<saved, lets, at, open, updateVars, countVars>>

\* The listener is closed once every response has ended, and the engine is
\* shut down.
Stopped ==
    /\ up = "stopping" /\ \A k \in Kinds : at[k] = "none"
    /\ up' = "stopped"
    /\ UNCHANGED <<saved, lets, clientVars, timerVars, pingVars, updateVars, closedBy, countVars>>

-----------------------------------------------------------------------------
(* Resource updates.                                                       *)

\* drain's loop: it takes all there is, and sends it, the list's change first,
\* which it waits for; an update tells of every change up to when it is sent,
\* as the client reads the resource after.  With nothing to take, it leaves.
Takes(uris, list, changed) ==
    IF list \/ uris # {}
    THEN /\ drain' = IF list THEN "list" ELSE "uris"
         /\ batch' = uris /\ pending' = {} /\ listed' = FALSE
         /\ untold' = IF list THEN changed ELSE changed \ uris
    ELSE drain' = "leaving" /\ batch' = {} /\ untold' = changed /\ UNCHANGED <<pending, listed>>

\* publish: a session's event touches resources, and the list where a session
\* started or closed; a drain that runs takes them as it comes round.
Published ==
    /\ known /\ changes < MaxChanges
    /\ changes' = changes + 1
    /\ \E uris \in SUBSET Uris \ {{}}, list \in BOOLEAN :
           IF drain = "off"
           THEN Takes(uris, list, untold \cup uris)
           ELSE /\ pending' = pending \cup uris /\ listed' = (listed \/ list)
                /\ untold' = untold \cup uris
                /\ UNCHANGED <<drain, batch>>
    /\ UNCHANGED <<serverVars, clientVars, timerVars, pingVars, closedBy, asked, saves>>

UpdatesOnly ==
    UNCHANGED <<serverVars, clientVars, timerVars, pingVars, closedBy, countVars>>

ListTold ==
    /\ drain = "list" /\ drain' = "uris"
    /\ untold' = untold \ batch
    /\ UNCHANGED <<pending, listed, batch>> /\ UpdatesOnly

\* What it sent is sent, and it comes round.
UrisTold ==
    /\ drain = "uris"
    /\ Takes(pending, listed, untold)
    /\ UpdatesOnly

\* The drain's promise goes though a change came as it left (mutant).
DrainLeft ==
    /\ drain = "leaving" /\ drain' = "off"
    /\ UNCHANGED <<pending, listed, batch, untold>> /\ UpdatesOnly

\* The drain over, it is begun again where a change came meanwhile.
DrainLeaves ==
    /\ drain = "leaving"
    /\ IF listed \/ pending # {} THEN Takes(pending, listed, untold)
       ELSE drain' = "off" /\ UNCHANGED <<pending, listed, batch, untold>>
    /\ UpdatesOnly

-----------------------------------------------------------------------------
ServerStep ==
    \/ \E k \in Kinds : Waits(k) \/ Refused(k) \/ Got(k)
    \/ Posted \/ BodyRead \/ Answered \/ Deleted
    \/ BeginComes \/ Begins \/ Initialized \/ InitializeFails
    \/ \E t \in Timers : DueWaits(t)
    \/ IdleOver \/ Pings \/ Unanswered \/ Stopped

ResponsesEnd == \E k \in Kinds : ResponseEnds(k)
Updates == ListTold \/ UrisTold \/ DrainLeaves

Next ==
    \/ ServerStep \/ ResponsesEnd \/ Updates
    \/ \E k \in Kinds : Sends(k)
    \/ Drops
    \/ \E t \in Timers : Lapses(t)
    \/ Saves \/ Resumes \/ Restores \/ Stops
    \/ Published

\* The server takes its turns, its timers run, requests' handlers end, and a
\* save is followed by a restore or a resume, or expires.  The client need do
\* nothing.
Spec ==
    /\ Init /\ [][Next]_vars
    /\ WF_vars(ServerStep) /\ WF_vars(ResponsesEnd)
    /\ WF_vars(Updates)
    /\ WF_vars(Resumes \/ Restores)
    /\ \A t \in Timers : WF_vars(Lapses(t))

-----------------------------------------------------------------------------
\* A client that answers each ping before its time is over, on a connection
\* the server keeps, is never closed for its silence: not as the server
\* stalls past the ping's time, nor as it is saved with the answer on its way,
\* nor for a ping whose stream ended first.
AnswerInTimeKeeps == closedBy = "silence" => ~inTime

\* A session closed as idle is one nothing held, and nothing that had come by
\* then, for the whole of its timeout, which a restore starts again.
IdleIsIdle ==
    [][closedBy # "idle" /\ closedBy' = "idle" => open = {} /\ owed = {} /\ rested]_vars

\* A change to a resource the client subscribed to, however many come at once
\* and whenever they come, is followed by an update of it: once the publisher
\* rests, the client was told of each after it.
LastChangeIsTold == drain = "off" => untold = {}

\* Every client that does nothing more has its session closed: as idle where
\* it holds no stream, and for its silence where it does, whatever pings were
\* voided; but for one that began as the server stopped, which ends with it.
ClientsEnd == mcp = "open" ~> (mcp = "closed" \/ up = "stopped")

=============================================================================
