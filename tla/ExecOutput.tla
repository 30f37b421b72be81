------------------------------ MODULE ExecOutput ------------------------------
(***************************************************************************)
(* What becomes of an exec's output: what its capture retains of the texts *)
(* and images its runtime tells (session/exec-capture.ts), the events the  *)
(* session's log retains of that (session/event-log.ts), and the snapshots *)
(* a client reads of it, one from where the one before left off            *)
(* (mcp/exec-snapshot.ts).  OutputText has how one text is cut.            *)
(*                                                                         *)
(* A text is told by its length, and by whether its characters take one    *)
(* byte or four.  How the exec comes to its end is of ExecProtocol.        *)
(***************************************************************************)
EXTENDS OutputText, Sequences, SequencesExt, FiniteSetsExt

CONSTANTS
    Sizes, WideSizes,  \* bound: the lengths of texts a runtime tells
    Tokens,            \* bound: the budgets clients ask for, in tokens
    MaxTold,           \* bound: what a runtime tells
    MaxMessageBytes, MaxExecBytes, MaxMessages,      \* RUNTIME_OUTPUT_CAPTURE_POLICY
    MaxImageBytes, MaxExecImages, MaxExecImageBytes, \* the same
    LogLimit, LogBytes \* EVENT_LOG_LIMIT, EVENT_LOG_MAX_BYTES

ASSUME OutputAssumption ==
    /\ Sizes \subseteq Nat /\ WideSizes \subseteq Nat /\ Tokens \subseteq Nat \ {0}
    /\ {MaxTold, MaxMessageBytes, MaxExecBytes, MaxMessages, MaxImageBytes, MaxExecImages,
        MaxExecImageBytes, LogLimit, LogBytes} \subseteq Nat
    /\ MaxMessageBytes > MarkerBytes

VARIABLES
    status,   \* the exec's, as of its record
    messages, \* its record's messages
    capture,  \* ExecOutputCapture's own counts
    log,      \* the session's log
    reader,   \* the client: the number it reads from, what it read, and whether it is done
    told      \* bound: what the runtime told

vars == <<status, messages, capture, log, reader, told>>

Kinds == {"stdout", "stderr", "result", "error"}

\* Texts by what their characters take.
Ascii(n) == [bytes |-> n, at |-> 0..n]
Wide(n) == [bytes |-> n, at |-> {b \in 0..n : b % 4 = 0} \cup {n}]
Empty == Ascii(0)
Told == {Ascii(n) : n \in Sizes} \cup {Wide(n) : n \in WideSizes}
\* Texts of the capture's own, as long as a text of theirs can be told from others.
Notice == Ascii(3)
Refusal == Ascii(3)
Failure == Ascii(2)

Joined(a, b) == [bytes |-> a.bytes + b.bytes,
                 at |-> a.at \cup {a.bytes + c : c \in b.at}]

\* The text that is kept of one.
TextOf(text, k) ==
    LET front == [bytes |-> k.left, at |-> {b \in text.at : b <= k.left}]
        marker == [bytes |-> k.marker, at |-> {b \in Marker.at : b <= k.marker}]
        end == [bytes |-> text.bytes - k.right,
                at |-> {b - k.right : b \in {c \in text.at : c >= k.right}}]
    IN  IF k = Whole(text) THEN text ELSE Joined(Joined(front, marker), end)

\* `why`: whether the exec told of it, the limits stopped it, or its outcome is refused.
Message(kind, text) == [kind |-> kind, text |-> text, why |-> "told"]
NoticeMessage == [kind |-> "stderr", text |-> Notice, why |-> "limits"]
OutcomeMessage == [kind |-> "error", text |-> Failure, why |-> "outcome"]

NoCapture == [bytes |-> 0, count |-> 0, images |-> 0, imageBytes |-> 0, stopped |-> FALSE,
              terminal |-> FALSE, outcomes |-> 0, failed |-> FALSE]
NoLog == [records |-> <<>>, bytes |-> 0, next |-> 1]

Init ==
    /\ status = "running" /\ messages = <<>> /\ capture = NoCapture /\ log = NoLog
    /\ reader = [next |-> 1, read |-> <<>>, done |-> FALSE] /\ told = 0

TypeOK ==
    /\ status \in {"running", "ok", "error"} /\ told \in 0..MaxTold
    /\ \A i \in DOMAIN messages :
         /\ messages[i].kind \in Kinds \cup {"image"} /\ messages[i].text.bytes \in Nat
         /\ messages[i].why \in {"told", "limits", "outcome"}
    /\ log.bytes \in Nat /\ log.next \in Nat /\ reader.next \in Nat /\ reader.done \in BOOLEAN

-----------------------------------------------------------------------------
(* The session's log.                                                      *)

\* The bytes of an event, more than its text's; an exec's end has none.
EventBytes(text) == text.bytes + 1

SumOf(s) == FoldLeft(+, 0, s)
SumOfRecords(s) == SumOf([i \in DOMAIN s |-> s[i].bytes])

\* How many of its records the log lets go, one more than it must (mutant).
LetGoAll(l) == Len(l.records)

\* How many, at least, so that the rest is within both limits.
LetGo(l) ==
    CHOOSE n \in 0..Len(l.records) :
       /\ LET rest == SubSeq(l.records, n + 1, Len(l.records)) IN
          Len(rest) <= LogLimit /\ SumOfRecords(rest) <= LogBytes
       /\ \A m \in 0..(n - 1) :
            LET rest == SubSeq(l.records, m + 1, Len(l.records)) IN
            Len(rest) > LogLimit \/ SumOfRecords(rest) > LogBytes

\* append, and its loop over the oldest.
Logged(l, bytes) ==
    LET with == [l EXCEPT !.records = Append(@, [seq |-> l.next, bytes |-> bytes]),
                          !.bytes = @ + bytes, !.next = @ + 1]
        n == LetGo(with)
    IN  [with EXCEPT !.records = SubSeq(@, n + 1, Len(@)),
                     !.bytes = @ - SumOfRecords(SubSeq(with.records, 1, n))]

-----------------------------------------------------------------------------
(* The capture.                                                            *)

\* appendBounded, without its look at what is left before (mutant).
AppendBoundedTo(c, kind, text) ==
    LET bounded == TextOf(text, BoundRuntimeText(text, MaxMessageBytes))
    IN  [after |-> [c EXCEPT !.bytes = @ + bounded.bytes, !.count = @ + 1],
         new |-> <<Message(kind, bounded)>>]

Lesser(a, b) == IF a <= b THEN a ELSE b

\* appendBounded: the capture after it, and the messages appended.
AppendBounded(c, kind, text) ==
    IF c.stopped
    THEN IF kind # "error" \/ c.terminal THEN [after |-> c, new |-> <<>>]
         ELSE [after |-> [c EXCEPT !.terminal = TRUE],
               new |-> <<Message(kind, TextOf(text, BoundRuntimeText(text, MaxMessageBytes)))>>]
    ELSE IF c.bytes >= MaxExecBytes \/ c.count >= MaxMessages
    THEN [after |-> [c EXCEPT !.stopped = TRUE], new |-> <<NoticeMessage>>]
    ELSE LET max == Lesser(MaxExecBytes - c.bytes, MaxMessageBytes)
             bounded == TextOf(text, BoundRuntimeText(text, max))
             with == [c EXCEPT !.bytes = @ + bounded.bytes, !.count = @ + 1]
             stops == with.bytes >= MaxExecBytes \/ with.count >= MaxMessages
         IN  [after |-> [with EXCEPT !.stopped = stops],
              new |-> <<Message(kind, bounded)>> \o IF stops THEN <<NoticeMessage>> ELSE <<>>]

\* consumeImage, of one that can be read or not, is of a format shown or not.
AppendImage(c, bytes, readable, format) ==
    IF \/ c.images >= MaxExecImages \/ ~readable \/ bytes > MaxImageBytes
       \/ c.imageBytes + bytes > MaxExecImageBytes \/ ~format
    THEN AppendBounded(c, "stderr", Refusal)
    ELSE [after |-> [c EXCEPT !.images = @ + 1, !.imageBytes = @ + bytes],
          new |-> <<Message("image", Empty)>>]

\* appendMessages and recordEvent: the messages are the record's, and each is an event of
\* the session's log.  Its other events, of a started exec and of what its terminal shows,
\* are left out.
Appends(new) ==
    /\ messages' = messages \o new
    /\ log' = FoldLeft(LAMBDA l, m : Logged(l, EventBytes(m.text)), log, new)

Tells ==
    /\ status = "running" /\ told < MaxTold /\ told' = told + 1
    /\ \E kind \in {"stdout", "result", "error"}, text \in Told :
         LET a == AppendBounded(capture, kind, text) IN
         /\ capture' = [a.after EXCEPT !.failed = @ \/ kind = "error"]
         /\ Appends(a.new)
    /\ UNCHANGED <<status, reader>>

Shows ==
    /\ status = "running" /\ told < MaxTold /\ told' = told + 1
    /\ \E bytes \in 1..(MaxImageBytes + 1), readable, format \in BOOLEAN :
         LET a == AppendImage(capture, bytes, readable, format) IN
         /\ capture' = a.after
         /\ Appends(a.new)
    /\ UNCHANGED <<status, reader>>

\* consumeCheckpointOutcome: an outcome after the first, or a first that cannot be read,
\* is an error of its own, which the record gets whatever it holds and whether or not the
\* capture stopped: it is counted against no limit, and there is no event of it.
Outcome ==
    /\ status = "running" /\ told < MaxTold /\ told' = told + 1
    /\ \E readable \in BOOLEAN :
         LET refused == capture.outcomes > 0 \/ ~readable IN
         /\ capture' = [capture EXCEPT !.outcomes = @ + 1, !.failed = @ \/ refused]
         /\ messages' = messages \o IF refused THEN <<OutcomeMessage>> ELSE <<>>
    /\ UNCHANGED <<status, log, reader>>

\* endExec: the exec is over as its capture has it; or containRuntimeFailure,
\* failCheckpointCommit, which in the same turn say why it failed.
Ends ==
    /\ status = "running"
    /\ \E new \in {<<>>, <<Message("error", Failure)>>} :
         /\ status' = IF capture.failed \/ new # <<>> THEN "error" ELSE "ok"
         /\ messages' = messages \o new
         /\ log' = Logged(FoldLeft(LAMBDA l, m : Logged(l, EventBytes(m.text)), log, new), 1)
    /\ UNCHANGED <<capture, reader, told>>

-----------------------------------------------------------------------------
(* A snapshot.                                                             *)

\* renderExecText and appendText, of a channel: results and errors come on lines of
\* their own, and `breaks` is how many of them bring none.
Rendered(ms, kind, breaks) ==
    LET texts == SelectSeq(ms, LAMBDA m : m.kind = kind)
        Add(a, m) == IF kind \in {"stdout", "stderr"} \/ a.bytes = 0 \/ breaks = 0
                     THEN Joined(a, m.text) ELSE Joined(Joined(a, Ascii(1)), m.text)
    IN  FoldLeft(Add, Empty, texts)

\* Every channel gets as much (mutant).
EqualShares(lengths, budget) ==
    [c \in DOMAIN lengths |-> Lesser(lengths[c], budget \div 4)]

\* allocateChannelBytes: the shortest channels are whole, as long as each is no longer
\* than its part of what is left; the others share that as they are long, what does not
\* divide going to those with the largest remainder.
Shares(lengths, budget) ==
    LET upTo(c) == {d \in DOMAIN lengths : lengths[d] > 0 /\ (lengths[d] < lengths[c] \/
                                             (lengths[d] = lengths[c] /\ d <= c))}
        of(S) == SumOf([c \in DOMAIN lengths |-> IF c \in S THEN lengths[c] ELSE 0])
        all == {c \in DOMAIN lengths : lengths[c] > 0}
        fits(c) == lengths[c] * (Cardinality(all \ upTo(c)) + 1) <= budget - of(upTo(c) \ {c})
        wholes == {c \in all : \A d \in upTo(c) : fits(d)}
        pending == all \ wholes
        left == budget - of(wholes)
        total == of(pending)
        part == [c \in DOMAIN lengths |-> IF c \in pending THEN (lengths[c] * left) \div total ELSE 0]
        rest(c) == (lengths[c] * left) % total
        before(c) == {d \in pending : rest(d) > rest(c) \/ (rest(d) = rest(c) /\ d < c)}
        odd == left - SumOf(part)
    IN  [c \in DOMAIN lengths |->
           IF c \in wholes THEN lengths[c]
           ELSE part[c] + IF c \in pending /\ Cardinality(before(c)) < odd THEN 1 ELSE 0]

LengthsOf(texts) == <<texts[1].bytes, texts[2].bytes, texts[3].bytes, texts[4].bytes>>

\* projectExecText.
Projected(texts, tokens) ==
    LET lengths == LengthsOf(texts)
        whole == SumOf(lengths) <= 4 * tokens
        shares == Shares(lengths, 4 * tokens)
        kept(c) == Kept(texts[c], Truncated(texts[c], shares[c]))
    IN  [truncated |-> ~whole,
         kept |-> IF whole THEN lengths ELSE <<kept(1), kept(2), kept(3), kept(4)>>]

\* execMessages, of the messages after that number (mutant).
MessagesAfter(from) == (from + 1)..Len(messages)

\* execMessages: the numbers of those from that on.
MessagesFrom(from) == from..Len(messages)

\* The texts of the messages from that number on; `breaks` as in Rendered.
TextsFrom(from, breaks) ==
    LET ms == SubSeq(messages, from, Len(messages))
        text(kind) == Rendered(ms, kind, breaks)
    IN  <<text("stdout"), text("stderr"), text("result"), text("error")>>

\* collectExecSnapshot, once it has waited: the exec's status and its messages are of the
\* same turn.  The client reads on from the number it is told, or from the first again.
Reads ==
    /\ \E from \in {1, reader.next} :
         LET numbers == MessagesFrom(from) IN
         reader' = [next |-> IF numbers = {} THEN from ELSE Max(numbers) + 1,
                    read |-> (IF from = 1 THEN <<>> ELSE reader.read) \o [i \in 1..Cardinality(numbers) |-> from - 1 + i],
                    done |-> status # "running"]
    /\ UNCHANGED <<status, messages, capture, log, told>>

Next == Tells \/ Shows \/ Outcome \/ Ends \/ Reads

Spec == Init /\ [][Next]_vars

-----------------------------------------------------------------------------
(* Properties.                                                             *)

Where(Test(_)) == {i \in DOMAIN messages : Test(messages[i])}
Notices == Where(LAMBDA m : m.why = "limits")
Refused == Where(LAMBDA m : m.why = "outcome")
Images == Where(LAMBDA m : m.kind = "image")
Texted == Where(LAMBDA m : m.kind # "image" /\ m.why = "told")

\* However much an exec tells, in whatever order, its record holds no more than the
\* capture's bounds and says once that it was stopped; after that there is only what says
\* why it failed, as it always does of one that failed (exec-capture.ts:257).  Not within
\* the bounds are the errors of refused outcomes, however many come: one of each outcome
\* told, but of a first that is kept (exec-capture.ts:191-224), and an exec that has one
\* is not ok.  The log holds the last events of all, those errors having none, as many as
\* its two limits allow, each by its number (event-log.ts:21).
OutputIsBounded ==
    LET over == IF status = "running" THEN 0 ELSE 1
        logged == SelectSeq(messages, LAMBDA m : m.why # "outcome")
        sizes == [i \in DOMAIN logged |-> EventBytes(logged[i].text)] \o
                 IF status = "running" THEN <<>> ELSE <<1>>
        last(n) == SubSeq(sizes, Len(sizes) - n + 1, Len(sizes))
        fits(n) == n <= LogLimit /\ SumOf(last(n)) <= LogBytes
    IN  /\ MapThenSumSet(LAMBDA i : messages[i].text.bytes, Texted) <=
             MaxExecBytes + MaxMessageBytes + Failure.bytes
        /\ Cardinality(Texted) <= MaxMessages + 1 + over /\ Cardinality(Images) <= MaxExecImages
        /\ capture.imageBytes <= MaxExecImageBytes
        /\ Cardinality(Notices) <= 1
        /\ Cardinality(Refused) \in (capture.outcomes - 1)..capture.outcomes
        /\ Refused # {} => status # "ok"
        /\ \A n \in Notices, i \in Texted : i > n => messages[i].kind = "error"
        /\ capture.failed => \E i \in Texted \cup Refused : messages[i].kind = "error"
        /\ fits(Len(log.records)) /\ log.bytes = SumOfRecords(log.records)
        /\ Len(log.records) = Len(sizes) \/ ~fits(Len(log.records) + 1)
        /\ \A i \in DOMAIN log.records :
             LET at == Len(sizes) - Len(log.records) + i IN
             log.records[i] = [seq |-> at, bytes |-> sizes[at]]

\* The client's next snapshot holds no more than it asks for, markers aside, and leaves
\* little of that unused; it leaves something out of a channel only where it says so, and
\* of none that is within a fourth of the budget.
SnapshotFits ==
    \A tokens \in Tokens, breaks \in {0, 1} :
      LET texts == TextsFrom(reader.next, breaks)
          s == Projected(texts, tokens)
          whole == LengthsOf(texts)
          cut == {c \in DOMAIN texts : s.kept[c] # whole[c]}
      IN  /\ SumOf(s.kept) <= 4 * tokens
          /\ s.truncated <=> cut # {}
          /\ \A c \in cut : s.kept[c] < whole[c] /\ whole[c] > tokens
          /\ s.truncated => SumOf(s.kept) + 6 * Cardinality(cut) >= 4 * tokens

\* A client that reads on from each snapshot's next_seq, or anew from the first, has
\* read every message before it once and in order, and once it is told that the exec is
\* done, all there will ever be.
ReadersMissNothing ==
    /\ reader.read = [i \in 1..(reader.next - 1) |-> i]
    /\ reader.done => Len(messages) = reader.next - 1

=============================================================================
