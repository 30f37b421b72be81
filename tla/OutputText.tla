------------------------------ MODULE OutputText ------------------------------
(***************************************************************************)
(* How a text is cut to a bound of bytes, where it is captured             *)
(* (runtime/output-capture.ts, and dotnet-script's BoundText) and where it *)
(* is shown (mcp/truncate.ts): its front and its end are kept, each of     *)
(* whole characters, and a marker stands for what is left out.             *)
(*                                                                         *)
(* A text is its length in bytes and where its characters begin and end in *)
(* UTF-8: none takes more than four bytes.                                 *)
(***************************************************************************)
EXTENDS Naturals

CONSTANTS
    MarkerBytes, \* the bytes of the marker of a captured text
    TextBytes,   \* bound: the longest text looked at
    BudgetBytes  \* bound: the largest budget looked at

ASSUME TextAssumption ==
    MarkerBytes \in Nat /\ MarkerBytes >= 6 /\ TextBytes \in Nat /\ BudgetBytes \in Nat

\* Whether A is where the characters of a text of n bytes begin and end.
Boundaries(A, n) ==
    /\ A \subseteq 0..n /\ 0 \in A /\ n \in A
    /\ \A b \in A : b = n \/ \E w \in 1..4 : b + w \in A
    /\ \A b \in 0..n : \E w \in 0..3 : w <= b /\ b - w \in A

Texts == UNION {{[bytes |-> n, at |-> A] : A \in {B \in SUBSET (0..n) : Boundaries(B, n)}} :
                  n \in 0..TextBytes}

\* RUNTIME_OUTPUT_TRUNCATION_MARKER: ASCII between two characters of three bytes.
Marker == [bytes |-> MarkerBytes, at |-> {0, MarkerBytes} \cup 3..(MarkerBytes - 3)]

-----------------------------------------------------------------------------

\* previousUtf8Boundary, which stays where it is (mutant).
PreviousAnywhere(text, target) == IF target <= text.bytes THEN target ELSE text.bytes

\* previousUtf8Boundary: the last boundary up to the target.
Previous(text, target) ==
    CHOOSE b \in text.at : b <= target /\ \A c \in text.at : c <= target => c <= b

\* nextUtf8Boundary: the first boundary from the target on.
Following(text, target) ==
    CHOOSE b \in text.at : b >= target /\ \A c \in text.at : c >= target => c >= b

\* What is kept: the text up to `left`, as much of the marker, the text from `right` on.
Whole(text) == [left |-> text.bytes, marker |-> 0, right |-> text.bytes]
Cut(left, marker, right) == [left |-> left, marker |-> marker, right |-> right]
Kept(text, k) == k.left + (text.bytes - k.right)

\* BoundText of dotnet-script: the marker always fits.
BoundText(text, max) ==
    LET payload == max - MarkerBytes
        half == payload \div 2
    IN  IF text.bytes <= max THEN Whole(text)
        ELSE Cut(Previous(text, half), MarkerBytes,
                 Following(text, text.bytes - (payload - half)))

\* boundRuntimeText: of a marker that does not fit, what does.
BoundRuntimeText(text, max) ==
    IF text.bytes > max /\ MarkerBytes >= max
    THEN Cut(0, Previous(Marker, max), text.bytes)
    ELSE BoundText(text, max)

\* splitString: the front of at most `beginning` bytes, and the end of at most `end`, of
\* the characters after it.
SplitString(text, beginning, end) ==
    LET tail == IF text.bytes >= end THEN text.bytes - end ELSE 0
        front == Previous(text, beginning)
        from == IF front >= tail THEN front ELSE tail
    IN  [before |-> front, after |-> Following(text, from)]

\* truncateTextToByteBudget; its marker says how many tokens, of four bytes, are removed.
Truncated(text, max) ==
    IF text.bytes <= max THEN Whole(text)
    ELSE LET s == IF max = 0 THEN [before |-> 0, after |-> text.bytes]
                  ELSE SplitString(text, max \div 2, max - max \div 2)
         IN  Cut(s.before, (s.after - s.before + 3) \div 4, s.after)

-----------------------------------------------------------------------------
(* Properties.                                                             *)

\* Whole characters are kept, none twice; and all of them where the text fits.
CutsWell(text, max, k) ==
    /\ k.left \in text.at /\ k.right \in text.at /\ k.left <= k.right
    /\ text.bytes <= max <=> k = Whole(text)

\* However long a text is, wherever its characters fall and whatever the budget, what is
\* kept of it fits: with its marker where it is captured (output-capture.ts:23), and but
\* for its marker, which counts what is left out, where it is shown (truncate.ts:47).  It
\* is of whole characters, and no more is left out than a character at each of the two
\* cuts that would have fitted.
TextsFit ==
    \A text \in Texts, max \in 0..BudgetBytes :
      LET k == BoundRuntimeText(text, max)
          t == Truncated(text, max)
      IN  /\ CutsWell(text, max, k) /\ CutsWell(text, max, t)
          /\ text.bytes > max =>
               /\ Kept(text, k) + k.marker <= max
               /\ max > MarkerBytes => k.marker = MarkerBytes /\ Kept(text, k) + k.marker + 6 >= max
               /\ Kept(text, t) <= max /\ Kept(text, t) + 6 >= max
               /\ 4 * t.marker >= t.right - t.left /\ t.marker > 0

=============================================================================
