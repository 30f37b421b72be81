----------------------------- MODULE RuntimeSlot -----------------------------
(***************************************************************************)
(* What a runtime transport (runtime/transport.ts, RuntimeTransport)       *)
(* promises a session: its runtimes come one after the other, the next     *)
(* only once the one before has ended, and the session is told at most     *)
(* once of each that it ended.                                             *)
(***************************************************************************)
EXTENDS Naturals

CONSTANT MaxLaunches  \* bound: runtimes the session has

VARIABLES
    current,  \* the runtime the transport holds for the session, 0 for none
    life,     \* of each runtime: unborn, live or ended
    told      \* of each runtime: its end was told to the session's listeners

slotVars == <<current, life, told>>

Runtimes == 1..MaxLaunches

SlotInit ==
    /\ current = 0
    /\ life = [i \in Runtimes |-> "unborn"]
    /\ told = [i \in Runtimes |-> FALSE]

\* startSession, restore: a runtime of its own begins, where the transport
\* holds none; one that could not be started has ended as it begins.
Begin(i) ==
    /\ current = 0 /\ life[i] = "unborn"
    /\ current' = i
    /\ \E how \in {"live", "ended"} : life' = [life EXCEPT ![i] = how]
    /\ UNCHANGED told

EndOf(i) ==
    /\ life[i] = "live"
    /\ life' = [life EXCEPT ![i] = "ended"]
    /\ UNCHANGED <<current, told>>

\* TransportExitListener: the session is told, once.
Tell(i) ==
    /\ life[i] # "unborn" /\ ~told[i]
    /\ told' = [told EXCEPT ![i] = TRUE]
    /\ UNCHANGED <<current, life>>

\* terminate, snapshot: the transport forgets a runtime that has ended.
Forget ==
    /\ current # 0 /\ life[current] = "ended"
    /\ current' = 0
    /\ UNCHANGED <<life, told>>

SlotNext == Forget \/ \E i \in Runtimes : Begin(i) \/ EndOf(i) \/ Tell(i)

SlotSpec == SlotInit /\ [][SlotNext]_slotVars

SlotTypeOK ==
    /\ current \in 0..MaxLaunches
    /\ life \in [Runtimes -> {"unborn", "live", "ended"}]
    /\ told \in [Runtimes -> BOOLEAN]

\* A runtime that is live is the one the transport holds, so a session has
\* one at most and none is out of the reach of terminate.
OneRuntime == \A i \in Runtimes : life[i] = "live" => i = current

=============================================================================
