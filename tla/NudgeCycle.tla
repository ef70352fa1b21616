------------------------------ MODULE NudgeCycle ------------------------------
(***************************************************************************)
(* What the ceiling nudge promises of one cycle, whoever sends and whatever*)
(* fails: an intent is claimed by one attempt at a time; a cycle is        *)
(* consumed only once the agent has been told under the claim that consumes*)
(* it; and an attempt that has told the agent never asks for another.      *)
(***************************************************************************)
CONSTANTS Attempt, None
VARIABLES phase,  \* channel2_nudge_state
          claim,  \* channel2_nudge_claim_token
          heard   \* has the agent been told under the last claim?

Is(from, to) == phase = from /\ phase' = to
Init == phase = "empty" /\ claim = None /\ heard = FALSE

\* The pile is high; it is no longer; the prefix is folded after a nudge.
Turn == /\ Is("empty", "pending") \/ Is("pending", "empty") \/ Is("delivered", "empty")
        /\ UNCHANGED <<claim, heard>>

Take == /\ Is("pending", "claimed")
        /\ claim' \in Attempt
        /\ heard' = FALSE

Tell == /\ phase = "claimed"
        /\ heard' = TRUE
        /\ UNCHANGED <<phase, claim>>

\* The claim ends: consumed, tried again, or given up.
Consume == heard /\ Is("claimed", "delivered")
TryAgain == ~heard /\ Is("claimed", "pending")
GiveUp == Is("claimed", "empty")

Next == \/ Turn \/ Take \/ Tell
        \/ (Consume \/ TryAgain \/ GiveUp) /\ claim' = None /\ UNCHANGED heard

Spec == Init /\ [][Next]_<<phase, claim, heard>>
=============================================================================
