---------------------------- MODULE OneTimeToken ----------------------------
(***************************************************************************)
(* What the ceremonies may rely on from the challenge store, with no map,  *)
(* no mutex and no sweep: a token granted for a key may be accepted once,  *)
(* for that key, before its deadline.  The first attempt to present        *)
(* anything for the key spends the live token, right or wrong; a newer     *)
(* grant for the same key replaces it; time and a crash kill it; and       *)
(* nothing else does, so nobody else's traffic costs a user a token.       *)
(***************************************************************************)
EXTENDS Naturals

CONSTANTS Names, Challenges, TTL, MaxTime, None

VARIABLES
    status,   \* per token: unissued, live, presented, accepted or dead
    grant,    \* per token: the key and time it was granted, or None
    clock

tokenVars == <<status, grant, clock>>

TokenKeys == Names \X {"register", "login"}

InHand(c) == status[c] \in {"live", "presented"}

LiveFor(k, c) == status[c] = "live" /\ grant[c].key = k

TokenInit ==
    /\ status = [c \in Challenges |-> "unissued"]
    /\ grant = [c \in Challenges |-> None]
    /\ clock = 0

Grant(k, c) ==
    /\ status[c] = "unissued"
    /\ status' = [d \in Challenges |->
                      IF d = c THEN "live"
                      ELSE IF LiveFor(k, d) THEN "dead" ELSE status[d]]
    /\ grant' = [grant EXCEPT ![c] = [key |-> k, at |-> clock]]
    /\ UNCHANGED clock

\* Someone presents `got` for the key k.
Present(k, got) ==
    /\ \E d \in Challenges : LiveFor(k, d)
    /\ status' = [d \in Challenges |->
                      IF ~LiveFor(k, d) THEN status[d]
                      ELSE IF d = got THEN "presented" ELSE "dead"]
    /\ UNCHANGED <<grant, clock>>

Accept(c) ==
    /\ status[c] = "presented"
    /\ status' = [status EXCEPT ![c] = "accepted"]
    /\ UNCHANGED <<grant, clock>>

\* Time passes; a token in hand dies once its deadline is behind.
Advance ==
    /\ clock < MaxTime
    /\ clock' = clock + 1
    /\ status' = [c \in Challenges |->
                      IF InHand(c) /\ clock' > grant[c].at + TTL
                      THEN "dead" ELSE status[c]]
    /\ UNCHANGED grant

Crash ==
    /\ status' = [c \in Challenges |->
                      IF InHand(c) THEN "dead" ELSE status[c]]
    /\ UNCHANGED <<grant, clock>>

TokenNext ==
    \/ \E k \in TokenKeys, c \in Challenges : Grant(k, c) \/ Present(k, c)
    \/ \E c \in Challenges : Accept(c)
    \/ Advance
    \/ Crash

Spec == TokenInit /\ [][TokenNext]_tokenVars

=============================================================================
