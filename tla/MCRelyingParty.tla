--------------------------- MODULE MCRelyingParty ---------------------------
(***************************************************************************)
(* RelyingParty on small sets, an instance per question: who a session is  *)
(* for (two users and two authenticators contend for one credential ID),   *)
(* what the counter catches, and what the flags let through.               *)
(***************************************************************************)
EXTENDS RelyingParty, TLC

CONSTANTS u1, u2, f1, a1, a2, i1, i2

MCUsers == {u1, u2}
MCAuthenticators == {a1, a2}
MCIds == {i1, i2}

\* One user, who logs in by name or through a flow ID.
SoleUsers == {u1}
SoleNames == {u1, f1}
SoleAuthenticators == {a1}
SoleIds == {i1}

\* A sound posting with the given counter.
Created(i, a, n) == [id |-> i, key |-> a, count |-> n, up |-> TRUE, uv |-> TRUE,
                     override |-> "", defect |-> "none"]
Signed(i, a, n) == [id |-> i, signer |-> a, count |-> n, up |-> TRUE,
                    uv |-> TRUE, override |-> "", defect |-> "none"]

\* Who a session is for, and who deletes what: one credential ID that either
\* user may register for either authenticator, and each authenticator signs
\* for it.  Where there is a second ID, it is one the file may hold.
IdentityAttestations == {Created(i1, a, 0) : a \in MCAuthenticators}
IdentityAssertions   == {Signed(i1, a, 0) : a \in MCAuthenticators}

\* What the counter catches: one credential, registered before, any counter.
CounterAttestations == {}
CounterAssertions == {Signed(i1, a1, n) : n \in Counts}

\* What the flags let through, under every policy that the server may be
\* started with: every combination of UP, UV and override, and every place a
\* check may fail.
PolicyAttestations == {[Created(i1, a1, 0) EXCEPT !.uv = b, !.up = p] :
                          b, p \in BOOLEAN}
PolicyAssertions ==
    {[Signed(i1, a1, 0) EXCEPT !.up = p, !.uv = b, !.override = o] :
         p, b \in BOOLEAN,
         o \in {"", "discouraged", "preferred", "required", "REQUIRED"}}
    \cup {[Signed(i1, a1, 0) EXCEPT !.defect = d] : d \in Defects}

\* Both questions to one request at a time.
SequentialAssertions == CounterAssertions \cup PolicyAssertions

Symmetry == Permutations(Challenges) \cup Permutations(Threads)
IdentitySymmetry == Symmetry \cup Permutations(MCUsers)
                             \cup Permutations(MCAuthenticators)

=============================================================================
