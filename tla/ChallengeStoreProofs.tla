------------------------ MODULE ChallengeStoreProofs ------------------------
(***************************************************************************)
(* Proofs about ChallengeStore for any sets of names, challenges and       *)
(* threads and any TTL.                                                    *)
(***************************************************************************)
EXTENDS ChallengeStore, TLAPS

USE TimeAssumption, NoneAssumption

\* The invariant holds when the store is new (NewChallengeStore).
LEMMA InitEstablishesIInv == Init => IInv
  BY DEF Init, IInv, TypeOK, EntriesAreIssued, OnePlace, HistoryInOrder,
         SingleUse, SweptAtLastIssue, Takes, Held, Keys, Times

\* Every step of the store keeps the types of its state.
LEMMA NextKeepsTypes == TypeOK /\ [Next]_vars => TypeOK'
<1> SUFFICES ASSUME TypeOK, [Next]_vars
             PROVE  TypeOK'
    OBVIOUS
<1> USE DEF TypeOK, Times
<1>1. CASE Tick
      BY <1>1 DEF Tick
<1>2. ASSUME NEW k \in Keys, NEW c \in Challenges, Issue(k, c)
      PROVE  TypeOK'
      BY <1>2 DEF Issue, Purged, PendingChallenge
<1>3. ASSUME NEW t \in Threads, NEW k \in Keys, NEW c \in Challenges,
             ConsumeTake(t, k, c)
      PROVE  TypeOK'
      BY <1>3 DEF ConsumeTake, ConsumeCall
<1>4. ASSUME NEW t \in Threads, ConsumeCheck(t)
      PROVE  TypeOK'
  <2>1. call[t].got \in Challenges
        BY <1>4 DEF ConsumeCheck, ConsumeCall
  <2>2. QED BY <1>4, <2>1 DEF ConsumeCheck
<1>5. CASE Restart
      BY <1>5 DEF Restart
<1>6. CASE UNCHANGED vars
      BY <1>6 DEF vars
<1>7. QED BY <1>1, <1>2, <1>3, <1>4, <1>5, <1>6 DEF Next

\* The expiry test and the look-up by key keep the sweep's promise: time and
\* Consume only remove entries, and Issue keeps those it found unexpired.
LEMMA NextKeepsSweep ==
    TypeOK /\ HistoryInOrder /\ SweptAtLastIssue /\ [Next]_vars
        => SweptAtLastIssue'
<1> SUFFICES ASSUME TypeOK, HistoryInOrder, SweptAtLastIssue, [Next]_vars
             PROVE  SweptAtLastIssue'
    OBVIOUS
<1> USE DEF TypeOK, Times, SweptAtLastIssue, ExpiredAt
<1>1. CASE Tick
      BY <1>1 DEF Tick
<1>2. ASSUME NEW k \in Keys, NEW c \in Challenges, Issue(k, c)
      PROVE  SweptAtLastIssue'
      BY <1>2 DEF Issue, Purged, PendingChallenge
<1>3. ASSUME NEW t \in Threads, NEW k \in Keys, NEW c \in Challenges,
             ConsumeTake(t, k, c)
      PROVE  SweptAtLastIssue'
      BY <1>3 DEF ConsumeTake
<1>4. ASSUME NEW t \in Threads, ConsumeCheck(t)
      PROVE  SweptAtLastIssue'
      BY <1>4 DEF ConsumeCheck
<1>5. CASE Restart
      BY <1>5 DEF Restart
<1>6. CASE UNCHANGED vars
      BY <1>6 DEF vars
<1>7. QED BY <1>1, <1>2, <1>3, <1>4, <1>5, <1>6 DEF Next

\* A Consume that accepts took the entry that its challenge's Issue recorded.
LEMMA AcceptedWasTaken ==
    ASSUME IInv, NEW t \in Threads, call[t] # None,
           Verdict(call[t]) = "ok"
    PROVE  /\ call[t].got \in Challenges
           /\ Takes(t, call[t].got)
           /\ issue[call[t].got] # None
           /\ issue[call[t].got].key = call[t].key
           /\ uses[call[t].got] = 0
           /\ ~ExpiredAt(issue[call[t].got].at, clock)
<1>1. call[t] \in ConsumeCall
      BY DEF IInv, TypeOK
<1>2. /\ call[t].taken # None
      /\ call[t].taken.challenge = call[t].got
      /\ ~ExpiredAt(call[t].taken.issuedAt, clock)
      BY DEF Verdict
<1>3. QED BY <1>1, <1>2
          DEF IInv, EntriesAreIssued, IssuedAs, Takes, ConsumeCall

\* Every step of the store keeps the whole invariant.
LEMMA NextKeepsIInv == IInv /\ [Next]_vars => IInv'
<1> SUFFICES ASSUME IInv, [Next]_vars
             PROVE  IInv'
    OBVIOUS
<1> USE DEF IInv
<1>a. TypeOK' /\ SweptAtLastIssue'
      BY NextKeepsTypes, NextKeepsSweep
<1>1. CASE Tick
  <2>1. UNCHANGED <<pending, call, issue, uses, lastIssue>> /\ clock' > clock
        BY <1>1 DEF Tick, TypeOK, Times
  <2>2. EntriesAreIssued' /\ OnePlace' /\ SingleUse'
        BY <2>1 DEF EntriesAreIssued, IssuedAs, OnePlace, SingleUse, Takes, Held
  <2>3. HistoryInOrder'
        BY <2>1, <1>a DEF HistoryInOrder, TypeOK, Times
  <2>4. QED BY <1>a, <2>2, <2>3
<1>2. ASSUME NEW k \in Keys, NEW c \in Challenges, Issue(k, c)
      PROVE  IInv'
  <2> USE <1>2 DEF Issue
  <2>1. \A l \in Keys : pending'[l] # None =>
            IF l = k THEN pending'[l] = [challenge |-> c, issuedAt |-> clock]
                     ELSE pending'[l] = pending[l]
        BY DEF Purged, TypeOK
  <2>2. \A d \in Challenges : d # c => issue'[d] = issue[d]
        BY DEF TypeOK
  <2>3. /\ issue'[c] # None
        /\ issue'[c].key = k
        /\ issue'[c].at = clock
    <3>1. [key |-> k, at |-> clock] \in [key : Keys, at : Times]
          BY DEF TypeOK
    <3>2. QED BY <3>1, NoneAssumption DEF TypeOK
  <2>4. \A l \in Keys : pending[l] # None =>
            pending[l].challenge \in Challenges /\ pending[l].challenge # c
        BY DEF EntriesAreIssued, IssuedAs, TypeOK, PendingChallenge
  <2>5. \A t \in Threads, d \in Challenges : Takes(t, d) => d # c
        BY DEF EntriesAreIssued, IssuedAs, Takes
  <2>6. EntriesAreIssued'
        BY <2>1, <2>2, <2>3, <2>4, <2>5
        DEF EntriesAreIssued, IssuedAs, HistoryInOrder, TypeOK, Takes,
            ConsumeCall, PendingChallenge
  <2>7. OnePlace'
        BY <2>1, <2>5 DEF OnePlace, Takes, Held
  <2>8. HistoryInOrder'
        BY <2>2, <2>3, <1>a DEF HistoryInOrder, TypeOK, Times
  <2>9. SingleUse'
        BY DEF SingleUse
  <2>10. QED BY <1>a, <2>6, <2>7, <2>8, <2>9
<1>3. ASSUME NEW t \in Threads, NEW k \in Keys, NEW c \in Challenges,
             ConsumeTake(t, k, c)
      PROVE  IInv'
  <2> USE <1>3 DEF ConsumeTake
  <2>1. /\ pending'[k] = None
        /\ \A l \in Keys : l # k => pending'[l] = pending[l]
        BY DEF TypeOK
  <2>2. /\ call'[t] = [key |-> k, got |-> c, taken |-> pending[k]]
        /\ \A u \in Threads : u # t => call'[u] = call[u]
        BY DEF TypeOK
  <2>3. EntriesAreIssued'
        BY <2>1, <2>2 DEF EntriesAreIssued, IssuedAs
  <2>4. ASSUME NEW d \in Challenges
        PROVE  /\ Held(d)' => Held(d)
               /\ \A u \in Threads : u # t => (Takes(u, d)' <=> Takes(u, d))
               /\ Takes(t, d)' => pending[k] # None
                                   /\ pending[k].challenge = d
        BY <2>1, <2>2 DEF Held, Takes
  <2>5. ASSUME NEW l \in Keys, l # k, pending[l] # None, pending[k] # None
        PROVE  pending[l].challenge # pending[k].challenge
        BY <2>5 DEF EntriesAreIssued, IssuedAs
  <2>6. OnePlace'
        BY <2>1, <2>2, <2>4, <2>5 DEF OnePlace, Held, Takes
  <2>7. HistoryInOrder' /\ SingleUse'
        BY DEF HistoryInOrder, SingleUse
  <2>8. QED BY <1>a, <2>3, <2>6, <2>7
<1>4. ASSUME NEW t \in Threads, ConsumeCheck(t)
      PROVE  IInv'
  <2> USE <1>4 DEF ConsumeCheck
  <2>1. /\ call'[t] = None
        /\ \A u \in Threads : u # t => call'[u] = call[u]
        BY DEF TypeOK
  <2>2. \A d \in Challenges :
            uses'[d] # uses[d] => /\ uses'[d] = 1
                                  /\ issue[d] # None
                                  /\ Takes(t, d)
        BY AcceptedWasTaken, NoneAssumption DEF TypeOK, ConsumeCall
  <2>3. OnePlace'
        BY <2>1 DEF OnePlace, Takes, Held
  <2>4. EntriesAreIssued'
    <3>1. \A k \in Keys : pending[k] # None =>
              uses'[pending[k].challenge] = uses[pending[k].challenge]
          BY <2>2 DEF OnePlace, Held, TypeOK, PendingChallenge
    <3>2. \A u \in Threads \ {t} : call[u] # None /\ call[u].taken # None =>
              uses'[call[u].taken.challenge] = uses[call[u].taken.challenge]
          BY <2>2 DEF OnePlace, Takes, TypeOK, ConsumeCall, PendingChallenge
    <3>3. QED BY <2>1, <3>1, <3>2 DEF EntriesAreIssued, IssuedAs
  <2>5. HistoryInOrder' /\ SingleUse'
        BY <2>2 DEF HistoryInOrder, SingleUse
  <2>6. QED BY <1>a, <2>3, <2>4, <2>5
<1>5. CASE Restart
      BY <1>5, <1>a
      DEF Restart, EntriesAreIssued, IssuedAs, OnePlace, HistoryInOrder, SingleUse,
          Takes, Held
<1>6. CASE UNCHANGED vars
      BY <1>6, <1>a
      DEF vars, EntriesAreIssued, IssuedAs, OnePlace, HistoryInOrder, SingleUse,
          Takes, Held
<1>7. QED BY <1>1, <1>2, <1>3, <1>4, <1>5, <1>6 DEF Next

\* The invariant holds in every reachable state of the store.
THEOREM Invariance == Spec => []IInv
  BY InitEstablishesIInv, NextKeepsIInv, PTL DEF Spec

\* The store's state keeps its types.
THEOREM TypeCorrectness == Spec => []TypeOK
<1>1. IInv => TypeOK
      BY DEF IInv
<1>2. QED BY <1>1, Invariance, PTL

\* No challenge is ever accepted twice, by however many threads.
THEOREM ChallengesAreSingleUse == Spec => []SingleUse
<1>1. IInv => SingleUse
      BY DEF IInv
<1>2. QED BY <1>1, Invariance, PTL

\* Issue's sweep bounds what the map can hold.
THEOREM SweepBoundsTheMap == Spec => []SweptAtLastIssue
<1>1. IInv => SweptAtLastIssue
      BY DEF IInv
<1>2. QED BY <1>1, Invariance, PTL

\* What a thread accepts was issued for the key it consumed, within TTL.
THEOREM AcceptanceIsBound == Spec => AcceptsOnlyItsOwn
<1>1. IInv /\ [Next]_vars =>
        [\A t \in Threads :
            (call[t] # None /\ uses' # uses /\ call'[t] = None) =>
                LET c == call[t].got IN
                /\ issue[c] # None
                /\ issue[c].key = call[t].key
                /\ clock <= issue[c].at + TTL]_vars
  <2> SUFFICES ASSUME IInv, Next, NEW t \in Threads,
                      call[t] # None, uses' # uses, call'[t] = None
               PROVE  /\ issue[call[t].got] # None
                      /\ issue[call[t].got].key = call[t].key
                      /\ clock <= issue[call[t].got].at + TTL
      OBVIOUS
  <2>1. PICK u \in Threads : ConsumeCheck(u)
        BY DEF Next, Tick, Issue, ConsumeTake, Restart
  <2>2. u = t
        BY <2>1 DEF ConsumeCheck, IInv, TypeOK
  <2>3. Verdict(call[t]) = "ok"
        BY <2>1, <2>2 DEF ConsumeCheck
  <2>4. /\ issue[call[t].got] # None
        /\ issue[call[t].got].key = call[t].key
        /\ ~ExpiredAt(issue[call[t].got].at, clock)
        /\ call[t].got \in Challenges
        BY <2>3, AcceptedWasTaken
  <2>5. issue[call[t].got].at \in Nat /\ clock \in Nat
        BY <2>4 DEF IInv, TypeOK, Times
  <2>6. QED BY <2>4, <2>5, TimeAssumption DEF ExpiredAt
<1>2. QED BY <1>1, Invariance, PTL DEF Spec, AcceptsOnlyItsOwn

-----------------------------------------------------------------------------
(* The store implements OneTimeToken.                                      *)

\* Issue grants a token: it kills only the live token of its own key, and
\* sweeping expired entries is invisible.
LEMMA IssueGrants ==
    ASSUME IInv, NEW k \in Keys, NEW c \in Challenges, Issue(k, c)
    PROVE  Tokens!Grant(k, c)
<1> USE DEF IInv, TypeOK, Issue
<1>1. /\ issue'[c] # None /\ issue'[c].key = k /\ issue'[c].at = clock
      /\ \A d \in Challenges : d # c => issue'[d] = issue[d]
  <2>1. [key |-> k, at |-> clock] \in [key : Keys, at : Times]
        OBVIOUS
  <2>2. QED BY <2>1, NoneAssumption
<1>2. /\ pending'[k] = [challenge |-> c, issuedAt |-> clock]
      /\ \A l \in Keys : l # k => pending'[l] = Purged(pending)[l]
      /\ pending'[k] # None
  <2>1. [challenge |-> c, issuedAt |-> clock] \in PendingChallenge
        BY DEF PendingChallenge
  <2>2. QED BY <2>1, NoneAssumption DEF Purged
<1>3. Status(c)' = "live"
      BY <1>1, <1>2, TimeAssumption
      DEF Status, Held, ExpiredAt, HistoryInOrder, Times
<1>4. ASSUME NEW d \in Challenges, d # c
      PROVE  Status(d)' = IF Tokens!LiveFor(k, d) THEN "dead" ELSE Status(d)
  <2>1. CASE issue[d] = None \/ uses[d] > 0 \/ ExpiredAt(issue[d].at, clock)
        BY <1>1, <1>4, <2>1 DEF Tokens!LiveFor, Status, ExpiredAt
  <2>2. CASE ~(issue[d] = None \/ uses[d] > 0 \/ ExpiredAt(issue[d].at, clock))
    <3>1. Presented(d)' = Presented(d)
          BY DEF Presented
    <3>2. Held(d)' <=> Held(d) /\ issue[d].key # k
      <4>1. ASSUME NEW l \in Keys, pending[l] # None,
                   pending[l].challenge = d
            PROVE  issue[d].key = l /\ (l # k => pending'[l] = pending[l])
            BY <1>2, <2>2, <4>1 DEF Purged, EntriesAreIssued, IssuedAs
      <4>2. ASSUME NEW l \in Keys, pending'[l] # None,
                   pending'[l].challenge = d
            PROVE  l # k /\ pending'[l] = pending[l]
            BY <1>2, <1>4, <4>2 DEF Purged
      <4>3. QED BY <1>2, <4>1, <4>2 DEF Held
    <3>3. Held(d) => ~Presented(d)
          BY DEF OnePlace, Presented, Takes
    <3>4. QED BY <1>1, <1>4, <2>2, <3>1, <3>2, <3>3
              DEF Tokens!LiveFor, Status, ExpiredAt
  <2>3. QED BY <2>1, <2>2
<1>5. Status(c) = "unissued"
      BY DEF Status
<1>6. QED BY <1>3, <1>4, <1>5 DEF Tokens!Grant

\* Taking an unexpired entry presents its token; taking an expired one, or
\* none, changes nothing that a client could tell.
LEMMA TakePresents ==
    ASSUME IInv, NEW t \in Threads, NEW k \in Keys, NEW got \in Challenges,
           ConsumeTake(t, k, got)
    PROVE  Tokens!Present(k, got) \/ UNCHANGED Tokens!tokenVars
<1> USE DEF IInv, TypeOK, ConsumeTake
<1>1. /\ pending'[k] = None
      /\ \A l \in Keys : l # k => pending'[l] = pending[l]
      /\ call'[t] = [key |-> k, got |-> got, taken |-> pending[k]]
      /\ \A u \in Threads : u # t => call'[u] = call[u]
      /\ call'[t] # None
  <2>1. [key |-> k, got |-> got, taken |-> pending[k]] \in ConsumeCall
        BY DEF ConsumeCall
  <2>2. QED BY <2>1, NoneAssumption
<1>2. ASSUME NEW d \in Challenges, Held(d) => issue[d].key # k
      PROVE  Status(d)' = Status(d)
  <2>1. Held(d)' <=> Held(d)
        BY <1>1, <1>2 DEF Held, EntriesAreIssued, IssuedAs
  <2>2. Presented(d)' <=> Presented(d)
        BY <1>1, <1>2 DEF Presented, Held, EntriesAreIssued, IssuedAs
  <2>3. QED BY <2>1, <2>2 DEF Status, ExpiredAt
<1>3. ASSUME NEW d \in Challenges, Held(d), issue[d].key = k
      PROVE  /\ pending[k] # None /\ pending[k].challenge = d
             /\ issue[d] # None /\ uses[d] = 0
             /\ ~Held(d)'
             /\ Presented(d)' <=> got = d
  <2>1. /\ pending[k] # None /\ pending[k].challenge = d
        /\ issue[d] # None /\ uses[d] = 0
        BY <1>3 DEF Held, EntriesAreIssued, IssuedAs
  <2>2. ~Held(d)'
        BY <1>1, <2>1 DEF Held, EntriesAreIssued, IssuedAs
  <2>3. Presented(d)' <=> got = d
        BY <1>1, <1>3, <2>1 DEF Presented, OnePlace, Takes
  <2>4. QED BY <2>1, <2>2, <2>3
<1>4. CASE \E d \in Challenges : Tokens!LiveFor(k, d)
  <2>1. ASSUME NEW d \in Challenges
        PROVE  Status(d)' = IF ~Tokens!LiveFor(k, d) THEN Status(d)
                            ELSE IF d = got THEN "presented" ELSE "dead"
    <3>1. CASE Held(d) /\ issue[d].key = k
          BY <1>3, <3>1 DEF Tokens!LiveFor, Status, ExpiredAt
    <3>2. CASE ~(Held(d) /\ issue[d].key = k)
          BY <1>2, <3>2 DEF Tokens!LiveFor, Status
    <3>3. QED BY <3>1, <3>2
  <2>2. QED BY <1>4, <2>1 DEF Tokens!Present
<1>5. CASE ~\E d \in Challenges : Tokens!LiveFor(k, d)
  <2>1. ASSUME NEW d \in Challenges
        PROVE  Status(d)' = Status(d)
    <3>1. CASE Held(d) /\ issue[d].key = k
          BY <1>3, <1>5, <3>1 DEF Tokens!LiveFor, Status, ExpiredAt
    <3>2. CASE ~(Held(d) /\ issue[d].key = k)
          BY <1>2, <3>2
    <3>3. QED BY <3>1, <3>2
  <2>2. QED BY <2>1 DEF Tokens!tokenVars
<1>6. QED BY <1>4, <1>5

\* The decision after the unlock accepts a token in hand, or is invisible.
LEMMA CheckAccepts ==
    ASSUME IInv, NEW t \in Threads, ConsumeCheck(t)
    PROVE  \/ \E c \in Challenges : Tokens!Accept(c)
           \/ UNCHANGED Tokens!tokenVars
<1> USE DEF IInv, TypeOK, ConsumeCheck
<1>1. /\ call'[t] = None
      /\ \A u \in Threads : u # t => call'[u] = call[u]
      OBVIOUS
<1>2. ASSUME NEW d \in Challenges
      PROVE  /\ Held(d)' = Held(d)
             /\ Presented(d)' => Presented(d)
             /\ Presented(d) => \/ Presented(d)'
                                \/ call[t].taken # None
                                   /\ call[t].taken.challenge = d
                                   /\ call[t].got = d
      BY <1>1 DEF Held, Presented
<1>3. CASE Verdict(call[t]) = "ok"
  <2>1. PICK c \in Challenges : /\ c = call[t].got
                               /\ Takes(t, c)
                               /\ issue[c] # None
                               /\ uses[c] = 0
                               /\ ~ExpiredAt(issue[c].at, clock)
        BY <1>3, AcceptedWasTaken
  <2>2. Status(c) = "presented"
    <3>1. Presented(c) /\ ~Held(c)
          BY <2>1 DEF Presented, Takes, OnePlace
    <3>2. QED BY <2>1, <3>1 DEF Status
  <2>3. Status(c)' = "accepted"
        BY <1>3, <2>1 DEF Status
  <2>4. ASSUME NEW d \in Challenges, d # c
        PROVE  Status(d)' = Status(d)
    <3>1. uses'[d] = uses[d]
          BY <1>3, <2>1, <2>4
    <3>2. Presented(d)' <=> Presented(d)
          BY <1>2, <2>1, <2>4 DEF Takes
    <3>3. QED BY <1>2, <3>1, <3>2 DEF Status, ExpiredAt
  <2>5. Tokens!Accept(c)
        BY <2>1, <2>2, <2>3, <2>4 DEF Tokens!Accept
  <2>6. QED BY <2>1, <2>5
<1>4. CASE Verdict(call[t]) # "ok"
  <2>1. ASSUME NEW d \in Challenges
        PROVE  Status(d)' = Status(d)
    <3>1. CASE Presented(d)' <=> Presented(d)
          BY <1>2, <1>4, <3>1 DEF Status, ExpiredAt
    <3>2. CASE ~(Presented(d)' <=> Presented(d))
      <4>1. /\ call[t].taken # None
            /\ call[t].taken.challenge = d
            /\ call[t].got = d
            BY <1>2, <3>2
      <4>2. ExpiredAt(issue[d].at, clock)
            BY <1>4, <4>1 DEF Verdict, EntriesAreIssued, IssuedAs
      <4>3. QED BY <1>4, <4>2 DEF Status, ExpiredAt
    <3>3. QED BY <3>1, <3>2
  <2>2. QED BY <1>4, <2>1 DEF Tokens!tokenVars
<1>5. QED BY <1>3, <1>4

\* Time kills exactly the tokens in hand whose deadline it passes.
LEMMA TickAdvances ==
    ASSUME IInv, Tick
    PROVE  Tokens!Advance
<1> USE DEF IInv, TypeOK, Tick, Times
<1>1. ASSUME NEW d \in Challenges
      PROVE  Status(d)' = IF Tokens!InHand(d) /\ clock' > issue[d].at + TTL
                          THEN "dead" ELSE Status(d)
  <2>1. Held(d)' = Held(d) /\ Presented(d)' = Presented(d)
        BY DEF Held, Presented
  <2>2. CASE issue[d] = None \/ uses[d] > 0
        BY <2>2 DEF Status, Tokens!InHand
  <2>3. CASE issue[d] # None /\ ~(uses[d] > 0)
    <3>1. issue[d].at \in Nat
          BY <2>3
    <3>2. ExpiredAt(issue[d].at, clock)' <=> clock' > issue[d].at + TTL
          BY <3>1, TimeAssumption DEF ExpiredAt
    <3>3. ExpiredAt(issue[d].at, clock) => clock' > issue[d].at + TTL
          BY <3>1, TimeAssumption DEF ExpiredAt
    <3>4. QED BY <2>1, <2>3, <3>2, <3>3 DEF Status, Tokens!InHand
  <2>4. QED BY <2>2, <2>3
<1>2. QED BY <1>1 DEF Tokens!Advance

\* A restart kills exactly the tokens in hand.
LEMMA RestartCrashes ==
    ASSUME IInv, Restart
    PROVE  Tokens!Crash
<1>1. ASSUME NEW d \in Challenges
      PROVE  Status(d)' = IF Tokens!InHand(d) THEN "dead" ELSE Status(d)
  <2>1. ~Held(d)' /\ ~Presented(d)'
        BY DEF Restart, Held, Presented
  <2>2. QED BY <2>1 DEF Restart, Status, Tokens!InHand, ExpiredAt
<1>2. QED BY <1>1 DEF Tokens!Crash, Restart

\* The challenge store implements one-time tokens: a live challenge is lost
\* only to an attempt for its own key, to a newer one for that key, to its
\* deadline or to a restart, and what is lost is never accepted.
THEOREM StoreImplementsTokens == Spec => ImplementsTokens
<1>1. Init => Tokens!TokenInit
      BY DEF Init, Tokens!TokenInit, Status
<1>2. IInv /\ [Next]_vars => [Tokens!TokenNext]_Tokens!tokenVars
  <2> SUFFICES ASSUME IInv, [Next]_vars
               PROVE  Tokens!TokenNext \/ UNCHANGED Tokens!tokenVars
      OBVIOUS
  <2>1. CASE Tick
        BY <2>1, TickAdvances DEF Tokens!TokenNext
  <2>2. ASSUME NEW k \in Keys, NEW c \in Challenges, Issue(k, c)
        PROVE  Tokens!TokenNext
        BY <2>2, IssueGrants
        DEF Tokens!TokenNext, Keys, Purposes, Tokens!TokenKeys
  <2>3. ASSUME NEW t \in Threads, NEW k \in Keys, NEW c \in Challenges,
               ConsumeTake(t, k, c)
        PROVE  Tokens!TokenNext \/ UNCHANGED Tokens!tokenVars
        BY <2>3, TakePresents
        DEF Tokens!TokenNext, Keys, Purposes, Tokens!TokenKeys
  <2>4. ASSUME NEW t \in Threads, ConsumeCheck(t)
        PROVE  Tokens!TokenNext \/ UNCHANGED Tokens!tokenVars
        BY <2>4, CheckAccepts DEF Tokens!TokenNext
  <2>5. CASE Restart
        BY <2>5, RestartCrashes DEF Tokens!TokenNext
  <2>6. CASE UNCHANGED vars
        BY <2>6
        DEF vars, Tokens!tokenVars, Status, ExpiredAt, Held, Presented
  <2>7. QED BY <2>1, <2>2, <2>3, <2>4, <2>5, <2>6 DEF Next
<1>3. QED BY <1>1, <1>2, Invariance, PTL
          DEF Spec, ImplementsTokens, Tokens!Spec

=============================================================================
