--------------------------- MODULE ChallengeStore ---------------------------
(***************************************************************************)
(* The pending-challenge store of internal/ceremony/challenge.go.          *)
(*                                                                         *)
(* Issue runs wholly under the store's mutex and is one action.  Consume   *)
(* holds the mutex only for the look-up and the delete; the comparison and *)
(* the expiry test run after the unlock, so they are a second action and   *)
(* other threads, the clock or a restart may come in between.              *)
(*                                                                         *)
(* A challenge is 32 random bytes; here it is an element of Challenges,    *)
(* and Issue draws one never drawn before.                                 *)
(***************************************************************************)
EXTENDS Naturals

CONSTANTS
    Names,       \* user names, and the flow IDs that stand in for one
    Challenges,  \* the values crypto/rand may return
    Threads,     \* goroutines that call Consume
    TTL,         \* ChallengeTTL, in ticks of the clock
    MaxTime,     \* bound on the clock
    None

ASSUME TimeAssumption == TTL \in Nat /\ MaxTime \in Nat

Purposes == {"register", "login"}
Keys     == Names \X Purposes
Times    == 0 .. MaxTime

PendingChallenge == [challenge : Challenges, issuedAt : Times]

\* A Consume between its unlock and its return: what it was asked for and
\* what it took out of the map (None when the key was absent).
ConsumeCall == [key : Keys, got : Challenges,
                taken : PendingChallenge \cup {None}]

ASSUME NoneAssumption ==
    None \notin PendingChallenge /\ None \notin ConsumeCall
                                 /\ None \notin [key : Keys, at : Times]

VARIABLES
    pending,     \* ChallengeStore.pending
    clock,       \* what s.now() returns
    call,        \* the Consume each thread is in, None if it is in none
    issue,       \* history: the key and time of each challenge's Issue
    uses,        \* history: how often Consume has returned nil for it
    lastIssue    \* history: the time of the latest Issue

vars == <<pending, clock, call, issue, uses, lastIssue>>

TypeOK ==
    /\ pending \in [Keys -> PendingChallenge \cup {None}]
    /\ clock \in Times
    /\ call \in [Threads -> ConsumeCall \cup {None}]
    /\ issue \in [Challenges -> [key : Keys, at : Times] \cup {None}]
    /\ uses \in [Challenges -> Nat]
    /\ lastIssue \in Times

-----------------------------------------------------------------------------

\* now.Sub(issuedAt) > ttl
ExpiredAt(t, now) == now - t > TTL

\* Fault: the sweep deletes nothing.
PurgedOfNothing(p) == p

\* purgeExpiredLocked
Purged(p) ==
    [k \in Keys |->
        IF p[k] # None /\ ExpiredAt(p[k].issuedAt, clock) THEN None ELSE p[k]]

\* Fault: Consume leaves expiry to Issue's sweep.
VerdictWithoutExpiry(q) ==
    IF q.taken = None THEN "notfound"
    ELSE IF q.taken.challenge # q.got THEN "mismatch"
    ELSE "ok"

\* Fault: Consume does not compare what it was given with what it took.
VerdictWithoutCompare(q) ==
    IF q.taken = None THEN "notfound"
    ELSE IF ExpiredAt(q.taken.issuedAt, clock) THEN "expired"
    ELSE "ok"

\* What Consume returns, given what it took: the tests in their order.
Verdict(q) ==
    IF q.taken = None THEN "notfound"
    ELSE IF q.taken.challenge # q.got THEN "mismatch"
    ELSE IF ExpiredAt(q.taken.issuedAt, clock) THEN "expired"
    ELSE "ok"

-----------------------------------------------------------------------------

Init ==
    /\ pending = [k \in Keys |-> None]
    /\ clock = 0
    /\ call = [t \in Threads |-> None]
    /\ issue = [c \in Challenges |-> None]
    /\ uses = [c \in Challenges |-> 0]
    /\ lastIssue = 0

Tick ==
    /\ clock < MaxTime
    /\ clock' = clock + 1
    /\ UNCHANGED <<pending, call, issue, uses, lastIssue>>

\* Fault: Issue stores the time of expiry where Consume reads that of issue.
IssueWithExpiry(k, c) ==
    /\ issue[c] = None
    /\ pending' = [Purged(pending) EXCEPT
                       ![k] = [challenge |-> c, issuedAt |-> clock + TTL]]
    /\ issue' = [issue EXCEPT ![c] = [key |-> k, at |-> clock]]
    /\ lastIssue' = clock
    /\ UNCHANGED <<clock, call, uses>>

\* Issue: sweep the expired entries, then record the fresh challenge in
\* place of whatever was pending for the key.
Issue(k, c) ==
    /\ issue[c] = None
    /\ pending' = [Purged(pending) EXCEPT
                       ![k] = [challenge |-> c, issuedAt |-> clock]]
    /\ issue' = [issue EXCEPT ![c] = [key |-> k, at |-> clock]]
    /\ lastIssue' = clock
    /\ UNCHANGED <<clock, call, uses>>

\* Fault: the delete waits for the decision to be taken, after the unlock.
ConsumeTakeNoDelete(t, k, got) ==
    /\ call[t] = None
    /\ call' = [call EXCEPT ![t] = [key |-> k, got |-> got,
                                    taken |-> pending[k]]]
    /\ UNCHANGED <<pending, clock, issue, uses, lastIssue>>

\* Consume's critical section: look the key up and delete it.
ConsumeTake(t, k, got) ==
    /\ call[t] = None
    /\ call' = [call EXCEPT ![t] = [key |-> k, got |-> got,
                                    taken |-> pending[k]]]
    /\ pending' = [pending EXCEPT ![k] = None]
    /\ UNCHANGED <<clock, issue, uses, lastIssue>>

\* The rest of Consume, outside the mutex.
ConsumeCheck(t) ==
    /\ call[t] # None
    /\ uses' = IF Verdict(call[t]) = "ok"
               THEN [uses EXCEPT ![call[t].got] = @ + 1] ELSE uses
    /\ call' = [call EXCEPT ![t] = None]
    /\ UNCHANGED <<pending, clock, issue, lastIssue>>

\* The process stops and starts again: the map is in memory only.
Restart ==
    /\ pending' = [k \in Keys |-> None]
    /\ call' = [t \in Threads |-> None]
    /\ UNCHANGED <<clock, issue, uses, lastIssue>>

Next ==
    \/ Tick
    \/ \E k \in Keys, c \in Challenges : Issue(k, c)
    \/ \E t \in Threads, k \in Keys, c \in Challenges : ConsumeTake(t, k, c)
    \/ \E t \in Threads : ConsumeCheck(t)
    \/ Restart

Spec == Init /\ [][Next]_vars

-----------------------------------------------------------------------------
(* Properties.                                                             *)

\* No challenge is accepted twice, however many Consumes of it overlap: the
\* delete is in the same critical section as the look-up (challenge.go
\* 102-107), the decision is not.
SingleUse == \A c \in Challenges : uses[c] <= 1

\* A Consume that returns nil was given a challenge this store issued for
\* that very name and purpose, at most TTL before, although the decision is
\* taken after the unlock from an entry that other threads may since have
\* replaced or swept.
AcceptsOnlyItsOwn ==
    [][\A t \in Threads :
          (call[t] # None /\ uses' # uses /\ call'[t] = None) =>
              LET c == call[t].got IN
              /\ issue[c] # None
              /\ issue[c].key = call[t].key
              /\ clock <= issue[c].at + TTL]_vars

\* Whatever sits in the map was unexpired when Issue last ran: the sweep
\* bounds the map by what TTL lets in (challenge.go 73-77), and Consume and
\* the passing of time never undo that.
SweptAtLastIssue ==
    \A k \in Keys :
        pending[k] # None => ~ExpiredAt(pending[k].issuedAt, lastIssue)

\* The store implements the one-time tokens of OneTimeToken.  Status reads a
\* token's abstract state off the map, the Consumes in progress and the
\* history.
Held(c) == \E k \in Keys : pending[k] # None /\ pending[k].challenge = c

Presented(c) ==
    \E t \in Threads : /\ call[t] # None
                       /\ call[t].taken # None
                       /\ call[t].taken.challenge = c
                       /\ call[t].got = c

Status(c) ==
    IF issue[c] = None THEN "unissued"
    ELSE IF uses[c] > 0 THEN "accepted"
    ELSE IF ExpiredAt(issue[c].at, clock) THEN "dead"
    ELSE IF Held(c) THEN "live"
    ELSE IF Presented(c) THEN "presented"
    ELSE "dead"

Tokens == INSTANCE OneTimeToken WITH
              status <- [c \in Challenges |-> Status(c)],
              grant <- issue

ImplementsTokens == Tokens!Spec

-----------------------------------------------------------------------------
(* Why the properties hold: the inductive invariant.                       *)

Takes(t, c) == call[t] # None /\ call[t].taken # None
                              /\ call[t].taken.challenge = c

\* An entry, in the map or taken out of it, is what Issue recorded for its
\* key and has not been accepted.
IssuedAs(e, k) == /\ issue[e.challenge] # None
                  /\ issue[e.challenge].key = k
                  /\ issue[e.challenge].at = e.issuedAt
                  /\ uses[e.challenge] = 0

EntriesAreIssued ==
    /\ \A k \in Keys : pending[k] # None => IssuedAs(pending[k], k)
    /\ \A t \in Threads :
          call[t] # None /\ call[t].taken # None =>
              IssuedAs(call[t].taken, call[t].key)

\* A challenge is in one place only: in the map or with one thread.
OnePlace ==
    \A t \in Threads, c \in Challenges : Takes(t, c) =>
        /\ ~Held(c)
        /\ \A u \in Threads : Takes(u, c) => u = t

\* The history is in order.
HistoryInOrder ==
    /\ lastIssue <= clock
    /\ \A c \in Challenges : IF issue[c] = None THEN uses[c] = 0
                              ELSE issue[c].at <= lastIssue

IInv == /\ TypeOK
        /\ EntriesAreIssued
        /\ OnePlace
        /\ HistoryInOrder
        /\ SingleUse
        /\ SweptAtLastIssue

=============================================================================
