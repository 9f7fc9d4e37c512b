------------------------- MODULE RelyingPartyProofs -------------------------
(***************************************************************************)
(* Proofs about the whole server, for any users, credentials, counters,    *)
(* postings and number of concurrent requests.                             *)
(***************************************************************************)
EXTENDS RelyingParty, ChallengeStoreProofs

USE ConfigAssumption, NoJobAssumption, NoCredAssumption

\* EffectivePolicy only tightens: it demands user verification whenever the
\* server or the request does.
LEMMA EffectivePolicyTightens ==
    ASSUME NEW floor \in UVPolicies, NEW requested,
           floor = "required" \/ requested = "required"
    PROVE  EffectivePolicy(floor, requested) = "required"
BY DEF EffectivePolicy, UVPolicies, uvStrictness

\* Every handler's step is a step of the challenge store or leaves it alone.
LEMMA HandlersUseTheStore == [RPNext]_allVars => [Next]_vars
<1> SUFFICES ASSUME [RPNext]_allVars
             PROVE  [Next]_vars
    OBVIOUS
<1> USE DEF Next
<1>1. CASE RPTick
      BY <1>1 DEF RPTick
<1>2. ASSUME NEW u \in Users, NEW c \in Challenges, RegisterBegin(u, c)
      PROVE  [Next]_vars
  <2>1. <<u, "register">> \in Keys
        BY DEF Keys, Purposes
  <2>2. QED BY <1>2, <2>1 DEF RegisterBegin
<1>3. ASSUME NEW n \in Names, NEW c \in Challenges,
             LoginBegin(n, c) \/ DiscoverableLoginBegin(n, c)
      PROVE  [Next]_vars
  <2>1. <<n, "login">> \in Keys
        BY DEF Keys, Purposes
  <2>2. QED BY <1>3, <2>1 DEF LoginBegin, DiscoverableLoginBegin
<1>4. ASSUME NEW t \in Threads, NEW u \in Users, NEW c \in Challenges,
             NEW a \in Attestations, RegisterFinish(t, u, c, a)
      PROVE  [Next]_vars
  <2>1. <<u, "register">> \in Keys
        BY DEF Keys, Purposes
  <2>2. QED BY <1>4, <2>1 DEF RegisterFinish
<1>5. ASSUME NEW t \in Threads, NEW n \in Names, NEW c \in Challenges,
             NEW a \in Assertions, LoginFinish(t, n, c, a)
      PROVE  [Next]_vars
  <2>1. <<n, "login">> \in Keys
        BY DEF Keys, Purposes
  <2>2. QED BY <1>5, <2>1 DEF LoginFinish
<1>6. ASSUME NEW t \in Threads, RegisterCheck(t) \/ LoginCheck(t)
      PROVE  [Next]_vars
      BY <1>6 DEF RegisterCheck, LoginCheck
<1>7. ASSUME NEW t \in Threads,
             \/ RegisterAdd(t) \/ LoginFind(t) \/ LoginUpdate(t)
             \/ LoginSession(t) \/ DeleteFind(t) \/ DeleteCommit(t)
             \/ StoreError(t)
             \/ \E s \in sessions, i \in Ids : DeleteRequest(t, s, i)
      PROVE  [Next]_vars
      BY <1>7 DEF RegisterAdd, LoginFind, LoginUpdate, LoginSession,
                  DeleteFind, DeleteCommit, StoreError, DeleteRequest
<1>8. CASE RPRestart
      BY <1>8 DEF RPRestart
<1>9. CASE UNCHANGED allVars
      BY <1>9 DEF allVars, vars
<1>10. QED
  BY <1>1, <1>2, <1>3, <1>4, <1>5, <1>6, <1>7, <1>8, <1>9
  DEF RPNext, FlowIDs

\* The server uses the challenge store as it is specified on its own, so
\* everything proved of the store holds inside the server.
THEOREM ServerRespectsChallengeStore == RPSpec => Spec
<1>1. RPInit => Init
      BY DEF RPInit
<1>2. QED BY <1>1, HandlersUseTheStore, PTL DEF RPSpec, Spec

\* Inside the server too no challenge is accepted twice.
THEOREM ServerChallengesAreSingleUse == RPSpec => []SingleUse
BY ServerRespectsChallengeStore, ChallengesAreSingleUse, PTL

-----------------------------------------------------------------------------
(* The server's own invariant.                                             *)

\* The invariant holds when the server starts over any file an earlier run
\* can have left.
LEMMA InitEstablishesRPInv == RPInit => RPInv
<1> SUFFICES ASSUME RPInit
             PROVE  RPInv
    OBVIOUS
<1>1. IInv
      BY InitEstablishesIInv DEF RPInit
<1> DEFINE loaded(i) == [user |-> creds[i].user, id |-> i,
                        key |-> creds[i].key, challenge |-> None]
<1>2. /\ \A i \in Ids : creds[i] # NoCred => loaded(i) \in enrolled
      /\ \A e \in enrolled : \E i \in Ids : creds[i] # NoCred /\ e = loaded(i)
      BY DEF RPInit
<1>3. \A i \in Ids : creds[i] # NoCred => loaded(i) \in Enrolment
      BY DEF RPInit, Contents, Credential, Enrolment
<1>4. enrolled \subseteq Enrolment
      BY <1>2, <1>3
<1>c. counted \in [Ids -> SUBSET Counts]
      BY DEF RPInit, Contents, Credential
<1>5. RPTypeOK
      BY <1>1, <1>4, <1>c DEF RPInit, IInv, RPTypeOK
<1>6. CredsAreRegistered
      BY <1>2 DEF CredsAreRegistered, Registered
<1>7. \A e \in enrolled : e.challenge = None
      BY <1>2
<1>8. /\ sessions = {}
      /\ \A t \in Threads : job[t] = None /\ call[t] = None
      BY DEF RPInit, Init
<1>9. QED
  BY <1>1, <1>5, <1>6, <1>7, <1>8
  DEF RPInit, RPInv, LoginsPassed, SessionIsOwners,
      DeletesPassed, ConsumesAreJobs, ChallengesAreSpent,
      OneCeremonyPerChallenge, At, Past, SessionsInTime, DeletedIsGone,
      LateAreKnown, RevocationBound

\* The steps that change the server's own state: the begin handlers and the
\* clock only touch the challenge store.
LEMMA ServerSteps ==
    ASSUME [RPNext]_allVars
    PROVE  \/ UNCHANGED <<rpVars, call>>
           \/ \E t \in Threads, u \in Users, c \in Challenges,
                 a \in Attestations : RegisterFinish(t, u, c, a)
           \/ \E t \in Threads, n \in Names, c \in Challenges,
                 a \in Assertions : LoginFinish(t, n, c, a)
           \/ \E t \in Threads, s \in sessions, i \in Ids :
                 DeleteRequest(t, s, i)
           \/ \E t \in Threads :
                 \/ RegisterCheck(t) \/ RegisterAdd(t)
                 \/ LoginCheck(t) \/ LoginFind(t)
                 \/ LoginUpdate(t) \/ LoginSession(t)
                 \/ DeleteFind(t) \/ DeleteCommit(t) \/ StoreError(t)
           \/ RPRestart
BY DEF RPNext, RPTick, RegisterBegin, LoginBegin, DiscoverableLoginBegin,
       Tick, Issue, allVars, rpVars, vars

\* What a thread's job is, at each place where a handler goes on with it.
LEMMA JobTypes ==
    ASSUME RPTypeOK, NEW t \in Threads, job[t] # None
    PROVE  /\ job[t].kind = "login" => job[t] \in LoginJob
           /\ job[t].kind = "register" => job[t] \in EnrolJob
           /\ job[t].kind = "delete" => job[t] \in DeleteJob
BY DEF RPTypeOK, Jobs, LoginJob, EnrolJob, DeleteJob

\* Moving a login on changes nothing but its place.
LEMMA MovedLogin ==
    ASSUME NEW j \in LoginJob, NEW s \in {"find", "update", "issue"},
           NEW moved, moved = [j EXCEPT !.at = s]
    PROVE  /\ moved \in LoginJob /\ moved.at = s
           /\ moved.kind = "login" /\ moved.name = j.name
           /\ moved.challenge = j.challenge /\ moved.posted = j.posted
           /\ moved.cred = j.cred
BY DEF LoginJob

\* Every step keeps the types of the server's state.
LEMMA NextKeepsRPTypes ==
    RPTypeOK /\ LoginsPassed /\ [RPNext]_allVars => RPTypeOK'
<1> SUFFICES ASSUME RPTypeOK, LoginsPassed, [RPNext]_allVars
             PROVE  RPTypeOK'
    OBVIOUS
<1>a. TypeOK'
      BY HandlersUseTheStore, NextKeepsTypes DEF RPTypeOK
<1> USE DEF RPTypeOK, Jobs
<1>1. CASE UNCHANGED rpVars
      BY <1>1, <1>a DEF rpVars
<1>2. ASSUME NEW t \in Threads, NEW u \in Users, NEW c \in Challenges,
             NEW a \in Attestations, RegisterFinish(t, u, c, a)
      PROVE  RPTypeOK'
  <2>1. [kind |-> "register", at |-> "consume", user |-> u,
         challenge |-> c, posted |-> a] \in EnrolJob
        BY DEF EnrolJob
  <2>2. QED BY <1>2, <1>a, <2>1 DEF RegisterFinish, StartJob
<1>3. ASSUME NEW t \in Threads, NEW n \in Names, NEW c \in Challenges,
             NEW a \in Assertions, LoginFinish(t, n, c, a)
      PROVE  RPTypeOK'
  <2>1. [kind |-> "login", at |-> "consume", name |-> n, challenge |-> c,
         posted |-> a, cred |-> NoCred] \in LoginJob
        BY DEF LoginJob
  <2>2. QED BY <1>3, <1>a, <2>1 DEF LoginFinish, StartJob
<1>4. ASSUME NEW t \in Threads, RegisterCheck(t)
      PROVE  RPTypeOK'
  <2>1. [job[t] EXCEPT !.at = "add"] \in EnrolJob
        BY <1>4, JobTypes DEF RegisterCheck, EnrolJob
  <2>2. QED BY <1>4, <1>a, <2>1 DEF RegisterCheck, MoveJob, EndJob
<1>5. ASSUME NEW t \in Threads, LoginCheck(t)
      PROVE  RPTypeOK'
  <2>1. [job[t] EXCEPT !.at = "find"] \in LoginJob
        BY <1>5, JobTypes DEF LoginCheck, LoginJob
  <2>2. QED BY <1>5, <1>a, <2>1 DEF LoginCheck, MoveJob, EndJob
<1>6. ASSUME NEW t \in Threads, RegisterAdd(t)
      PROVE  RPTypeOK'
  <2> DEFINE add == [kind |-> "AddCredential", id |-> job[t].posted.id,
                     cred |-> NewCredential(job[t].user, job[t].posted)]
  <2>1. job[t] \in EnrolJob /\ job[t].posted \in Attestation
        BY <1>6, JobTypes DEF RegisterAdd, EnrolJob
  <2>2. NewCredential(job[t].user, job[t].posted) \in Credential
        BY <2>1 DEF NewCredential, Credential, EnrolJob, Attestation
  <2>3. Effect(add, creds) \in Contents
        BY <2>1, <2>2 DEF Effect, Contents
  <2>4. [user |-> job[t].user, id |-> job[t].posted.id,
         key |-> job[t].posted.key, challenge |-> job[t].challenge]
            \in Enrolment
        BY <2>1 DEF EnrolJob, Attestation, Enrolment
  <2>5. {job[t].posted.count} \ {0} \subseteq Counts
        BY <2>1 DEF Attestation
  <2>6. QED BY <1>6, <1>a, <2>3, <2>4, <2>5 DEF RegisterAdd, EndJob
<1>7. ASSUME NEW t \in Threads, LoginFind(t)
      PROVE  RPTypeOK'
  <2> DEFINE cred == creds[job[t].posted.id]
  <2>1. job[t] \in LoginJob /\ job[t].posted \in Assertion
        BY <1>7, JobTypes DEF LoginFind, LoginJob
  <2>2. cred \in Credential \cup {NoCred}
        BY <2>1 DEF Contents, Assertion
  <2>3. [job[t] EXCEPT !.at = "update", !.cred = cred] \in LoginJob
        BY <2>1, <2>2 DEF LoginJob
  <2>4. QED BY <1>7, <1>a, <2>3 DEF LoginFind, StartJob, EndJob
<1>8. ASSUME NEW t \in Threads, LoginUpdate(t)
      PROVE  RPTypeOK'
  <2> DEFINE update == [kind |-> "UpdateSignCount", id |-> job[t].posted.id,
                        count |-> job[t].posted.count]
  <2>1. /\ job[t] \in LoginJob /\ job[t].posted \in Assertion
        /\ job[t].cred \in Credential
        BY <1>8, JobTypes DEF LoginUpdate, LoginJob, LoginsPassed, At
  <2>2. ~Refused(update, creds) => Effect(update, creds) \in Contents
    <3>1. SUFFICES ASSUME ~Refused(update, creds)
                   PROVE  Effect(update, creds) \in Contents
          OBVIOUS
    <3>2. creds[job[t].posted.id] \in Credential
          BY <2>1, <3>1 DEF Refused, Contents, Assertion
    <3>3. [creds[job[t].posted.id] EXCEPT !.count = job[t].posted.count]
              \in Credential
          BY <2>1, <3>2 DEF Credential, Assertion
    <3>4. QED BY <2>1, <3>3 DEF Effect, Contents
  <2>3. [job[t] EXCEPT !.at = "issue"] \in LoginJob
        BY <2>1, MovedLogin
  <2>4. Counted(job[t].posted.id, job[t].posted.count)
            \in [Ids -> SUBSET Counts]
        BY <2>1 DEF Counted, Assertion
  <2>5. QED BY <1>8, <1>a, <2>2, <2>3, <2>4 DEF LoginUpdate, MoveJob, EndJob
<1>s. ASSUME NEW t \in Threads, LoginSession(t)
      PROVE  RPTypeOK'
  <2>1. /\ job[t] \in LoginJob /\ job[t].posted \in Assertion
        /\ job[t].cred \in Credential
        BY <1>s, JobTypes DEF LoginSession, LoginJob, LoginsPassed, At
  <2>2. clock + SessionTTL \in Nat
        BY DEF TypeOK, Times
  <2>3. NewSession(job[t]) \in Session
        BY <2>1, <2>2
        DEF NewSession, Session, LoginJob, Assertion, Credential
  <2>4. QED BY <1>s, <1>a, <2>3 DEF LoginSession, EndJob
<1>f. ASSUME NEW t \in Threads, DeleteFind(t)
      PROVE  RPTypeOK'
  <2>1. [job[t] EXCEPT !.at = "delete"] \in DeleteJob
        BY <1>f, JobTypes DEF DeleteFind, DeleteJob
  <2>2. QED BY <1>f, <1>a, <2>1 DEF DeleteFind, MoveJob, EndJob
<1>9. ASSUME NEW t \in Threads, NEW s \in sessions, NEW i \in Ids,
             DeleteRequest(t, s, i)
      PROVE  RPTypeOK'
  <2>1. [kind |-> "delete", at |-> "owner", id |-> i, claims |-> s]
            \in DeleteJob
        BY DEF DeleteJob
  <2>2. QED BY <1>9, <1>a, <2>1 DEF DeleteRequest, StartJob
<1>10. ASSUME NEW t \in Threads, DeleteCommit(t)
      PROVE  RPTypeOK'
  <2> DEFINE delete == [kind |-> "DeleteCredential", id |-> job[t].id]
  <2>1. job[t].id \in Ids
        BY <1>10, JobTypes DEF DeleteCommit, DeleteJob
  <2>2. Effect(delete, creds) \in Contents
        BY <2>1 DEF Effect, Contents
  <2>3. [at |-> clock, late |-> Late(job[t].id)] \in Deletion
    <3>1. clock \in Times
          BY DEF TypeOK
    <3>2. \A u \in Threads : job[u] # None /\ job[u].at = "issue" =>
             job[u].challenge \in Challenges
          BY DEF LoginJob, EnrolJob, DeleteJob
    <3>3. Late(job[t].id) \subseteq Challenges
          BY <3>2 DEF Late
    <3>4. QED BY <3>1, <3>3 DEF Deletion
  <2>4. QED BY <1>10, <1>a, <2>1, <2>2, <2>3 DEF DeleteCommit, EndJob
<1>11. ASSUME NEW t \in Threads, StoreError(t)
      PROVE  RPTypeOK'
      BY <1>11, <1>a DEF StoreError, EndJob
<1>12. CASE RPRestart
      BY <1>12, <1>a DEF RPRestart
<1> HIDE DEF RPTypeOK, Jobs
<1>13. QED
  BY <1>1, <1>2, <1>3, <1>4, <1>5, <1>6, <1>7, <1>8, <1>s, <1>f, <1>9,
     <1>10, <1>11, <1>12, ServerSteps

-----------------------------------------------------------------------------
(* Whose session it is.                                                    *)

Identity == /\ CredsAreRegistered
            /\ LoginsPassed
            /\ SessionIsOwners
            /\ DeletesPassed

\* What was registered stays on record.
LEMMA EnrolledGrows ==
    ASSUME [RPNext]_allVars
    PROVE  enrolled \subseteq enrolled'
<1>1. ASSUME NEW t \in Threads, RegisterAdd(t)
      PROVE  enrolled \subseteq enrolled'
      BY <1>1 DEF RegisterAdd
<1>2. QED
  BY <1>1, ServerSteps
  DEF rpVars, RegisterFinish, LoginFinish, DeleteRequest, RegisterCheck,
      LoginCheck, LoginFind, LoginUpdate, LoginSession, DeleteFind,
      DeleteCommit, StoreError, RPRestart

\* The policy changes only at a restart, which ends every request.
LEMMA PolicyStays ==
    ASSUME [RPNext]_allVars, NEW t \in Threads, job'[t] # None
    PROVE  uvPolicy' = uvPolicy
<1>1. ~RPRestart
      BY DEF RPRestart
<1>2. QED
  BY <1>1, ServerSteps
  DEF rpVars, RegisterFinish, LoginFinish, DeleteRequest, RegisterCheck,
      RegisterAdd, LoginCheck, LoginFind, LoginUpdate, LoginSession,
      DeleteFind, DeleteCommit, StoreError

\* So what a job relied on keeps holding while the job stays as it is.
LEMMA OtherJobsKeepIdentity ==
    ASSUME Identity, [RPNext]_allVars, NEW u \in Threads, job'[u] = job[u]
    PROVE  /\ (At(u, "update") \/ At(u, "issue"))' =>
                 /\ job'[u].cred # NoCred
                 /\ Registered(job[u].cred.user, job[u].posted.id,
                               job[u].posted.signer)'
                 /\ FlagsPass(EffectivePolicy(uvPolicy', job'[u].posted.override),
                              job'[u].posted.up, job'[u].posted.uv)
           /\ At(u, "delete")' =>
                 \E e \in enrolled' :
                     e.id = job'[u].id /\ e.user = job'[u].claims.user
<1>1. enrolled \subseteq enrolled'
      BY EnrolledGrows
<1>2. (At(u, "update") \/ At(u, "issue"))' <=>
      (At(u, "update") \/ At(u, "issue"))
      BY DEF At
<1>3. At(u, "delete")' <=> At(u, "delete")
      BY DEF At
<1>4. (At(u, "update") \/ At(u, "issue"))' => uvPolicy' = uvPolicy
      BY PolicyStays DEF At
<1>5. QED
  BY <1>1, <1>2, <1>3, <1>4
  DEF Identity, LoginsPassed, DeletesPassed, Registered

\* A step that only ends or moves the job of one thread, and puts nothing in
\* the store or among the sessions that was not registered.
LEMMA StepKeepsIdentity ==
    ASSUME RPTypeOK, Identity, [RPNext]_allVars, NEW t \in Threads,
           \A u \in Threads : u # t => job'[u] = job[u],
           job'[t] = None \/ job'[t].at \notin {"update", "issue", "delete"},
           creds' = creds, sessions' = sessions
    PROVE  Identity'
<1>1. enrolled \subseteq enrolled'
      BY EnrolledGrows
<1>2. CredsAreRegistered' /\ SessionIsOwners'
      BY <1>1 DEF Identity, CredsAreRegistered, SessionIsOwners, Registered
<1>3. ASSUME NEW u \in Threads,
             (At(u, "update") \/ At(u, "issue") \/ At(u, "delete"))'
      PROVE  job'[u] = job[u]
      BY <1>3 DEF At
<1>4. LoginsPassed' /\ DeletesPassed'
      BY <1>3, OtherJobsKeepIdentity DEF LoginsPassed, DeletesPassed, Registered
<1>5. QED BY <1>2, <1>4 DEF Identity

\* Every step keeps what ties a session to a registration: the checks run on
\* a copy of the credential, and whatever becomes of the stored one in the
\* meantime, what was registered is on record.
LEMMA NextKeepsIdentity ==
    ASSUME RPTypeOK, Identity, [RPNext]_allVars
    PROVE  Identity'
<1>t. job \in [Threads -> Jobs \cup {None}] /\ creds \in Contents
      BY DEF RPTypeOK
<1>g. enrolled \subseteq enrolled'
      BY EnrolledGrows
<1>1. CASE UNCHANGED <<rpVars, call>>
      BY <1>1 DEF rpVars, Identity, CredsAreRegistered, LoginsPassed,
                  SessionIsOwners, DeletesPassed, At, Registered
<1>2. ASSUME NEW t \in Threads, NEW u \in Users, NEW c \in Challenges,
             NEW a \in Attestations, RegisterFinish(t, u, c, a)
      PROVE  Identity'
      BY <1>2, <1>t, StepKeepsIdentity DEF RegisterFinish, StartJob
<1>3. ASSUME NEW t \in Threads, NEW n \in Names, NEW c \in Challenges,
             NEW a \in Assertions, LoginFinish(t, n, c, a)
      PROVE  Identity'
      BY <1>3, <1>t, StepKeepsIdentity DEF LoginFinish, StartJob
<1>4. ASSUME NEW t \in Threads, RegisterCheck(t) \/ LoginCheck(t)
      PROVE  Identity'
  <2>1. job[t] \in EnrolJob \/ job[t] \in LoginJob
        BY <1>4, JobTypes DEF RegisterCheck, LoginCheck
  <2>2. \A s \in {"add", "find"} : [job[t] EXCEPT !.at = s].at = s
        BY <2>1 DEF EnrolJob, LoginJob
  <2>3. job'[t] = None \/ job'[t].at \notin {"update", "issue", "delete"}
        BY <1>4, <1>t, <2>2 DEF RegisterCheck, LoginCheck, MoveJob, EndJob
  <2>4. QED
    BY <1>4, <1>t, <2>3, StepKeepsIdentity
    DEF RegisterCheck, LoginCheck, MoveJob, EndJob
<1>5. ASSUME NEW t \in Threads, RegisterAdd(t)
      PROVE  Identity'
  <2> DEFINE i == job[t].posted.id
             cred == NewCredential(job[t].user, job[t].posted)
             e0 == [user |-> job[t].user, id |-> i, key |-> job[t].posted.key,
                    challenge |-> job[t].challenge]
  <2>1. job[t] \in EnrolJob /\ i \in Ids
        BY <1>5, JobTypes DEF RegisterAdd, EnrolJob, Attestation
  <2>2. \/ creds' = creds
        \/ creds' = [creds EXCEPT ![i] = cred] /\ e0 \in enrolled'
        BY <1>5 DEF RegisterAdd, Effect
  <2>3. CredsAreRegistered'
    <3>1. ASSUME NEW k \in Ids, creds'[k] # NoCred
          PROVE  \E e \in enrolled' : /\ e.user = creds'[k].user
                                       /\ e.id = k
                                       /\ e.key = creds'[k].key
      <4>1. CASE creds'[k] = creds[k]
            BY <1>g, <3>1, <4>1 DEF Identity, CredsAreRegistered, Registered
      <4>2. CASE creds'[k] # creds[k]
        <5>1. k = i /\ creds'[k] = cred /\ e0 \in enrolled'
              BY <1>t, <2>1, <2>2, <4>2 DEF Contents
        <5>2. e0.user = cred.user /\ e0.id = i /\ e0.key = cred.key
              BY DEF NewCredential
        <5>3. QED BY <5>1, <5>2
      <4>3. QED BY <4>1, <4>2
    <3>2. QED BY <3>1 DEF CredsAreRegistered, Registered
  <2>4. /\ job'[t] = None /\ sessions' = sessions
        /\ \A u \in Threads : u # t => job'[u] = job[u]
        BY <1>5, <1>t DEF RegisterAdd, EndJob
  <2>5. LoginsPassed' /\ DeletesPassed'
    <3>1. ASSUME NEW u \in Threads,
                 (At(u, "update") \/ At(u, "issue") \/ At(u, "delete"))'
          PROVE  job'[u] = job[u]
          BY <2>4, <3>1 DEF At
    <3>2. QED
      BY <3>1, OtherJobsKeepIdentity DEF LoginsPassed, DeletesPassed, Registered
  <2>6. SessionIsOwners'
        BY <1>g, <2>4 DEF Identity, SessionIsOwners, Registered
  <2>7. QED BY <2>3, <2>5, <2>6 DEF Identity
<1>6. ASSUME NEW t \in Threads, LoginFind(t)
      PROVE  Identity'
  <2> DEFINE cred == creds[job[t].posted.id]
             next == [job[t] EXCEPT !.at = "update", !.cred = cred]
  <2>1. job[t] \in LoginJob /\ job[t].posted.id \in Ids
        BY <1>6, JobTypes DEF LoginFind, LoginJob, Assertion
  <2>2. next.cred = cred /\ next.posted = job[t].posted /\ next.at = "update"
        BY <2>1 DEF LoginJob
  <2>3. /\ \A u \in Threads : u # t => job'[u] = job[u]
        /\ UNCHANGED <<uvPolicy, creds, sessions, enrolled>>
        BY <1>6, <1>t DEF LoginFind, StartJob, EndJob
  <2>4. CASE job'[t] = None
        BY <1>6, <2>3, <2>4, StepKeepsIdentity
  <2>5. CASE job'[t] # None
    <3>1. job'[t] = next /\ AssertionPasses(job[t].posted, cred)
          BY <1>6, <1>t, <2>5 DEF LoginFind, StartJob, EndJob
    <3>2. /\ cred # NoCred
          /\ Registered(cred.user, job[t].posted.id, job[t].posted.signer)
          /\ FlagsPass(EffectivePolicy(uvPolicy, job[t].posted.override),
                       job[t].posted.up, job[t].posted.uv)
          BY <2>1, <3>1 DEF AssertionPasses, Identity, CredsAreRegistered
    <3>3. /\ job'[t].cred = cred
          /\ job'[t].posted = job[t].posted
          /\ job'[t].at = "update"
          BY <2>2, <3>1
    <3>4. Registered(job[t].cred.user, job[t].posted.id, job[t].posted.signer)'
          BY <2>3, <3>2, <3>3 DEF Registered
    <3>5. LoginsPassed'
      <4>1. ASSUME NEW u \in Threads, (At(u, "update") \/ At(u, "issue"))'
            PROVE  /\ job'[u].cred # NoCred
                   /\ Registered(job[u].cred.user, job[u].posted.id,
                                 job[u].posted.signer)'
                   /\ FlagsPass(EffectivePolicy(uvPolicy', job'[u].posted.override),
                                job'[u].posted.up, job'[u].posted.uv)
        <5>1. CASE u = t
              BY <2>3, <3>2, <3>3, <3>4, <5>1
        <5>2. CASE u # t
              BY <2>3, <4>1, <5>2, OtherJobsKeepIdentity
        <5>3. QED BY <5>1, <5>2
      <4>2. QED BY <4>1 DEF LoginsPassed
    <3>6. DeletesPassed'
      <4>1. ASSUME NEW u \in Threads, At(u, "delete")'
            PROVE  job'[u] = job[u]
            BY <2>3, <3>3, <4>1 DEF At
      <4>2. QED BY <4>1, OtherJobsKeepIdentity DEF DeletesPassed
    <3>7. QED
      BY <2>3, <3>5, <3>6 DEF Identity, CredsAreRegistered, SessionIsOwners,
                              Registered
  <2>6. QED BY <2>4, <2>5
<1>7. ASSUME NEW t \in Threads, LoginUpdate(t)
      PROVE  Identity'
  <2> DEFINE i == job[t].posted.id
             update == [kind |-> "UpdateSignCount", id |-> i,
                        count |-> job[t].posted.count]
  <2>1. job[t] \in LoginJob /\ i \in Ids
        BY <1>7, JobTypes DEF LoginUpdate, LoginJob, Assertion
  <2>2. enrolled' = enrolled /\ uvPolicy' = uvPolicy
        BY <1>7 DEF LoginUpdate
  <2>3. CredsAreRegistered'
    <3>1. CASE Refused(update, creds)
          BY <1>7, <2>2, <3>1
          DEF LoginUpdate, Identity, CredsAreRegistered, Registered
    <3>2. CASE ~Refused(update, creds)
      <4>1. creds[i] \in Credential /\ creds[i] # NoCred
            BY <1>t, <2>1, <3>2 DEF Refused, Contents
      <4>2. creds' = [creds EXCEPT ![i] =
                         [creds[i] EXCEPT !.count = job[t].posted.count]]
            BY <1>7, <3>2 DEF LoginUpdate, Effect
      <4>3. \A k \in Ids : creds'[k] # NoCred =>
               /\ creds[k] # NoCred
               /\ creds'[k].user = creds[k].user
               /\ creds'[k].key = creds[k].key
            BY <1>t, <2>1, <4>1, <4>2 DEF Credential, Contents
      <4>4. QED BY <2>2, <4>3 DEF Identity, CredsAreRegistered, Registered
    <3>3. QED BY <3>1, <3>2
  <2>4. /\ \A u \in Threads : u # t => job'[u] = job[u]
        /\ job'[t] = None \/ job'[t] = [job[t] EXCEPT !.at = "issue"]
        /\ sessions' = sessions
        BY <1>7, <1>t DEF LoginUpdate, MoveJob, EndJob
  <2>5. LoginsPassed'
    <3>1. ASSUME NEW u \in Threads, (At(u, "update") \/ At(u, "issue"))'
          PROVE  /\ job'[u].cred # NoCred
                 /\ Registered(job[u].cred.user, job[u].posted.id,
                               job[u].posted.signer)'
                 /\ FlagsPass(EffectivePolicy(uvPolicy', job'[u].posted.override),
                              job'[u].posted.up, job'[u].posted.uv)
      <4>1. CASE u = t
        <5>1. job'[t].cred = job[t].cred /\ job'[t].posted = job[t].posted
              BY <2>1, <2>4, <3>1, <4>1, MovedLogin DEF At
        <5>2. /\ job[t].cred # NoCred
              /\ Registered(job[t].cred.user, job[t].posted.id,
                            job[t].posted.signer)
              /\ FlagsPass(EffectivePolicy(uvPolicy, job[t].posted.override),
                           job[t].posted.up, job[t].posted.uv)
              BY <1>7 DEF LoginUpdate, Identity, LoginsPassed, At
        <5>3. QED BY <2>2, <4>1, <5>1, <5>2 DEF Registered
      <4>2. CASE u # t
            BY <2>4, <3>1, <4>2, OtherJobsKeepIdentity
      <4>3. QED BY <4>1, <4>2
    <3>2. QED BY <3>1 DEF LoginsPassed
  <2>6. DeletesPassed'
    <3>1. ASSUME NEW u \in Threads, At(u, "delete")'
          PROVE  job'[u] = job[u]
      <4>1. job'[t] # None => job'[t].at = "issue"
            BY <2>1, <2>4, MovedLogin
      <4>2. QED BY <2>4, <3>1, <4>1 DEF At
    <3>2. QED BY <3>1, OtherJobsKeepIdentity DEF DeletesPassed
  <2>7. SessionIsOwners'
        BY <2>2, <2>4 DEF Identity, SessionIsOwners, Registered
  <2>8. QED BY <2>3, <2>5, <2>6, <2>7 DEF Identity
<1>s. ASSUME NEW t \in Threads, LoginSession(t)
      PROVE  Identity'
  <2>2. enrolled' = enrolled
        BY <1>s DEF LoginSession
  <2>3. CredsAreRegistered'
        BY <1>s, <2>2
        DEF LoginSession, Identity, CredsAreRegistered, Registered
  <2>4. /\ job'[t] = None
        /\ \A u \in Threads : u # t => job'[u] = job[u]
        BY <1>s, <1>t DEF LoginSession, EndJob
  <2>5. LoginsPassed' /\ DeletesPassed'
    <3>1. ASSUME NEW u \in Threads,
                 (At(u, "update") \/ At(u, "issue") \/ At(u, "delete"))'
          PROVE  job'[u] = job[u]
          BY <2>4, <3>1 DEF At
    <3>2. QED
      BY <3>1, OtherJobsKeepIdentity DEF LoginsPassed, DeletesPassed, Registered
  <2>6. \A s \in sessions' : s \in sessions \/ s = NewSession(job[t])
        BY <1>s DEF LoginSession
  <2>7. Registered(job[t].cred.user, job[t].posted.id, job[t].posted.signer)
        BY <1>s DEF LoginSession, Identity, LoginsPassed, At
  <2>8. ASSUME NEW s \in sessions'
        PROVE  Registered(s.user, s.posted.id, s.posted.signer)
    <3>1. CASE s \in sessions
          BY <3>1 DEF Identity, SessionIsOwners
    <3>2. CASE s = NewSession(job[t])
      <4>1. /\ s.posted = job[t].posted
            /\ s.user = job[t].cred.user
            BY <3>2 DEF NewSession
      <4>2. QED BY <2>7, <4>1
    <3>3. QED BY <2>6, <3>1, <3>2
  <2>9. SessionIsOwners'
        BY <2>2, <2>8 DEF SessionIsOwners, Registered
  <2>10. QED BY <2>3, <2>5, <2>9 DEF Identity
<1>8. ASSUME NEW t \in Threads, NEW s \in sessions, NEW i \in Ids,
             DeleteRequest(t, s, i)
      PROVE  Identity'
      BY <1>8, <1>t, StepKeepsIdentity DEF DeleteRequest, StartJob
<1>f. ASSUME NEW t \in Threads, DeleteFind(t)
      PROVE  Identity'
  <2> DEFINE i == job[t].id
             next == [job[t] EXCEPT !.at = "delete"]
  <2>1. job[t] \in DeleteJob /\ i \in Ids
        BY <1>f, JobTypes DEF DeleteFind, DeleteJob
  <2>2. next.at = "delete" /\ next.id = i /\ next.claims = job[t].claims
        BY <2>1 DEF DeleteJob
  <2>3. /\ \A u \in Threads : u # t => job'[u] = job[u]
        /\ UNCHANGED <<creds, sessions, enrolled>>
        BY <1>f, <1>t DEF DeleteFind, MoveJob, EndJob
  <2>4. CASE job'[t] = None
        BY <1>f, <2>3, <2>4, StepKeepsIdentity
  <2>5. CASE job'[t] # None
    <3>1. job'[t] = next /\ MayDelete(job[t].claims, i)
          BY <1>f, <1>t, <2>5 DEF DeleteFind, MoveJob, EndJob
    <3>2. \E e \in enrolled : e.id = i /\ e.user = job[t].claims.user
          BY <2>1, <3>1 DEF MayDelete, Identity, CredsAreRegistered, Registered
    <3>3. /\ job'[t].at = "delete" /\ job'[t].id = i
          /\ job'[t].claims = job[t].claims
          BY <2>2, <3>1
    <3>4. LoginsPassed'
      <4>1. ASSUME NEW u \in Threads, (At(u, "update") \/ At(u, "issue"))'
            PROVE  job'[u] = job[u]
            BY <2>3, <3>3, <4>1 DEF At
      <4>2. QED BY <4>1, OtherJobsKeepIdentity DEF LoginsPassed, Registered
    <3>5. DeletesPassed'
      <4>1. ASSUME NEW u \in Threads, At(u, "delete")'
            PROVE  \E e \in enrolled' :
                       e.id = job'[u].id /\ e.user = job'[u].claims.user
        <5>1. CASE u = t
              BY <2>3, <3>2, <3>3, <5>1
        <5>2. CASE u # t
              BY <2>3, <4>1, <5>2, OtherJobsKeepIdentity
        <5>3. QED BY <5>1, <5>2
      <4>2. QED BY <4>1 DEF DeletesPassed
    <3>6. QED
      BY <2>3, <3>4, <3>5 DEF Identity, CredsAreRegistered, SessionIsOwners,
                              Registered
  <2>6. QED BY <2>4, <2>5
<1>9. ASSUME NEW t \in Threads, DeleteCommit(t)
      PROVE  Identity'
  <2>1. job[t].id \in Ids
        BY <1>9, JobTypes DEF DeleteCommit, DeleteJob
  <2>2. UNCHANGED <<enrolled, sessions>>
        BY <1>9 DEF DeleteCommit
  <2>3. CredsAreRegistered'
    <3>1. \A k \in Ids : creds'[k] # NoCred => creds'[k] = creds[k]
          BY <1>9, <1>t, <2>1 DEF DeleteCommit, Effect, Contents
    <3>2. QED BY <2>2, <3>1 DEF Identity, CredsAreRegistered, Registered
  <2>4. /\ job'[t] = None
        /\ \A u \in Threads : u # t => job'[u] = job[u]
        BY <1>9, <1>t DEF DeleteCommit, EndJob
  <2>5. LoginsPassed' /\ DeletesPassed'
    <3>1. ASSUME NEW u \in Threads,
                 (At(u, "update") \/ At(u, "issue") \/ At(u, "delete"))'
          PROVE  job'[u] = job[u]
          BY <2>4, <3>1 DEF At
    <3>2. QED
      BY <3>1, OtherJobsKeepIdentity DEF LoginsPassed, DeletesPassed, Registered
  <2>6. QED
    BY <2>2, <2>3, <2>5 DEF Identity, SessionIsOwners, Registered
<1>10. ASSUME NEW t \in Threads, StoreError(t)
       PROVE  Identity'
       BY <1>10, <1>t, StepKeepsIdentity DEF StoreError, EndJob
<1>11. CASE RPRestart
       BY <1>11 DEF RPRestart, Identity, CredsAreRegistered, LoginsPassed,
          SessionIsOwners, DeletesPassed, At, Registered
<1>12. QED
  BY <1>1, <1>2, <1>3, <1>4, <1>5, <1>6, <1>7, <1>s, <1>8, <1>f, <1>9,
     <1>10, <1>11, ServerSteps

-----------------------------------------------------------------------------
(* One ceremony per challenge.                                             *)

\* What the store has recorded of a challenge stays recorded.
LEMMA HistoryGrows ==
    ASSUME TypeOK, [Next]_vars, NEW c \in Challenges
    PROVE  /\ issue[c] # None => issue'[c] = issue[c]
           /\ uses[c] > 0 => uses'[c] > 0
<1>1. CASE UNCHANGED <<issue, uses>>
      BY <1>1
<1>2. ASSUME NEW k \in Keys, NEW d \in Challenges, Issue(k, d)
      PROVE  /\ issue[c] # None => issue'[c] = issue[c]
             /\ uses[c] > 0 => uses'[c] > 0
      BY <1>2 DEF Issue, TypeOK
<1>3. ASSUME NEW t \in Threads, ConsumeCheck(t)
      PROVE  /\ issue[c] # None => issue'[c] = issue[c]
             /\ uses[c] > 0 => uses'[c] > 0
  <2>1. uses' = uses \/ uses' = [uses EXCEPT ![call[t].got] = @ + 1]
        BY <1>3 DEF ConsumeCheck
  <2>2. QED BY <1>3, <2>1 DEF ConsumeCheck, TypeOK
<1>4. QED
  BY <1>1, <1>2, <1>3 DEF Next, Tick, ConsumeTake, Restart, vars

\* A step that neither gets a request past Consume nor adds a session or a
\* registration keeps what is known of the challenges.
LEMMA QuietSteps ==
    ASSUME TypeOK, [Next]_vars, RPTypeOK, RPTypeOK',
           ChallengesAreSpent, OneCeremonyPerChallenge,
           sessions' \subseteq sessions, enrolled' \subseteq enrolled,
           \A t \in Threads, c \in Challenges : Past(t, c)' =>
               /\ Past(t, c)
               /\ job'[t].kind = job[t].kind
               /\ JobKey(job[t])' = JobKey(job[t])
    PROVE  ChallengesAreSpent' /\ OneCeremonyPerChallenge'
<1>1. \A s \in sessions : s.challenge \in Challenges
      BY DEF RPTypeOK, Session
<1>2. \A e \in enrolled : e.challenge # None => e.challenge \in Challenges
      BY DEF RPTypeOK, Enrolment
<1>3. ASSUME NEW t \in Threads, NEW c \in Challenges, Past(t, c)'
      PROVE  /\ uses'[c] > 0
             /\ issue'[c] # None
             /\ issue'[c].key = JobKey(job[t])'
             /\ \A u \in Threads : Past(u, c)' => u = t
             /\ job'[t].kind = "login" =>
                   \A s \in sessions' : s.challenge # c
             /\ job'[t].kind = "register" =>
                   \A e \in enrolled' : e.challenge # c
  <2>1. /\ Past(t, c)
        /\ job'[t].kind = job[t].kind
        /\ JobKey(job[t])' = JobKey(job[t])
        BY <1>3
  <2>2. /\ uses[c] > 0
        /\ issue[c] # None
        /\ issue[c].key = JobKey(job[t])
        /\ \A u \in Threads : Past(u, c) => u = t
        /\ job[t].kind = "login" =>
              \A s \in sessions : s.challenge # c
        /\ job[t].kind = "register" =>
              \A e \in enrolled : e.challenge # c
        BY <2>1 DEF ChallengesAreSpent
  <2>3. issue'[c] = issue[c] /\ uses'[c] > 0
        BY <2>2, HistoryGrows
  <2>4. QED BY <2>1, <2>2, <2>3
<1>4. /\ \A s \in sessions' :
            /\ uses'[s.challenge] > 0
            /\ issue'[s.challenge] = issue[s.challenge]
            /\ issue[s.challenge] # None
      /\ \A e \in enrolled' : e.challenge # None =>
            /\ uses'[e.challenge] > 0
            /\ issue'[e.challenge] = issue[e.challenge]
            /\ issue[e.challenge] # None
      BY <1>1, <1>2, HistoryGrows DEF ChallengesAreSpent
<1>5. ChallengesAreSpent'
      BY <1>3, <1>4 DEF ChallengesAreSpent
<1>6. OneCeremonyPerChallenge'
      BY <1>4 DEF OneCeremonyPerChallenge, BegunAs
<1>7. QED BY <1>5, <1>6

\* Every step keeps the requests inside Consume in step with the store.
LEMMA NextKeepsConsumes ==
    ASSUME RPTypeOK, ConsumesAreJobs, [RPNext]_allVars
    PROVE  ConsumesAreJobs'
<1> DEFINE Fits(u) == /\ At(u, "consume") <=> call[u] # None
                      /\ At(u, "consume") => /\ call[u].key = JobKey(job[u])
                                             /\ call[u].got = job[u].challenge
<1>1. /\ job \in [Threads -> Jobs \cup {None}]
      /\ call \in [Threads -> ConsumeCall \cup {None}]
      /\ pending \in [Keys -> PendingChallenge \cup {None}]
      BY DEF RPTypeOK, TypeOK
<1>2. \A u \in Threads : Fits(u)
      BY DEF ConsumesAreJobs
<1>3. ASSUME NEW t \in Threads,
             \A u \in Threads : u # t => job'[u] = job[u] /\ call'[u] = call[u],
             Fits(t)'
      PROVE  ConsumesAreJobs'
  <2>1. ASSUME NEW u \in Threads PROVE Fits(u)'
    <3>1. CASE u = t
          BY <1>3, <3>1
    <3>2. CASE u # t
          BY <1>2, <1>3, <3>2 DEF At, JobKey
    <3>3. QED BY <3>1, <3>2
  <2>2. QED BY <2>1 DEF ConsumesAreJobs
<1>4. CASE UNCHANGED <<rpVars, call>>
      BY <1>2, <1>4 DEF ConsumesAreJobs, rpVars, At, JobKey
<1>5. ASSUME NEW t \in Threads, NEW u \in Users, NEW c \in Challenges,
             NEW a \in Attestations, RegisterFinish(t, u, c, a)
      PROVE  ConsumesAreJobs'
  <2> DEFINE key == <<u, "register">>
             taken == [key |-> key, got |-> c, taken |-> pending[key]]
             j == [kind |-> "register", at |-> "consume", user |-> u,
                   challenge |-> c, posted |-> a]
  <2>1. taken \in ConsumeCall /\ j \in EnrolJob
        BY <1>1 DEF ConsumeCall, Keys, Purposes, EnrolJob
  <2>2. taken # None /\ j # None
        BY <2>1, NoneAssumption DEF Jobs
  <2>3. /\ call'[t] = taken /\ job'[t] = j
        /\ \A v \in Threads :
              v # t => job'[v] = job[v] /\ call'[v] = call[v]
        BY <1>1, <1>5 DEF RegisterFinish, StartJob, ConsumeTake
  <2>4. /\ call'[t].key = key /\ call'[t].got = c
        /\ job'[t].at = "consume" /\ job'[t].challenge = c
        /\ JobKey(job[t])' = key
        BY <2>3 DEF JobKey
  <2>5. Fits(t)'
        BY <2>2, <2>3, <2>4 DEF At
  <2>6. QED BY <1>3, <2>3, <2>5
<1>6. ASSUME NEW t \in Threads, NEW n \in Names, NEW c \in Challenges,
             NEW a \in Assertions, LoginFinish(t, n, c, a)
      PROVE  ConsumesAreJobs'
  <2> DEFINE key == <<n, "login">>
             taken == [key |-> key, got |-> c, taken |-> pending[key]]
             j == [kind |-> "login", at |-> "consume", name |-> n,
                   challenge |-> c, posted |-> a, cred |-> NoCred]
  <2>1. taken \in ConsumeCall /\ j \in LoginJob
        BY <1>1 DEF ConsumeCall, Keys, Purposes, LoginJob
  <2>2. taken # None /\ j # None
        BY <2>1, NoneAssumption DEF Jobs
  <2>3. /\ call'[t] = taken /\ job'[t] = j
        /\ \A v \in Threads :
              v # t => job'[v] = job[v] /\ call'[v] = call[v]
        BY <1>1, <1>6 DEF LoginFinish, StartJob, ConsumeTake
  <2>4. /\ call'[t].key = key /\ call'[t].got = c
        /\ job'[t].at = "consume" /\ job'[t].challenge = c
        /\ JobKey(job[t])' = key
        BY <2>3 DEF JobKey
  <2>5. Fits(t)'
        BY <2>2, <2>3, <2>4 DEF At
  <2>6. QED BY <1>3, <2>3, <2>5
<1>7. ASSUME NEW t \in Threads, RegisterCheck(t) \/ LoginCheck(t)
      PROVE  ConsumesAreJobs'
  <2>1. job[t] \in EnrolJob \/ job[t] \in LoginJob
        BY <1>7, JobTypes DEF RegisterCheck, LoginCheck
  <2>2. \A s \in {"add", "find"} : [job[t] EXCEPT !.at = s].at # "consume"
        BY <2>1 DEF EnrolJob, LoginJob
  <2>3. /\ call'[t] = None
        /\ job'[t] # None => job'[t].at # "consume"
        /\ \A v \in Threads :
              v # t => job'[v] = job[v] /\ call'[v] = call[v]
        BY <1>1, <1>7, <2>2
        DEF RegisterCheck, LoginCheck, MoveJob, EndJob, ConsumeCheck
  <2>4. QED BY <1>3, <2>3 DEF At
<1>8. ASSUME NEW t \in Threads, NEW s \in sessions, NEW i \in Ids,
             DeleteRequest(t, s, i)
      PROVE  ConsumesAreJobs'
  <2>1. call[t] = None
        BY <1>2, <1>8 DEF DeleteRequest, At
  <2>2. /\ call' = call /\ job'[t].at = "owner"
        /\ \A v \in Threads : v # t => job'[v] = job[v]
        BY <1>1, <1>8 DEF DeleteRequest, StartJob, vars
  <2>3. QED BY <1>3, <2>1, <2>2 DEF At
<1>9. ASSUME NEW t \in Threads,
             \/ RegisterAdd(t) \/ LoginFind(t) \/ LoginUpdate(t)
             \/ LoginSession(t) \/ DeleteFind(t) \/ DeleteCommit(t)
             \/ StoreError(t)
      PROVE  ConsumesAreJobs'
  <2> DEFINE found == [job[t] EXCEPT !.at = "update",
                                    !.cred = creds[job[t].posted.id]]
             stored == [job[t] EXCEPT !.at = "issue"]
             owned == [job[t] EXCEPT !.at = "delete"]
  <2>1. job[t] # None /\ job[t].at # "consume"
        BY <1>9, JobTypes DEF RegisterAdd, LoginFind, LoginUpdate, LoginSession,
                              DeleteFind, DeleteCommit, StoreError, DeleteJob
  <2>2. call[t] = None
        BY <1>2, <2>1 DEF At
  <2>3. /\ job[t] \in LoginJob => found.at = "update" /\ stored.at = "issue"
        /\ job[t] \in DeleteJob => owned.at = "delete"
        BY DEF LoginJob, DeleteJob
  <2>4. /\ LoginFind(t) \/ LoginUpdate(t) => job[t] \in LoginJob
        /\ DeleteFind(t) => job[t] \in DeleteJob
        BY JobTypes DEF LoginFind, LoginUpdate, DeleteFind
  <2>5. /\ call' = call
        /\ \/ job'[t] = None
           \/ LoginFind(t) /\ job'[t] = found
           \/ LoginUpdate(t) /\ job'[t] = stored
           \/ DeleteFind(t) /\ job'[t] = owned
        /\ \A v \in Threads : v # t => job'[v] = job[v]
        BY <1>1, <1>9 DEF RegisterAdd, LoginFind, LoginUpdate, LoginSession,
                          DeleteFind, DeleteCommit, StoreError, StartJob,
                          MoveJob, EndJob, vars
  <2>6. job'[t] = None \/ job'[t].at # "consume"
        BY <2>3, <2>4, <2>5
  <2>7. QED BY <1>3, <2>2, <2>5, <2>6 DEF At
<1>10. CASE RPRestart
       BY <1>10 DEF RPRestart, Restart, ConsumesAreJobs, At
<1> HIDE DEF Fits
<1>11. QED
  BY <1>4, <1>5, <1>6, <1>7, <1>8, <1>9, <1>10, ServerSteps

\* The steps of a request that get it no further past Consume.
LEMMA QuietHandlers ==
    ASSUME RPTypeOK, [RPNext]_allVars,
           \/ UNCHANGED <<rpVars, call>>
           \/ \E t \in Threads, u \in Users, c \in Challenges,
                 a \in Attestations : RegisterFinish(t, u, c, a)
           \/ \E t \in Threads, n \in Names, c \in Challenges,
                 a \in Assertions : LoginFinish(t, n, c, a)
           \/ \E t \in Threads, s \in sessions, i \in Ids :
                 DeleteRequest(t, s, i)
           \/ \E t \in Threads : \/ LoginFind(t) \/ LoginUpdate(t) \/ DeleteFind(t)
                               \/ DeleteCommit(t) \/ StoreError(t)
           \/ RPRestart,
           NEW v \in Threads, NEW d \in Challenges, Past(v, d)'
    PROVE  /\ Past(v, d)
           /\ job'[v].kind = job[v].kind
           /\ JobKey(job[v])' = JobKey(job[v])
<1> DEFINE Same == /\ Past(v, d)
                  /\ job'[v].kind = job[v].kind
                  /\ JobKey(job[v])' = JobKey(job[v])
<1>1. job \in [Threads -> Jobs \cup {None}]
      BY DEF RPTypeOK
<1>2. /\ job'[v] # None
      /\ job'[v].at \in {"find", "update", "issue", "add"}
      /\ job'[v].challenge = d
      BY DEF Past, At
<1>3. ASSUME job'[v] = job[v] PROVE Same
      BY <1>2, <1>3 DEF Past, At, JobKey
<1>4. ASSUME NEW t \in Threads, NEW u \in Users, NEW c \in Challenges,
             NEW a \in Attestations, RegisterFinish(t, u, c, a)
      PROVE  Same
  <2>1. v # t
        BY <1>1, <1>2, <1>4 DEF RegisterFinish, StartJob
  <2>2. QED BY <1>1, <1>3, <1>4, <2>1 DEF RegisterFinish, StartJob
<1>5. ASSUME NEW t \in Threads, NEW n \in Names, NEW c \in Challenges,
             NEW a \in Assertions, LoginFinish(t, n, c, a)
      PROVE  Same
  <2>1. v # t
        BY <1>1, <1>2, <1>5 DEF LoginFinish, StartJob
  <2>2. QED BY <1>1, <1>3, <1>5, <2>1 DEF LoginFinish, StartJob
<1>6. ASSUME NEW t \in Threads, NEW s \in sessions, NEW i \in Ids,
             DeleteRequest(t, s, i)
      PROVE  Same
  <2>1. v # t
        BY <1>1, <1>2, <1>6 DEF DeleteRequest, StartJob
  <2>2. QED BY <1>1, <1>3, <1>6, <2>1 DEF DeleteRequest, StartJob
<1>7. ASSUME NEW t \in Threads, DeleteCommit(t) \/ StoreError(t)
      PROVE  Same
  <2>1. v # t
        BY <1>1, <1>2, <1>7 DEF DeleteCommit, StoreError, EndJob
  <2>2. QED BY <1>1, <1>3, <1>7, <2>1 DEF DeleteCommit, StoreError, EndJob
<1>8. ASSUME NEW t \in Threads, LoginFind(t)
      PROVE  Same
  <2>1. CASE v = t
    <3>1. job[t] \in LoginJob /\ At(t, "find")
          BY <1>8, JobTypes DEF LoginFind, At
    <3>2. job'[t] = [job[t] EXCEPT !.at = "update",
                                   !.cred = creds[job[t].posted.id]]
          BY <1>1, <1>2, <1>8, <2>1 DEF LoginFind, StartJob, EndJob
    <3>3. /\ job'[t].kind = job[t].kind
          /\ job'[t].name = job[t].name
          /\ job'[t].challenge = job[t].challenge
          /\ job[t].kind = "login"
          BY <3>1, <3>2 DEF LoginJob
    <3>4. QED BY <1>2, <2>1, <3>1, <3>3 DEF Past, JobKey
  <2>2. CASE v # t
        BY <1>1, <1>3, <1>8, <2>2 DEF LoginFind, StartJob, EndJob
  <2>3. QED BY <2>1, <2>2
<1>u. ASSUME NEW t \in Threads, LoginUpdate(t)
      PROVE  Same
  <2>1. CASE v = t
    <3>1. job[t] \in LoginJob /\ At(t, "update")
          BY <1>u, JobTypes DEF LoginUpdate, At
    <3>2. job'[t] = [job[t] EXCEPT !.at = "issue"]
          BY <1>1, <1>2, <1>u, <2>1 DEF LoginUpdate, MoveJob, EndJob
    <3>3. /\ job'[t].kind = job[t].kind
          /\ job'[t].name = job[t].name
          /\ job'[t].challenge = job[t].challenge
          /\ job[t].kind = "login"
          BY <3>1, <3>2, MovedLogin DEF LoginJob
    <3>4. QED BY <1>2, <2>1, <3>1, <3>3 DEF Past, JobKey
  <2>2. CASE v # t
        BY <1>1, <1>3, <1>u, <2>2 DEF LoginUpdate, MoveJob, EndJob
  <2>3. QED BY <2>1, <2>2
<1>f. ASSUME NEW t \in Threads, DeleteFind(t)
      PROVE  Same
  <2>1. job[t] \in DeleteJob
        BY <1>f, JobTypes DEF DeleteFind
  <2>2. [job[t] EXCEPT !.at = "delete"].at = "delete"
        BY <2>1 DEF DeleteJob
  <2>3. v # t
        BY <1>1, <1>2, <1>f, <2>2 DEF DeleteFind, MoveJob, EndJob
  <2>4. QED BY <1>1, <1>3, <1>f, <2>3 DEF DeleteFind, MoveJob, EndJob
<1>9. CASE UNCHANGED <<rpVars, call>>
      BY <1>3, <1>9 DEF rpVars
<1>10. CASE RPRestart
       BY <1>2, <1>10 DEF RPRestart
<1>11. QED
  BY <1>4, <1>5, <1>6, <1>7, <1>8, <1>u, <1>f, <1>9, <1>10

Ceremonies == /\ ConsumesAreJobs
              /\ ChallengesAreSpent
              /\ OneCeremonyPerChallenge

\* A request gets past Consume only with a challenge that nothing else in
\* the server holds or has held: the store had never accepted it.
LEMMA CheckKeepsCeremonies ==
    ASSUME IInv, RPTypeOK, RPTypeOK', Ceremonies, [RPNext]_allVars,
           NEW t \in Threads, RegisterCheck(t) \/ LoginCheck(t)
    PROVE  ChallengesAreSpent' /\ OneCeremonyPerChallenge'
<1>1. /\ job \in [Threads -> Jobs \cup {None}]
      /\ uses \in [Challenges -> Nat]
      BY DEF RPTypeOK, TypeOK
<1>2. job[t] \in EnrolJob \/ job[t] \in LoginJob
      BY JobTypes DEF RegisterCheck, LoginCheck
<1>3. /\ UNCHANGED <<sessions, enrolled>>
      /\ ConsumeCheck(t)
      /\ \A u \in Threads : u # t => job'[u] = job[u]
      BY <1>1 DEF RegisterCheck, LoginCheck, MoveJob, EndJob
<1>4. CASE job'[t] = None
  <2>1. \A u \in Threads, d \in Challenges : Past(u, d)' =>
            /\ Past(u, d)
            /\ job'[u].kind = job[u].kind
            /\ JobKey(job[u])' = JobKey(job[u])
        BY <1>3, <1>4 DEF Past, At, JobKey
  <2>2. QED BY <1>3, <2>1, QuietSteps, HandlersUseTheStore
               DEF Ceremonies, RPTypeOK
<1>5. CASE job'[t] # None
  <2> DEFINE c == job[t].challenge
  <2>1. /\ Verdict(call[t]) = "ok"
        /\ \E s \in {"add", "find"} : job'[t] = [job[t] EXCEPT !.at = s]
        BY <1>1, <1>5 DEF RegisterCheck, LoginCheck, MoveJob, EndJob
  <2>2. /\ job'[t].kind = job[t].kind
        /\ job'[t].challenge = c
        /\ JobKey(job[t])' = JobKey(job[t])
        BY <1>2, <2>1 DEF EnrolJob, LoginJob, JobKey
  <2>3. /\ call[t] # None
        /\ call[t].key = JobKey(job[t])
        /\ call[t].got = c
        BY DEF Ceremonies, ConsumesAreJobs, At, RegisterCheck, LoginCheck
  <2>4. /\ c \in Challenges
        /\ issue[c] # None
        /\ issue[c].key = JobKey(job[t])
        /\ uses[c] = 0
        BY <2>1, <2>3, AcceptedWasTaken
  <2>5. issue' = issue /\ uses' = [uses EXCEPT ![c] = 1]
        BY <1>1, <1>3, <2>1, <2>3, <2>4 DEF ConsumeCheck
  <2>6. /\ \A u \in Threads : ~Past(u, c)
        /\ \A s \in sessions : s.challenge # c
        /\ \A e \in enrolled : e.challenge # c
        BY <2>4 DEF Ceremonies, ChallengesAreSpent
  <2>7. ASSUME NEW u \in Threads, NEW d \in Challenges, Past(u, d)'
        PROVE  /\ uses'[d] > 0
               /\ issue'[d] # None
               /\ issue'[d].key = JobKey(job[u])'
               /\ \A w \in Threads : Past(w, d)' => w = u
               /\ job'[u].kind = "login" =>
                     \A s \in sessions' : s.challenge # d
               /\ job'[u].kind = "register" =>
                     \A e \in enrolled' : e.challenge # d
    <3>1. \A w \in Threads : w # t => (Past(w, d)' <=> Past(w, d))
          BY <1>3 DEF Past, At
    <3>2. CASE u = t
      <4>1. d = c
            BY <2>2, <2>7, <3>2 DEF Past
      <4>2. uses'[c] > 0
            BY <1>1, <2>4, <2>5
      <4>3. QED BY <1>3, <2>2, <2>4, <2>5, <2>6, <3>1, <3>2, <4>1, <4>2
    <3>3. CASE u # t
      <4>1. Past(u, d) /\ job'[u] = job[u]
            BY <1>3, <2>7, <3>1, <3>3
      <4>2. d # c
            BY <2>6, <4>1
      <4>3. ~Past(t, d)'
            BY <2>2, <4>2 DEF Past
      <4>4. uses'[d] = uses[d]
            BY <1>1, <2>4, <2>5, <4>2
      <4>5. /\ uses[d] > 0
            /\ issue[d] # None
            /\ issue[d].key = JobKey(job[u])
            /\ \A w \in Threads : Past(w, d) => w = u
            /\ job[u].kind = "login" =>
                  \A s \in sessions : s.challenge # d
            /\ job[u].kind = "register" =>
                  \A e \in enrolled : e.challenge # d
            BY <4>1 DEF Ceremonies, ChallengesAreSpent
      <4>6. JobKey(job[u])' = JobKey(job[u])
            BY <4>1 DEF JobKey
      <4>7. QED BY <1>3, <2>5, <3>1, <4>1, <4>3, <4>4, <4>5, <4>6
    <3>4. QED BY <3>2, <3>3
  <2>8. /\ \A s \in sessions' :
              uses'[s.challenge] > 0 /\ issue'[s.challenge] # None
        /\ \A e \in enrolled' : e.challenge # None =>
              uses'[e.challenge] > 0 /\ issue'[e.challenge] # None
        BY <1>1, <1>3, <2>4, <2>5, <2>6
        DEF Ceremonies, ChallengesAreSpent, RPTypeOK, Session, Enrolment
  <2>9. ChallengesAreSpent'
        BY <2>7, <2>8 DEF ChallengesAreSpent
  <2>10. OneCeremonyPerChallenge'
        BY <1>3, <2>5 DEF Ceremonies, OneCeremonyPerChallenge, BegunAs
  <2>11. QED BY <2>9, <2>10
<1>6. QED BY <1>4, <1>5

\* A request that ends in a registration or a session hands its challenge
\* over to it, and was the only one to hold it.
LEMMA OutcomeKeepsCeremonies ==
    ASSUME RPTypeOK, Ceremonies, [RPNext]_allVars,
           NEW t \in Threads, RegisterAdd(t) \/ LoginSession(t)
    PROVE  ChallengesAreSpent' /\ OneCeremonyPerChallenge'
<1> DEFINE c == job[t].challenge
          e0 == [user |-> job[t].user, id |-> job[t].posted.id,
                 key |-> job[t].posted.key, challenge |-> c]
          s0 == NewSession(job[t])
<1>1. job \in [Threads -> Jobs \cup {None}]
      BY DEF RPTypeOK
<1>2. /\ RegisterAdd(t) => job[t].kind = "register" /\ job[t] \in EnrolJob
      /\ LoginSession(t) => job[t].kind = "login" /\ job[t] \in LoginJob
      BY JobTypes DEF RegisterAdd, LoginSession
<1>3. c \in Challenges /\ Past(t, c)
      BY <1>2 DEF Past, At, RegisterAdd, LoginSession, EnrolJob, LoginJob
<1>4. /\ uses[c] > 0
      /\ issue[c] # None
      /\ issue[c].key = JobKey(job[t])
      /\ \A u \in Threads : Past(u, c) => u = t
      /\ job[t].kind = "login" => \A s \in sessions : s.challenge # c
      /\ job[t].kind = "register" => \A e \in enrolled : e.challenge # c
      BY <1>3 DEF Ceremonies, ChallengesAreSpent
<1>5. /\ UNCHANGED <<issue, uses>>
      /\ job'[t] = None
      /\ \A u \in Threads : u # t => job'[u] = job[u]
      BY <1>1 DEF RegisterAdd, LoginSession, EndJob, vars
<1>6. /\ \A s \in sessions' :
            \/ s \in sessions
            \/ job[t].kind = "login" /\ s = s0
      /\ \A e \in enrolled' :
            \/ e \in enrolled
            \/ job[t].kind = "register" /\ e = e0
      BY <1>2 DEF RegisterAdd, LoginSession
<1>7. /\ s0.challenge = c
      /\ job[t].kind = "login" => issue[c].key = <<s0.name, "login">>
      /\ e0.challenge = c
      /\ job[t].kind = "register" => issue[c].key = <<e0.user, "register">>
      BY <1>4 DEF NewSession, JobKey
<1>8. ASSUME NEW u \in Threads, NEW d \in Challenges, Past(u, d)'
      PROVE  /\ uses'[d] > 0
             /\ issue'[d] # None
             /\ issue'[d].key = JobKey(job[u])'
             /\ \A w \in Threads : Past(w, d)' => w = u
             /\ job'[u].kind = "login" =>
                   \A s \in sessions' : s.challenge # d
             /\ job'[u].kind = "register" =>
                   \A e \in enrolled' : e.challenge # d
  <2>1. u # t
        BY <1>5, <1>8 DEF Past, At
  <2>2. job'[u] = job[u] /\ Past(u, d)
        BY <1>5, <1>8, <2>1 DEF Past, At
  <2>3. d # c
        BY <1>4, <2>1, <2>2
  <2>4. /\ uses[d] > 0
        /\ issue[d] # None
        /\ issue[d].key = JobKey(job[u])
        /\ \A w \in Threads : Past(w, d) => w = u
        /\ job[u].kind = "login" =>
              \A s \in sessions : s.challenge # d
        /\ job[u].kind = "register" =>
              \A e \in enrolled : e.challenge # d
        BY <2>2 DEF Ceremonies, ChallengesAreSpent
  <2>5. \A w \in Threads : Past(w, d)' => Past(w, d)
        BY <1>5 DEF Past, At
  <2>6. JobKey(job[u])' = JobKey(job[u])
        BY <2>2 DEF JobKey
  <2>7. /\ s0.challenge # d /\ e0.challenge # d
        BY <1>7, <2>3
  <2>8. QED BY <1>5, <1>6, <2>2, <2>4, <2>5, <2>6, <2>7
<1> HIDE DEF c, s0, e0
<1>9. /\ \A s \in sessions' :
            uses'[s.challenge] > 0 /\ issue'[s.challenge] # None
      /\ \A e \in enrolled' : e.challenge # None =>
            uses'[e.challenge] > 0 /\ issue'[e.challenge] # None
      BY <1>4, <1>5, <1>6, <1>7 DEF Ceremonies, ChallengesAreSpent
<1>10. ChallengesAreSpent'
       BY <1>8, <1>9 DEF ChallengesAreSpent
<1>11. /\ \A s, z \in sessions' : s.challenge = z.challenge => s = z
       /\ \A s \in sessions' : issue'[s.challenge].key = <<s.name, "login">>
       BY <1>4, <1>5, <1>6, <1>7
       DEF Ceremonies, OneCeremonyPerChallenge, BegunAs
<1>12. /\ \A e, f \in enrolled' :
             e.challenge = f.challenge /\ e.challenge # None => e = f
       /\ \A e \in enrolled' : e.challenge # None =>
             issue'[e.challenge].key = <<e.user, "register">>
       BY <1>4, <1>5, <1>6, <1>7
       DEF Ceremonies, OneCeremonyPerChallenge, BegunAs
<1>13. QED BY <1>9, <1>10, <1>11, <1>12 DEF OneCeremonyPerChallenge, BegunAs

\* Every step keeps each challenge to one ceremony.
LEMMA NextKeepsCeremonies ==
    ASSUME IInv, RPTypeOK, RPTypeOK', Ceremonies, [RPNext]_allVars
    PROVE  Ceremonies'
<1>1. ConsumesAreJobs'
      BY NextKeepsConsumes DEF Ceremonies
<1>2. ASSUME NEW t \in Threads, RegisterCheck(t) \/ LoginCheck(t)
      PROVE  ChallengesAreSpent' /\ OneCeremonyPerChallenge'
      BY <1>2, CheckKeepsCeremonies
<1>3. ASSUME NEW t \in Threads, RegisterAdd(t) \/ LoginSession(t)
      PROVE  ChallengesAreSpent' /\ OneCeremonyPerChallenge'
      BY <1>3, OutcomeKeepsCeremonies
<1> DEFINE Quiet ==
       \/ UNCHANGED <<rpVars, call>>
       \/ \E t \in Threads, u \in Users, c \in Challenges,
             a \in Attestations : RegisterFinish(t, u, c, a)
       \/ \E t \in Threads, n \in Names, c \in Challenges,
             a \in Assertions : LoginFinish(t, n, c, a)
       \/ \E t \in Threads, s \in sessions, i \in Ids :
             DeleteRequest(t, s, i)
       \/ \E t \in Threads : \/ LoginFind(t) \/ LoginUpdate(t) \/ DeleteFind(t)
                           \/ DeleteCommit(t) \/ StoreError(t)
       \/ RPRestart
<1>4. CASE Quiet
  <2>1. sessions' \subseteq sessions /\ enrolled' \subseteq enrolled
        BY <1>4 DEF rpVars, RegisterFinish, LoginFinish, DeleteRequest,
                    LoginFind, LoginUpdate, DeleteFind, DeleteCommit,
                    StoreError, RPRestart
  <2>2. \A v \in Threads, d \in Challenges : Past(v, d)' =>
            /\ Past(v, d)
            /\ job'[v].kind = job[v].kind
            /\ JobKey(job[v])' = JobKey(job[v])
        BY <1>4, QuietHandlers
  <2>3. TypeOK /\ ChallengesAreSpent /\ OneCeremonyPerChallenge
        BY DEF Ceremonies, RPTypeOK
  <2>4. [Next]_vars
        BY HandlersUseTheStore
  <2> HIDE DEF Quiet
  <2>5. QED BY <2>1, <2>2, <2>3, <2>4, QuietSteps, <1>1 DEF Ceremonies
<1>5. (\E t \in Threads : \/ RegisterCheck(t) \/ LoginCheck(t)
                           \/ RegisterAdd(t) \/ LoginSession(t))
      \/ Quiet
      BY ServerSteps
<1>6. QED BY <1>1, <1>2, <1>3, <1>4, <1>5 DEF Ceremonies

-----------------------------------------------------------------------------
(* Deleted credentials.                                                    *)

Revocation == /\ SessionsInTime
              /\ DeletedIsGone
              /\ LateAreKnown
              /\ RevocationBound

\* Time does not run backwards.
LEMMA ClockAdvances ==
    ASSUME TypeOK, [Next]_vars
    PROVE  /\ clock \in Nat /\ clock' \in Nat
           /\ clock <= clock'
BY TimeAssumption DEF TypeOK, Times, Next, Tick, Issue, ConsumeTake,
                      ConsumeCheck, Restart, vars

\* A login gets to Sessions.Issue only through UpdateSignCount.
LEMMA IssuersStay ==
    ASSUME RPTypeOK, [RPNext]_allVars, NEW u \in Threads, At(u, "issue")'
    PROVE  \/ At(u, "issue") /\ job'[u] = job[u]
           \/ LoginUpdate(u) /\ job'[u] = [job[u] EXCEPT !.at = "issue"]
<1> DEFINE Stays == At(u, "issue") /\ job'[u] = job[u]
<1>1. job \in [Threads -> Jobs \cup {None}]
      BY DEF RPTypeOK
<1>2. job'[u] # None /\ job'[u].at = "issue"
      BY DEF At
<1>3. ASSUME job'[u] = job[u] PROVE Stays
      BY <1>2, <1>3 DEF At
<1>4. CASE UNCHANGED <<rpVars, call>>
      BY <1>3, <1>4 DEF rpVars
<1>5. ASSUME NEW t \in Threads, NEW n \in Users, NEW c \in Challenges,
             NEW a \in Attestations, RegisterFinish(t, n, c, a)
      PROVE  Stays
      BY <1>1, <1>2, <1>3, <1>5 DEF RegisterFinish, StartJob
<1>6. ASSUME NEW t \in Threads, NEW n \in Names, NEW c \in Challenges,
             NEW a \in Assertions, LoginFinish(t, n, c, a)
      PROVE  Stays
      BY <1>1, <1>2, <1>3, <1>6 DEF LoginFinish, StartJob
<1>7. ASSUME NEW t \in Threads, NEW s \in sessions, NEW i \in Ids,
             DeleteRequest(t, s, i)
      PROVE  Stays
      BY <1>1, <1>2, <1>3, <1>7 DEF DeleteRequest, StartJob
<1>8. ASSUME NEW t \in Threads,
             RegisterCheck(t) \/ LoginCheck(t) \/ LoginFind(t) \/ DeleteFind(t)
      PROVE  Stays
  <2>1. /\ RegisterCheck(t) => job[t] \in EnrolJob
        /\ LoginCheck(t) \/ LoginFind(t) => job[t] \in LoginJob
        /\ DeleteFind(t) => job[t] \in DeleteJob
        BY JobTypes DEF RegisterCheck, LoginCheck, LoginFind, DeleteFind
  <2>2. /\ job[t] \in EnrolJob => [job[t] EXCEPT !.at = "add"].at = "add"
        /\ job[t] \in LoginJob =>
              /\ [job[t] EXCEPT !.at = "find"].at = "find"
              /\ [job[t] EXCEPT !.at = "update",
                       !.cred = creds[job[t].posted.id]].at = "update"
        /\ job[t] \in DeleteJob =>
              [job[t] EXCEPT !.at = "delete"].at = "delete"
        BY DEF EnrolJob, LoginJob, DeleteJob
  <2>3. u # t
        BY <1>1, <1>2, <1>8, <2>1, <2>2
        DEF RegisterCheck, LoginCheck, LoginFind, DeleteFind, MoveJob,
            StartJob, EndJob
  <2>4. QED
    BY <1>1, <1>3, <1>8, <2>3
    DEF RegisterCheck, LoginCheck, LoginFind, DeleteFind, MoveJob,
        StartJob, EndJob
<1>9. ASSUME NEW t \in Threads,
             RegisterAdd(t) \/ LoginSession(t) \/ DeleteCommit(t) \/ StoreError(t)
      PROVE  Stays
  <2>1. u # t
        BY <1>1, <1>2, <1>9
        DEF RegisterAdd, LoginSession, DeleteCommit, StoreError, EndJob
  <2>2. QED
    BY <1>1, <1>3, <1>9, <2>1
    DEF RegisterAdd, LoginSession, DeleteCommit, StoreError, EndJob
<1>10. ASSUME NEW t \in Threads, LoginUpdate(t)
       PROVE  \/ Stays
              \/ LoginUpdate(u) /\ job'[u] = [job[u] EXCEPT !.at = "issue"]
       BY <1>1, <1>2, <1>3, <1>10 DEF LoginUpdate, MoveJob, EndJob
<1>11. CASE RPRestart
       BY <1>2, <1>11 DEF RPRestart
<1> HIDE DEF Stays
<1>12. QED
  BY <1>4, <1>5, <1>6, <1>7, <1>8, <1>9, <1>10, <1>11, ServerSteps DEF Stays

\* Every step keeps sessions short, what was deleted out of the store, and
\* the logins that a deletion came too late for on its record: one that had
\* only found the credential is refused by UpdateSignCount.
LEMMA NextKeepsRevocation ==
    ASSUME RPTypeOK, RPTypeOK', Revocation, [RPNext]_allVars
    PROVE  Revocation'
<1>1. /\ clock \in Nat /\ clock' \in Nat /\ clock <= clock'
      /\ SessionTTL \in Nat
      BY HandlersUseTheStore, ClockAdvances DEF RPTypeOK
<1>2. /\ \A s \in sessions : s.exp \in Nat /\ s.posted.id \in Ids
      /\ deletion \in [Ids -> Deletion \cup {None}]
      /\ creds \in Contents
      /\ job \in [Threads -> Jobs \cup {None}]
      BY DEF RPTypeOK, Session, Assertion
<1>i. ASSUME NEW u \in Threads, At(u, "issue")'
      PROVE  job'[u].posted.id \in Ids
      BY <1>i DEF RPTypeOK, Jobs, LoginJob, EnrolJob, DeleteJob, At, Assertion
<1>k. ASSUME NEW u \in Threads, At(u, "issue")', ~LoginUpdate(u)
      PROVE  At(u, "issue") /\ job'[u] = job[u]
      BY <1>k, IssuersStay
<1>3. ASSUME creds' = creds, deletion' = deletion, sessions' \subseteq sessions,
             \A u \in Threads : ~LoginUpdate(u)
      PROVE  Revocation'
  <2>1. SessionsInTime'
        BY <1>1, <1>2, <1>3 DEF Revocation, SessionsInTime
  <2>2. LateAreKnown'
        BY <1>k, <1>3 DEF Revocation, LateAreKnown
  <2>3. QED BY <1>3, <2>1, <2>2 DEF Revocation, DeletedIsGone, RevocationBound
<1>4. ASSUME NEW t \in Threads, RegisterAdd(t), \A u \in Threads : ~LoginUpdate(u)
      PROVE  Revocation'
  <2> DEFINE i == job[t].posted.id
             cred == NewCredential(job[t].user, job[t].posted)
  <2>1. i \in Ids
        BY <1>4, JobTypes DEF RegisterAdd, EnrolJob, Attestation
  <2>2. CASE deletion' = deletion /\ creds' = creds
        BY <1>3, <1>4, <2>2 DEF RegisterAdd
  <2>3. CASE /\ deletion' = [deletion EXCEPT ![i] = None]
             /\ creds' = [creds EXCEPT ![i] = cred]
    <3>1. /\ deletion'[i] = None
          /\ \A k \in Ids : k # i => /\ deletion'[k] = deletion[k]
                                     /\ creds'[k] = creds[k]
          BY <1>2, <2>1, <2>3 DEF Contents
    <3>2. sessions' = sessions /\ clock' = clock
          BY <1>4 DEF RegisterAdd, vars
    <3>3. DeletedIsGone'
          BY <3>1 DEF Revocation, DeletedIsGone
    <3>4. RevocationBound'
          BY <1>2, <3>1, <3>2 DEF Revocation, RevocationBound
    <3>5. LateAreKnown'
          BY <1>i, <1>k, <1>4, <3>1 DEF Revocation, LateAreKnown
    <3>6. QED BY <3>2, <3>3, <3>4, <3>5 DEF Revocation, SessionsInTime
  <2>4. QED BY <1>4, <2>2, <2>3 DEF RegisterAdd, Effect
<1>5. ASSUME NEW t \in Threads, LoginUpdate(t)
      PROVE  Revocation'
  <2> DEFINE i == job[t].posted.id
             update == [kind |-> "UpdateSignCount", id |-> i,
                        count |-> job[t].posted.count]
  <2>1. job[t] \in LoginJob /\ i \in Ids
        BY <1>5, JobTypes DEF LoginUpdate, LoginJob, Assertion
  <2>2. UNCHANGED <<sessions, deletion, clock>>
        BY <1>5 DEF LoginUpdate, vars
  <2>3. SessionsInTime' /\ RevocationBound'
        BY <2>2 DEF Revocation, SessionsInTime, RevocationBound
  <2>4. DeletedIsGone'
    <3>1. \A k \in Ids : creds[k] = NoCred => creds'[k] = NoCred
          BY <1>2, <1>5, <2>1 DEF LoginUpdate, Refused, Effect, Contents
    <3>2. QED BY <2>2, <3>1 DEF Revocation, DeletedIsGone
  <2>5. LateAreKnown'
    <3>1. ASSUME NEW u \in Threads, At(u, "issue")',
                 deletion[job'[u].posted.id] # None
          PROVE  job'[u].challenge \in deletion[job'[u].posted.id].late
      <4>1. CASE u = t
        <5>1. CASE Refused(update, creds)
          <6>1. job'[t] = None
                BY <1>2, <1>5, <5>1 DEF LoginUpdate, EndJob
          <6>2. QED BY <3>1, <4>1, <6>1 DEF At
        <5>2. CASE ~Refused(update, creds)
          <6>1. deletion[i] = None
                BY <2>1, <5>2 DEF Refused, Revocation, DeletedIsGone
          <6>2. job'[t] = [job[t] EXCEPT !.at = "issue"]
                BY <1>2, <1>5, <5>2 DEF LoginUpdate, MoveJob
          <6>3. job'[t].posted = job[t].posted
                BY <2>1, <6>2, MovedLogin
          <6>4. QED BY <3>1, <4>1, <6>1, <6>3
        <5>3. QED BY <5>1, <5>2
      <4>2. CASE u # t
        <5>1. job'[u] = job[u]
              BY <1>2, <1>5, <4>2 DEF LoginUpdate, MoveJob, EndJob
        <5>2. QED BY <3>1, <5>1 DEF At, Revocation, LateAreKnown
      <4>3. QED BY <4>1, <4>2
    <3>2. QED BY <2>2, <3>1 DEF LateAreKnown
  <2>6. QED BY <2>3, <2>4, <2>5 DEF Revocation
<1>s. ASSUME NEW t \in Threads, LoginSession(t), \A u \in Threads : ~LoginUpdate(u)
      PROVE  Revocation'
  <2> DEFINE s0 == NewSession(job[t])
             d0 == deletion[s0.posted.id]
  <2>1. UNCHANGED <<creds, deletion, clock>>
        BY <1>s DEF LoginSession, vars
  <2>2. \A s \in sessions' : s \in sessions \/ s = s0
        BY <1>s DEF LoginSession
  <2>3. /\ s0.exp = clock + SessionTTL
        /\ s0.posted = job[t].posted /\ s0.challenge = job[t].challenge
        BY DEF NewSession
  <2>4. d0 # None => s0.challenge \in d0.late
        BY <1>s, <2>3 DEF LoginSession, At, Revocation, LateAreKnown
  <2> HIDE DEF s0
  <2>5. SessionsInTime'
        BY <1>1, <2>1, <2>2, <2>3 DEF Revocation, SessionsInTime
  <2>6. RevocationBound'
        BY <2>1, <2>2, <2>4 DEF Revocation, RevocationBound
  <2>7. DeletedIsGone' /\ LateAreKnown'
        BY <1>k, <1>s, <2>1 DEF Revocation, DeletedIsGone, LateAreKnown
  <2>8. QED BY <2>5, <2>6, <2>7 DEF Revocation
<1>6. ASSUME NEW t \in Threads, DeleteCommit(t), \A u \in Threads : ~LoginUpdate(u)
      PROVE  Revocation'
  <2> DEFINE i == job[t].id
             d == [at |-> clock, late |-> Late(i)]
  <2>1. i \in Ids
        BY <1>6, JobTypes DEF DeleteCommit, DeleteJob
  <2>2. CASE deletion' = deletion /\ creds' = creds
        BY <1>3, <1>6, <2>2 DEF DeleteCommit
  <2>3. CASE /\ deletion' = [deletion EXCEPT ![i] = d]
             /\ creds' = [creds EXCEPT ![i] = NoCred]
    <3>1. /\ deletion'[i] = d /\ creds'[i] = NoCred
          /\ \A k \in Ids : k # i => /\ deletion'[k] = deletion[k]
                                     /\ creds'[k] = creds[k]
          BY <1>2, <2>1, <2>3 DEF Contents
    <3>2. sessions' = sessions /\ clock' = clock
          BY <1>6 DEF DeleteCommit, vars
    <3>3. d.at = clock /\ d.late = Late(i)
          OBVIOUS
    <3>4. DeletedIsGone'
          BY <3>1 DEF Revocation, DeletedIsGone
    <3>5. RevocationBound'
          BY <1>2, <3>1, <3>2, <3>3
          DEF Revocation, RevocationBound, SessionsInTime
    <3>6. LateAreKnown'
      <4>1. ASSUME NEW u \in Threads, At(u, "issue")',
                   deletion'[job'[u].posted.id] # None
            PROVE  job'[u].challenge \in deletion'[job'[u].posted.id].late
        <5>1. /\ At(u, "issue") /\ job'[u] = job[u]
              /\ job'[u].posted.id \in Ids
              BY <1>i, <1>k, <1>6, <4>1
        <5>2. CASE job[u].posted.id = i
          <6>1. job[u].challenge \in Late(i)
                BY <5>1, <5>2 DEF Late, At
          <6>2. QED BY <3>1, <3>3, <5>1, <5>2, <6>1
        <5>3. CASE job[u].posted.id # i
              BY <3>1, <4>1, <5>1, <5>3 DEF Revocation, LateAreKnown
        <5>4. QED BY <5>2, <5>3
      <4>2. QED BY <4>1 DEF LateAreKnown
    <3>7. QED BY <3>2, <3>4, <3>5, <3>6 DEF Revocation, SessionsInTime
  <2>4. QED BY <1>6, <2>2, <2>3 DEF DeleteCommit, Effect
<1>7. ASSUME \A u \in Threads : ~LoginUpdate(u)
      PROVE  Revocation'
  <2>1. \/ \E t \in Threads : RegisterAdd(t) \/ LoginSession(t) \/ DeleteCommit(t)
        \/ creds' = creds /\ deletion' = deletion /\ sessions' \subseteq sessions
        BY <1>7, ServerSteps
        DEF rpVars, RegisterFinish, LoginFinish, DeleteRequest, RegisterCheck,
            LoginCheck, LoginFind, DeleteFind, StoreError, RPRestart
  <2>2. QED BY <1>3, <1>4, <1>s, <1>6, <1>7, <2>1
<1>8. QED BY <1>5, <1>7

-----------------------------------------------------------------------------
(* The theorems.                                                           *)

\* The invariant holds in every reachable state of the server.
THEOREM ServerInvariance == RPSpec => []RPInv
<1>1. RPInv /\ [RPNext]_allVars => RPInv'
  <2> SUFFICES ASSUME RPInv, [RPNext]_allVars
               PROVE  RPInv'
      OBVIOUS
  <2>1. IInv' /\ RPTypeOK'
        BY HandlersUseTheStore, NextKeepsIInv, NextKeepsRPTypes DEF RPInv
  <2>2. Identity'
        BY NextKeepsIdentity DEF RPInv, Identity
  <2>3. Ceremonies'
        BY <2>1, NextKeepsCeremonies DEF RPInv, Ceremonies
  <2>4. Revocation'
        BY <2>1, NextKeepsRevocation DEF RPInv, Revocation
  <2>5. QED BY <2>1, <2>2, <2>3, <2>4
            DEF RPInv, Identity, Ceremonies, Revocation
<1>2. QED BY <1>1, InitEstablishesRPInv, PTL DEF RPSpec

\* The server's state keeps its types.
THEOREM ServerTypes == RPSpec => []RPTypeOK
<1>1. RPInv => RPTypeOK
      BY DEF RPInv
<1>2. QED BY <1>1, ServerInvariance, PTL

\* Every session belongs to the user whose credential signed for it.
THEOREM SessionsAreTheirOwners == RPSpec => []SessionIsOwners
<1>1. RPInv => SessionIsOwners
      BY DEF RPInv
<1>2. QED BY <1>1, ServerInvariance, PTL

\* No challenge serves two ceremonies, by however many requests at once.
THEOREM ChallengesServeOneCeremony == RPSpec => []OneCeremonyPerChallenge
<1>1. RPInv => OneCeremonyPerChallenge
      BY DEF RPInv
<1>2. QED BY <1>1, ServerInvariance, PTL

\* No request gets below the policy that the server runs under or below its
\* own, whatever the server is started with and started again.
THEOREM PolicyIsNeverLoosened == RPSpec => UVNeverLoosened
<1>1. RPInv /\ [RPNext]_allVars =>
        [\A s \in sessions' \ sessions :
            ~s.uv => /\ uvPolicy # "required"
                     /\ s.posted.override # "required"]_allVars
  <2> SUFFICES ASSUME RPInv, [RPNext]_allVars,
                      NEW s \in sessions' \ sessions, ~s.uv
               PROVE  uvPolicy # "required" /\ s.posted.override # "required"
      OBVIOUS
  <2>1. PICK t \in Threads : LoginSession(t)
        BY ServerSteps
        DEF rpVars, RegisterFinish, LoginFinish, DeleteRequest, RegisterCheck,
            RegisterAdd, LoginCheck, LoginFind, LoginUpdate, DeleteFind,
            DeleteCommit, StoreError, RPRestart
  <2>2. s = NewSession(job[t])
        BY <2>1 DEF LoginSession
  <2>3. s.uv = job[t].posted.uv /\ s.posted = job[t].posted
        BY <2>2 DEF NewSession
  <2>4. FlagsPass(EffectivePolicy(uvPolicy, s.posted.override),
                  s.posted.up, s.uv)
        BY <2>1, <2>3 DEF LoginSession, RPInv, LoginsPassed, At
  <2>5. EffectivePolicy(uvPolicy, s.posted.override) # "required"
        BY <2>4 DEF FlagsPass
  <2>6. uvPolicy \in UVPolicies
        BY DEF RPInv, RPTypeOK
  <2>7. QED BY <2>5, <2>6, EffectivePolicyTightens
<1>2. QED BY <1>1, ServerInvariance, PTL DEF RPSpec, UVNeverLoosened

\* No session outlives the deletion of its credential by more than its TTL,
\* but those of logins that the deletion found past UpdateSignCount.
THEOREM RevocationIsBounded == RPSpec => []RevocationBound
<1>1. RPInv => RevocationBound
      BY DEF RPInv
<1>2. QED BY <1>1, ServerInvariance, PTL

\* Only the last step of a request to delete removes a credential, and only
\* the one it names.
LEMMA OnlyDeletesRemove ==
    ASSUME RPTypeOK, [RPNext]_allVars, NEW i \in Ids,
           creds[i] # NoCred, creds'[i] = NoCred
    PROVE  \E t \in Threads : DeleteCommit(t) /\ job[t].id = i
<1>1. creds \in Contents
      BY DEF RPTypeOK
<1>2. ASSUME NEW t \in Threads, RegisterAdd(t)
      PROVE  creds'[i] # NoCred
  <2> DEFINE k == job[t].posted.id
             cred == NewCredential(job[t].user, job[t].posted)
  <2>1. job[t] \in EnrolJob /\ k \in Ids
        BY <1>1, <1>2, JobTypes DEF RegisterAdd, EnrolJob, Attestation
  <2>2. cred # NoCred
        BY <2>1 DEF EnrolJob, Attestation, NewCredential, Credential
  <2>3. creds' = creds \/ creds' = [creds EXCEPT ![k] = cred]
        BY <1>2 DEF RegisterAdd, Effect
  <2>4. QED BY <1>1, <2>1, <2>2, <2>3 DEF Contents
<1>3. ASSUME NEW t \in Threads, LoginUpdate(t)
      PROVE  creds'[i] # NoCred
  <2> DEFINE k == job[t].posted.id
             next == [creds[k] EXCEPT !.count = job[t].posted.count]
             update == [kind |-> "UpdateSignCount", id |-> k,
                        count |-> job[t].posted.count]
  <2>1. k \in Ids /\ job[t].posted.count \in Counts
        BY <1>1, <1>3, JobTypes DEF LoginUpdate, LoginJob, Assertion
  <2>2. ~Refused(update, creds) => next \in Credential
        BY <1>1, <2>1 DEF Refused, Contents, Credential
  <2>3. \/ creds' = creds
        \/ ~Refused(update, creds) /\ creds' = [creds EXCEPT ![k] = next]
        BY <1>3 DEF LoginUpdate, Effect
  <2>4. QED BY <1>1, <2>1, <2>2, <2>3 DEF Contents
<1>4. PICK t \in Threads : DeleteCommit(t)
  <2>1. \/ \E t \in Threads : \/ RegisterAdd(t) \/ LoginUpdate(t)
                              \/ DeleteCommit(t)
        \/ creds' = creds
        BY ServerSteps
        DEF rpVars, RegisterFinish, LoginFinish, DeleteRequest,
            RegisterCheck, LoginCheck, LoginFind, LoginSession, DeleteFind,
            StoreError, RPRestart
  <2>2. QED BY <1>2, <1>3, <2>1
<1>5. job[t].id = i
  <2>1. creds' = creds \/ creds' = [creds EXCEPT ![job[t].id] = NoCred]
        BY <1>4 DEF DeleteCommit, Effect
  <2>2. QED BY <1>1, <2>1 DEF Contents
<1>6. QED BY <1>4, <1>5

\* A credential is removed only for a user who registered it.
THEOREM RemovalIsForRegistrants == RPSpec => OnlyRegistrantsDelete
<1>1. RPInv /\ [RPNext]_allVars =>
        [\A i \in Ids :
            (creds[i] # NoCred /\ creds'[i] = NoCred) =>
                \E t \in Threads, e \in enrolled :
                    /\ Removes(t, i)
                    /\ e.id = i /\ e.user = job[t].claims.user]_allVars
  <2> SUFFICES ASSUME RPInv, [RPNext]_allVars, NEW i \in Ids,
                      creds[i] # NoCred, creds'[i] = NoCred
               PROVE  \E t \in Threads, e \in enrolled :
                          /\ Removes(t, i)
                          /\ e.id = i /\ e.user = job[t].claims.user
      OBVIOUS
  <2>1. RPTypeOK /\ LoginsPassed /\ DeletesPassed /\ creds \in Contents
        BY DEF RPInv, RPTypeOK
  <2>2. PICK t \in Threads : DeleteCommit(t) /\ job[t].id = i
        BY <2>1, OnlyDeletesRemove
  <2>3. job[t] # None /\ job[t].kind = "delete" /\ job[t].at = "delete"
        BY <2>2 DEF DeleteCommit
  <2>4. Removes(t, i)
        BY <2>2, <2>3 DEF Removes
  <2>5. \E e \in enrolled : e.id = job[t].id /\ e.user = job[t].claims.user
        BY <2>1, <2>3 DEF DeletesPassed, At
  <2>6. QED BY <2>2, <2>4, <2>5
<1>2. QED BY <1>1, ServerInvariance, PTL DEF RPSpec, OnlyRegistrantsDelete

-----------------------------------------------------------------------------
(* What a request found in the store, and what is there when it comes back *)
(* to write.                                                               *)

\* A request gets to its write only through the visit to the store that the
\* write relies on, and waits there unchanged.
LEMMA WritersWereChecked ==
    ASSUME RPTypeOK, [RPNext]_allVars, NEW u \in Threads,
           At(u, "update")' \/ At(u, "delete")'
    PROVE  \/ job'[u] = job[u]
           \/ /\ LoginFind(u) /\ job[u] \in LoginJob
              /\ AssertionPasses(job[u].posted, creds[job[u].posted.id])
              /\ job'[u] = [job[u] EXCEPT !.at = "update",
                                          !.cred = creds[job[u].posted.id]]
           \/ /\ DeleteFind(u) /\ job[u] \in DeleteJob
              /\ MayDelete(job[u].claims, job[u].id)
              /\ job'[u] = [job[u] EXCEPT !.at = "delete"]
<1> DEFINE Stays == job'[u] = job[u]
           Copied == /\ LoginFind(u) /\ job[u] \in LoginJob
                     /\ AssertionPasses(job[u].posted, creds[job[u].posted.id])
                     /\ job'[u] = [job[u] EXCEPT !.at = "update",
                                          !.cred = creds[job[u].posted.id]]
           Owned == /\ DeleteFind(u) /\ job[u] \in DeleteJob
                    /\ MayDelete(job[u].claims, job[u].id)
                    /\ job'[u] = [job[u] EXCEPT !.at = "delete"]
<1>1. job \in [Threads -> Jobs \cup {None}]
      BY DEF RPTypeOK
<1>2. job'[u] # None /\ job'[u].at \in {"update", "delete"}
      BY DEF At
<1>3. ASSUME UNCHANGED <<rpVars, call>>
      PROVE  Stays
      BY <1>3 DEF rpVars
<1>4. ASSUME NEW t \in Threads, NEW j \in Jobs, StartJob(t, j),
             j.at \in {"consume", "owner"}
      PROVE  Stays
      BY <1>1, <1>2, <1>4 DEF StartJob
<1>5. ASSUME NEW t \in Threads,
             RegisterCheck(t) \/ LoginCheck(t) \/ LoginUpdate(t)
      PROVE  Stays
  <2>1. /\ RegisterCheck(t) => job[t] \in EnrolJob
        /\ LoginCheck(t) \/ LoginUpdate(t) => job[t] \in LoginJob
        BY <1>5, JobTypes DEF RegisterCheck, LoginCheck, LoginUpdate
  <2>2. /\ job[t] \in EnrolJob => [job[t] EXCEPT !.at = "add"].at = "add"
        /\ job[t] \in LoginJob =>
              /\ [job[t] EXCEPT !.at = "find"].at = "find"
              /\ [job[t] EXCEPT !.at = "issue"].at = "issue"
        BY DEF EnrolJob, LoginJob
  <2>3. u # t
        BY <1>1, <1>2, <1>5, <2>1, <2>2
        DEF RegisterCheck, LoginCheck, LoginUpdate, MoveJob, EndJob
  <2>4. QED
    BY <1>1, <1>5, <2>3
    DEF RegisterCheck, LoginCheck, LoginUpdate, MoveJob, EndJob
<1>6. ASSUME NEW t \in Threads,
             \/ RegisterAdd(t) \/ LoginSession(t) \/ DeleteCommit(t)
             \/ StoreError(t)
      PROVE  Stays
  <2>1. u # t
        BY <1>1, <1>2, <1>6
        DEF RegisterAdd, LoginSession, DeleteCommit, StoreError, EndJob
  <2>2. QED
    BY <1>1, <1>6, <2>1
    DEF RegisterAdd, LoginSession, DeleteCommit, StoreError, EndJob
<1>7. ASSUME NEW t \in Threads, LoginFind(t)
      PROVE  Stays \/ Copied
  <2>1. job[t] \in LoginJob
        BY <1>7, JobTypes DEF LoginFind
  <2>2. CASE u # t
        BY <1>1, <1>7, <2>2 DEF LoginFind, StartJob, EndJob
  <2>3. CASE u = t
        BY <1>1, <1>2, <1>7, <2>1, <2>3 DEF LoginFind, StartJob, EndJob
  <2>4. QED BY <2>2, <2>3
<1>8. ASSUME NEW t \in Threads, DeleteFind(t)
      PROVE  Stays \/ Owned
  <2>1. job[t] \in DeleteJob
        BY <1>8, JobTypes DEF DeleteFind
  <2>2. CASE u # t
        BY <1>1, <1>8, <2>2 DEF DeleteFind, MoveJob, EndJob
  <2>3. CASE u = t
        BY <1>1, <1>2, <1>8, <2>1, <2>3 DEF DeleteFind, MoveJob, EndJob
  <2>4. QED BY <2>2, <2>3
<1>9. ASSUME RPRestart
      PROVE  Stays
      BY <1>2, <1>9 DEF RPRestart
<1>c. ASSUME NEW t \in Threads, NEW n \in Users, NEW c \in Challenges,
             NEW a \in Attestations, RegisterFinish(t, n, c, a)
      PROVE  Stays
      BY <1>4, <1>c DEF RegisterFinish, Jobs, EnrolJob
<1>d. ASSUME NEW t \in Threads, NEW n \in Names, NEW c \in Challenges,
             NEW a \in Assertions, LoginFinish(t, n, c, a)
      PROVE  Stays
      BY <1>4, <1>d DEF LoginFinish, Jobs, LoginJob
<1>e. ASSUME NEW t \in Threads, NEW s \in sessions, NEW i \in Ids,
             DeleteRequest(t, s, i)
      PROVE  Stays
      BY <1>4, <1>e DEF DeleteRequest, Jobs, DeleteJob, RPTypeOK
<1> HIDE DEF Stays, Copied, Owned
<1>10. Stays \/ Copied \/ Owned
  <2>1. ASSUME NEW t \in Threads,
               \/ RegisterCheck(t) \/ RegisterAdd(t)
               \/ LoginCheck(t) \/ LoginFind(t)
               \/ LoginUpdate(t) \/ LoginSession(t)
               \/ DeleteFind(t) \/ DeleteCommit(t) \/ StoreError(t)
        PROVE  Stays \/ Copied \/ Owned
        BY <1>5, <1>6, <1>7, <1>8, <2>1
  <2>2. QED BY <1>3, <1>9, <1>c, <1>d, <1>e, <2>1, ServerSteps
<1>11. QED BY <1>10 DEF Stays, Copied, Owned

\* A login about to store its counter passed every check against the copy of
\* the credential that it holds, whatever became of the stored one.
LEMMA LoginsStayChecked ==
    RPTypeOK /\ LoginsChecked /\ [RPNext]_allVars => LoginsChecked'
<1> SUFFICES ASSUME RPTypeOK, LoginsChecked, [RPNext]_allVars,
                    NEW u \in Threads, At(u, "update")'
             PROVE  AssertionPasses(job[u].posted, job[u].cred)'
    BY DEF LoginsChecked
<1>p. uvPolicy' = uvPolicy
      BY PolicyStays DEF At
<1>g. SUFFICES AssertionPasses(job'[u].posted, job'[u].cred)
      BY <1>p DEF AssertionPasses, CounterRegression
<1>1. CASE job'[u] = job[u]
      BY <1>1 DEF LoginsChecked, At
<1>2. ASSUME job[u] \in LoginJob,
             AssertionPasses(job[u].posted, creds[job[u].posted.id]),
             job'[u] = [job[u] EXCEPT !.at = "update",
                                      !.cred = creds[job[u].posted.id]]
      PROVE  AssertionPasses(job'[u].posted, job'[u].cred)
  <2>1. /\ job'[u].posted = job[u].posted
        /\ job'[u].cred = creds[job[u].posted.id]
        BY <1>2 DEF LoginJob
  <2>2. QED BY <1>2, <2>1
<1>3. ASSUME job[u] \in DeleteJob,
             job'[u] = [job[u] EXCEPT !.at = "delete"]
      PROVE  FALSE
      BY <1>3 DEF DeleteJob, At
<1>4. QED BY <1>1, <1>2, <1>3, WritersWereChecked

\* Of one request at a time, what it found is what it comes back to.
LEMMA FindingsStayCurrent ==
    ASSUME \A t, u \in Threads : t = u
    PROVE  RPTypeOK /\ FindingsAreCurrent /\ [RPNext]_allVars
           => FindingsAreCurrent'
<1> SUFFICES ASSUME RPTypeOK, FindingsAreCurrent, [RPNext]_allVars,
                    NEW u \in Threads, At(u, "update")' \/ At(u, "delete")'
             PROVE  /\ At(u, "update")' =>
                          creds'[job'[u].posted.id] = job'[u].cred
                    /\ At(u, "delete")' =>
                          /\ creds'[job'[u].id] # NoCred
                          /\ creds'[job'[u].id].user = job'[u].claims.user
    BY DEF FindingsAreCurrent, MayDelete
<1>1. job \in [Threads -> Jobs \cup {None}]
      BY DEF RPTypeOK
<1>2. job'[u] # None /\ job'[u].at \in {"update", "delete"}
      BY DEF At
<1>3. creds' = creds
  <2>1. ASSUME NEW t \in Threads, RegisterAdd(t) \/ DeleteCommit(t)
        PROVE  FALSE
    <3>1. t = u
          OBVIOUS
    <3>2. QED BY <1>1, <1>2, <2>1, <3>1 DEF RegisterAdd, DeleteCommit, EndJob
  <2>2. ASSUME NEW t \in Threads, LoginUpdate(t)
        PROVE  FALSE
    <3>1. t = u
          OBVIOUS
    <3>2. job[t] \in LoginJob
          BY <2>2, JobTypes DEF LoginUpdate
    <3>3. [job[t] EXCEPT !.at = "issue"].at = "issue"
          BY <3>2 DEF LoginJob
    <3>4. QED
      BY <1>1, <1>2, <2>2, <3>1, <3>3 DEF LoginUpdate, MoveJob, EndJob
  <2>3. \/ \E t \in Threads : \/ RegisterAdd(t) \/ LoginUpdate(t)
                              \/ DeleteCommit(t)
        \/ creds' = creds
        BY ServerSteps
        DEF rpVars, RegisterFinish, LoginFinish, DeleteRequest,
            RegisterCheck, LoginCheck, LoginFind, LoginSession, DeleteFind,
            StoreError, RPRestart
  <2>4. QED BY <2>1, <2>2, <2>3
<1>4. CASE job'[u] = job[u]
      BY <1>3, <1>4 DEF FindingsAreCurrent, MayDelete, At
<1>5. CASE /\ job[u] \in LoginJob
           /\ job'[u] = [job[u] EXCEPT !.at = "update",
                                       !.cred = creds[job[u].posted.id]]
  <2>1. /\ job'[u].posted = job[u].posted
        /\ job'[u].cred = creds[job[u].posted.id]
        /\ job'[u].at = "update"
        BY <1>5 DEF LoginJob
  <2>2. QED BY <1>3, <2>1 DEF At
<1>6. CASE /\ job[u] \in DeleteJob
           /\ MayDelete(job[u].claims, job[u].id)
           /\ job'[u] = [job[u] EXCEPT !.at = "delete"]
  <2>1. /\ job'[u].id = job[u].id
        /\ job'[u].claims = job[u].claims
        /\ job'[u].at = "delete"
        BY <1>6 DEF DeleteJob
  <2>2. QED BY <1>3, <1>6, <2>1 DEF At, MayDelete
<1>7. QED BY <1>4, <1>5, <1>6, WritersWereChecked

\* A counter goes back, or stays, only in a login whose credential was
\* written between its FindByID and its UpdateSignCount (login.go 93-151), by
\* whatever requests, of however many.
THEOREM RegressionsTakeARace == RPSpec => RegressionTakesARace
<1>1. RPInit => LoginsChecked
      BY DEF RPInit, LoginsChecked, At
<1>2. RPInv => RPTypeOK
      BY DEF RPInv
<1>3. LoginsChecked /\ [RPNext]_allVars =>
        [\A t \in Threads :
            (/\ StoresCounter(t)
             /\ CounterRegression(creds[job[t].posted.id].count,
                                  job[t].posted.count)) =>
                creds[job[t].posted.id] # job[t].cred]_allVars
      BY DEF LoginsChecked, AssertionPasses, At, StoresCounter
<1>4. QED BY <1>1, <1>2, <1>3, LoginsStayChecked, ServerInvariance, PTL
          DEF RPSpec, RegressionTakesARace

\* Of one request at a time, what is stored is the last counter accepted.
LEMMA CountersStayInOrder ==
    RPTypeOK /\ LoginsChecked /\ FindingsAreCurrent /\ CountersInOrder
    /\ [RPNext]_allVars => CountersInOrder'
<1> SUFFICES ASSUME RPTypeOK, LoginsChecked, FindingsAreCurrent,
                    CountersInOrder, [RPNext]_allVars
             PROVE  CountersInOrder'
    OBVIOUS
<1>t. creds \in Contents /\ counted \in [Ids -> SUBSET Counts]
      BY DEF RPTypeOK
<1>1. CASE UNCHANGED <<creds, counted>>
      BY <1>1 DEF CountersInOrder
<1>2. ASSUME NEW t \in Threads, RegisterAdd(t)
      PROVE  CountersInOrder'
  <2> DEFINE i == job[t].posted.id
             n == job[t].posted.count
  <2>1. i \in Ids /\ n \in Nat
        BY <1>2, JobTypes DEF RegisterAdd, EnrolJob, Attestation
  <2>2. \/ UNCHANGED <<creds, counted>>
        \/ /\ creds' = [creds EXCEPT ![i] =
                           NewCredential(job[t].user, job[t].posted)]
           /\ counted' = [counted EXCEPT ![i] = {n} \ {0}]
        BY <1>2 DEF RegisterAdd, Effect
  <2>3. NewCredential(job[t].user, job[t].posted).count = n
        BY DEF NewCredential
  <2>4. CASE /\ creds' = [creds EXCEPT ![i] =
                              NewCredential(job[t].user, job[t].posted)]
             /\ counted' = [counted EXCEPT ![i] = {n} \ {0}]
    <3> DEFINE new == NewCredential(job[t].user, job[t].posted)
    <3> HIDE DEF i, n, new
    <3>1. /\ creds'[i] = new /\ counted'[i] = {n} \ {0}
          /\ \A k \in Ids : k # i =>
                creds'[k] = creds[k] /\ counted'[k] = counted[k]
          BY <1>t, <2>1, <2>4 DEF Contents, new
    <3>2. creds'[i].count = n
          BY <2>3, <3>1 DEF new
    <3>3. \A m \in counted'[i] : m = n /\ n # 0
          BY <3>1
    <3>4. QED BY <2>1, <3>1, <3>2, <3>3 DEF CountersInOrder
  <2>5. QED BY <1>1, <2>2, <2>4
<1>3. ASSUME NEW t \in Threads, LoginUpdate(t)
      PROVE  CountersInOrder'
  <2> DEFINE i == job[t].posted.id
             n == job[t].posted.count
             update == [kind |-> "UpdateSignCount", id |-> i, count |-> n]
  <2>1. i \in Ids /\ n \in Nat
        BY <1>3, JobTypes DEF LoginUpdate, LoginJob, Assertion
  <2>2. CASE Refused(update, creds)
        BY <1>1, <1>3, <2>2 DEF LoginUpdate
  <2>3. CASE ~Refused(update, creds)
    <3>1. creds[i] \in Credential /\ creds[i] # NoCred
          BY <1>t, <2>1, <2>3 DEF Refused, Contents
    <3>2. ~CounterRegression(creds[i].count, n)
          BY <1>3 DEF LoginUpdate, LoginsChecked, FindingsAreCurrent,
                      AssertionPasses, At
    <3>3. /\ creds' = [creds EXCEPT ![i] = [creds[i] EXCEPT !.count = n]]
          /\ counted' = [counted EXCEPT ![i] =
                             IF n = 0 THEN {} ELSE @ \cup {n}]
          BY <1>3, <2>3 DEF LoginUpdate, Effect, Counted
    <3>4. [creds[i] EXCEPT !.count = n].count = n /\ creds[i].count \in Nat
          BY <3>1 DEF Credential
    <3>5. /\ creds[i].count = 0 => counted[i] = {}
          /\ \A m \in counted[i] : m <= creds[i].count
          BY <2>1, <3>1 DEF CountersInOrder
    <3>6. \A m \in counted[i] : m \in Nat
          BY <1>t, <2>1
    <3> HIDE DEF i, n
    <3>7. \A m \in counted'[i] : m <= n
          BY <1>t, <2>1, <3>2, <3>3, <3>4, <3>5, <3>6 DEF CounterRegression
    <3>8. n = 0 => counted'[i] = {}
          BY <1>t, <2>1, <3>3
    <3>9. /\ creds'[i].count = n
          /\ \A k \in Ids : k # i =>
                creds'[k] = creds[k] /\ counted'[k] = counted[k]
          BY <1>t, <2>1, <3>3, <3>4 DEF Contents
    <3>10. QED BY <3>7, <3>8, <3>9 DEF CountersInOrder
  <2>4. QED BY <2>2, <2>3
<1>4. ASSUME NEW t \in Threads, DeleteCommit(t)
      PROVE  CountersInOrder'
  <2>1. job[t].id \in Ids
        BY <1>4, JobTypes DEF DeleteCommit, DeleteJob
  <2>2. /\ counted' = counted
        /\ \A k \in Ids : creds'[k] # NoCred => creds'[k] = creds[k]
        BY <1>4, <1>t, <2>1 DEF DeleteCommit, Effect, Contents
  <2>3. QED BY <2>2 DEF CountersInOrder
<1>5. \/ \E t \in Threads : \/ RegisterAdd(t) \/ LoginUpdate(t)
                            \/ DeleteCommit(t)
      \/ UNCHANGED <<creds, counted>>
      BY ServerSteps
      DEF rpVars, RegisterFinish, LoginFinish, DeleteRequest,
          RegisterCheck, LoginCheck, LoginFind, LoginSession, DeleteFind,
          StoreError, RPRestart
<1>6. QED BY <1>1, <1>2, <1>3, <1>4, <1>5

\* What two requests at once break holds of one at a time: but for a zero,
\* every counter accepted of a credential is above all that were accepted of
\* it before.
THEOREM OneAtATimeCountersNeverRegress ==
    ASSUME \A t, u \in Threads : t = u
    PROVE  RPSpec => CounterNeverRegresses
<1>1. RPInit => LoginsChecked /\ FindingsAreCurrent
      BY DEF RPInit, LoginsChecked, FindingsAreCurrent, At
<1>2. RPInit => CountersInOrder
  <2> SUFFICES ASSUME RPInit, NEW i \in Ids, creds[i] # NoCred
               PROVE  /\ creds[i].count = 0 => counted[i] = {}
                      /\ \A n \in counted[i] : n <= creds[i].count
      BY DEF CountersInOrder
  <2>1. creds[i].count \in Nat
        BY ConfigAssumption DEF RPInit, Contents, Credential
  <2>2. counted[i] = {creds[i].count} \ {0}
        BY DEF RPInit
  <2>3. QED BY <2>1, <2>2
<1>3. RPInv => RPTypeOK
      BY DEF RPInv
<1>4. RPTypeOK /\ FindingsAreCurrent /\ [RPNext]_allVars
      => FindingsAreCurrent'
      BY FindingsStayCurrent
<1>5. RPTypeOK /\ LoginsChecked /\ FindingsAreCurrent /\ CountersInOrder
      /\ [RPNext]_allVars =>
        [\A t \in Threads : StoresCounter(t) /\ job[t].posted.count # 0 =>
            \A n \in counted[job[t].posted.id] :
                n < job[t].posted.count]_allVars
  <2> SUFFICES ASSUME RPTypeOK, LoginsChecked, FindingsAreCurrent,
                      CountersInOrder,
                      NEW t \in Threads, StoresCounter(t),
                      job[t].posted.count # 0,
                      NEW n \in counted[job[t].posted.id]
               PROVE  n < job[t].posted.count
      OBVIOUS
  <2> DEFINE i == job[t].posted.id
  <2>1. job[t] \in LoginJob
        BY DEF StoresCounter, RPTypeOK, Jobs, LoginJob, EnrolJob, DeleteJob
  <2>2. i \in Ids /\ job[t].posted.count \in Nat
        BY <2>1 DEF LoginJob, Assertion
  <2>3. /\ creds[i] = job[t].cred
        /\ AssertionPasses(job[t].posted, job[t].cred)
        BY DEF StoresCounter, LoginsChecked, FindingsAreCurrent, At
  <2>4. /\ creds[i] # NoCred
        /\ ~CounterRegression(creds[i].count, job[t].posted.count)
        BY <2>3 DEF AssertionPasses
  <2>5. creds[i].count \in Nat /\ n \in Nat
        BY <2>2, <2>4 DEF RPTypeOK, Contents, Credential
  <2>6. n <= creds[i].count /\ creds[i].count # 0
        BY <2>2, <2>4 DEF CountersInOrder
  <2>7. QED BY <2>2, <2>4, <2>5, <2>6 DEF CounterRegression
<1>6. QED BY <1>1, <1>2, <1>3, <1>4, <1>5, LoginsStayChecked,
             CountersStayInOrder, ServerInvariance, PTL
          DEF RPSpec, CounterNeverRegresses

\* And a credential is removed only for its owner (api.go 369-370).
THEOREM OneAtATimeOnlyOwnersDelete ==
    ASSUME \A t, u \in Threads : t = u
    PROVE  RPSpec => OnlyOwnersDelete
<1>1. RPInit => FindingsAreCurrent
      BY DEF RPInit, FindingsAreCurrent, At
<1>2. RPInv => RPTypeOK
      BY DEF RPInv
<1>3. RPTypeOK /\ FindingsAreCurrent /\ [RPNext]_allVars
      => FindingsAreCurrent'
      BY FindingsStayCurrent
<1>4. RPTypeOK /\ FindingsAreCurrent /\ [RPNext]_allVars =>
        [\A i \in Ids, t \in Threads :
            Removes(t, i) => job[t].claims.user = creds[i].user]_allVars
  <2> SUFFICES ASSUME RPTypeOK, FindingsAreCurrent, [RPNext]_allVars,
                      NEW i \in Ids, NEW t \in Threads, Removes(t, i)
               PROVE  job[t].claims.user = creds[i].user
      OBVIOUS
  <2>1. PICK u \in Threads : DeleteCommit(u) /\ job[u].id = i
        BY OnlyDeletesRemove DEF Removes
  <2>2. At(t, "delete") /\ job[t].id = i
        BY <2>1 DEF DeleteCommit, Removes, At
  <2>3. QED BY <2>2 DEF FindingsAreCurrent, MayDelete
<1>5. QED BY <1>1, <1>2, <1>3, <1>4, ServerInvariance, PTL
          DEF RPSpec, OnlyOwnersDelete

\* Inside the server too, a challenge is a one-time token: a user's live
\* challenge is lost only to an attempt for its own key, to a newer one for
\* that key, to its deadline or to a restart, whatever the other requests do.
THEOREM ServerImplementsTokens == RPSpec => ImplementsTokens
BY ServerRespectsChallengeStore, StoreImplementsTokens, PTL

=============================================================================
