---------------------------- MODULE RelyingParty ----------------------------
(***************************************************************************)
(* The whole server: the HTTP handlers of internal/httpapi/api.go and the  *)
(* ceremonies they run (internal/ceremony/register.go and login.go), over  *)
(* one challenge store, one credential store and one session signer.       *)
(*                                                                         *)
(* A request runs in a goroutine of its own and shares state only inside   *)
(* the two mutexes, so an action is one critical section with the pure     *)
(* code that follows it: Consume's take, its check, FindByID and the       *)
(* verification of what it returned, the write to the store, and the       *)
(* session, which reads the clock.  Requests interleave between these.  A  *)
(* call of the credential store is one step here; FileStore shows that it  *)
(* takes effect at one instant.                                            *)
(*                                                                         *)
(* Clients are free: any request may be posted at any time, naming any     *)
(* user, challenge and credential, and anyone may register a credential    *)
(* under any name and with any ID.  What a client cannot do is sign with a *)
(* key it does not hold, so an assertion names its signer.                 *)
(***************************************************************************)
EXTENDS ChallengeStore, Credentials, Policy

CONSTANTS
    Attestations,    \* what clients post to /register/finish
    Assertions,      \* what clients post to /login/finish
    Floors,          \* what --uv may say when the server is started
    SessionTTL,      \* the Signer's ttl
    SessionKeyFile   \* was the server given --session-key?

\* What is wrong with a posting, if anything: `origin' is refused by
\* CheckOrigin, `authData' by one of the pure checks after it (the parsers,
\* CheckRPIDHash, the attested data, the COSE key, the attestation).
Defects == {"none", "origin", "authData"}

Attestation == [id : Ids, key : Authenticators, count : Counts,
                up : BOOLEAN, uv : BOOLEAN, override : STRING,
                defect : Defects]
Assertion   == [id : Ids, signer : Authenticators, count : Counts,
                up : BOOLEAN, uv : BOOLEAN, override : STRING,
                defect : Defects]

ASSUME ConfigAssumption ==
    /\ Users \subseteq Names
    /\ Counts \subseteq Nat
    /\ Attestations \subseteq Attestation
    /\ Assertions \subseteq Assertion
    /\ Floors \subseteq UVPolicies
    /\ SessionTTL \in Nat
    /\ SessionKeyFile \in BOOLEAN

FlowIDs == Names \ Users

VARIABLES
    uvPolicy,   \* UVPolicy of the Registrar and the Authenticator
    creds,      \* the credential store's contents
    job,        \* per thread, the request it serves and how far it got
    sessions,   \* the tokens issued that verify under the signer's key
    enrolled,   \* history: the registrations that were stored, and those
                \* the file held at the start
    counted,    \* history: the counters accepted of each credential since
                \* it was registered or last reported a zero
    deletion    \* history: the latest deletion of each credential, None if
                \* there was none or the ID has been registered again

rpVars == <<uvPolicy, creds, job, sessions, enrolled, counted, deletion>>
allVars == <<vars, rpVars>>

LoginJob  == [kind : {"login"}, at : {"consume", "find", "update", "issue"},
              name : Names, challenge : Challenges, posted : Assertions,
              cred : Credential \cup {NoCred}]
EnrolJob  == [kind : {"register"}, at : {"consume", "add"},
              user : Users, challenge : Challenges, posted : Attestations]
\* A token: the claims, and what they were issued for.
Session   == [user : Users, uv : BOOLEAN, exp : Nat,
              name : Names, challenge : Challenges, posted : Assertions]
DeleteJob == [kind : {"delete"}, at : {"owner", "delete"}, id : Ids,
              claims : Session]

Jobs == LoginJob \cup EnrolJob \cup DeleteJob

\* What was registered: whose credential, with what key, and with which
\* challenge, None for one that an earlier run of the server stored.
Enrolment == [user : Users, id : Ids, key : Authenticators,
              challenge : Challenges \cup {None}]

\* When a credential was deleted, and the challenges of the logins that had
\* by then stored their counter and not yet been given their session.
Deletion == [at : Times, late : SUBSET Challenges]

ASSUME NoJobAssumption == /\ None \notin Jobs
                          /\ None \notin Challenges
                          /\ None \notin Deletion

RPTypeOK ==
    /\ TypeOK
    /\ uvPolicy \in UVPolicies
    /\ creds \in Contents
    /\ job \in [Threads -> Jobs \cup {None}]
    /\ sessions \subseteq Session
    /\ enrolled \subseteq Enrolment
    /\ counted \in [Ids -> SUBSET Counts]
    /\ deletion \in [Ids -> Deletion \cup {None}]

-----------------------------------------------------------------------------
(* The decisions.                                                          *)

\* Register's checks between Consume and AddCredential.
AttestationPasses(a) ==
    /\ a.defect = "none"
    /\ FlagsPass(EffectivePolicy(uvPolicy, a.override), a.up, a.uv)

\* cred.SignCount != 0 && ad.SignCount != 0 && ad.SignCount <= cred.SignCount
CounterRegression(stored, received) ==
    stored # 0 /\ received # 0 /\ received <= stored

\* Login's checks between FindByID and UpdateSignCount, on the credential
\* that FindByID returned.
AssertionPasses(a, cred) ==
    /\ cred # NoCred
    /\ a.defect = "none"
    /\ FlagsPass(EffectivePolicy(uvPolicy, a.override), a.up, a.uv)
    /\ a.signer = cred.key
    /\ ~CounterRegression(cred.count, a.count)

\* The new credential: its owner is the name the challenge was issued for.
NewCredential(user, a) ==
    [user |-> user, key |-> a.key, count |-> a.count]

\* Fault: the identity is the name the client posted.
NewSessionAsPosted(j) ==
    [user |-> j.name, uv |-> j.posted.uv, exp |-> clock + SessionTTL,
     name |-> j.name, challenge |-> j.challenge, posted |-> j.posted]

\* Sessions.Issue: the identity is the credential's owner, never the name
\* the client posted (login.go 155).
NewSession(j) ==
    [user |-> j.cred.user, uv |-> j.posted.uv, exp |-> clock + SessionTTL,
     name |-> j.name, challenge |-> j.challenge, posted |-> j.posted]

\* Sessions.Verify of a token signed under the current key.
Verifies(s) == ~(clock > s.exp)

\* Fault: any session may delete a credential that is there.
MayDeleteAny(s, id) == creds[id] # NoCred

\* handleDeleteCredential's ownership check.
MayDelete(s, id) == creds[id] # NoCred /\ creds[id].user = s.user

-----------------------------------------------------------------------------
(* The handlers.                                                           *)

StartJob(t, j) == job' = [job EXCEPT ![t] = j]
MoveJob(t, s)  == job' = [job EXCEPT ![t].at = s]
EndJob(t)      == job' = [job EXCEPT ![t] = None]

\* The server starts over whatever file an earlier run left.
RPInit ==
    /\ Init
    /\ uvPolicy \in Floors
    /\ creds \in Contents
    /\ job = [t \in Threads |-> None]
    /\ sessions = {}
    /\ enrolled = {[user |-> creds[i].user, id |-> i, key |-> creds[i].key,
                    challenge |-> None] : i \in {k \in Ids : creds[k] # NoCred}}
    /\ counted = [i \in Ids |-> IF creds[i] = NoCred THEN {}
                                ELSE {creds[i].count} \ {0}]
    /\ deletion = [i \in Ids |-> None]

RPTick == Tick /\ UNCHANGED rpVars

\* handleRegisterBegin
RegisterBegin(user, c) ==
    /\ Issue(<<user, "register">>, c)
    /\ UNCHANGED rpVars

\* handleLoginBegin with a user name, any name: FindByUsername only fills the
\* list of allowed credentials in the reply.
LoginBegin(name, c) ==
    /\ Issue(<<name, "login">>, c)
    /\ UNCHANGED rpVars

\* handleLoginBegin without one: a random flow ID, new each time, is the key.
DiscoverableLoginBegin(flow, c) ==
    /\ \A d \in Challenges : issue[d] # None => issue[d].key[1] # flow
    /\ Issue(<<flow, "login">>, c)
    /\ UNCHANGED rpVars

\* handleRegisterFinish as far as Consume's take.
RegisterFinish(t, user, c, a) ==
    /\ job[t] = None
    /\ ConsumeTake(t, <<user, "register">>, c)
    /\ StartJob(t, [kind |-> "register", at |-> "consume", user |-> user,
                    challenge |-> c, posted |-> a])
    /\ UNCHANGED <<uvPolicy, creds, sessions, enrolled, counted, deletion>>

\* Consume's answer, and every check of Register that follows it.
RegisterCheck(t) ==
    /\ job[t] # None /\ job[t].kind = "register" /\ job[t].at = "consume"
    /\ ConsumeCheck(t)
    /\ IF Verdict(call[t]) = "ok" /\ AttestationPasses(job[t].posted)
       THEN MoveJob(t, "add") ELSE EndJob(t)
    /\ UNCHANGED <<uvPolicy, creds, sessions, enrolled, counted, deletion>>

\* Store.AddCredential: refused when the ID is stored.
RegisterAdd(t) ==
    /\ job[t] # None /\ job[t].kind = "register" /\ job[t].at = "add"
    /\ LET j == job[t]
           add == [kind |-> "AddCredential", id |-> j.posted.id,
                   cred |-> NewCredential(j.user, j.posted)]
       IN  IF Refused(add, creds)
           THEN UNCHANGED <<creds, enrolled, counted, deletion>>
           ELSE /\ creds' = Effect(add, creds)
                /\ counted' = [counted EXCEPT ![j.posted.id] =
                                   {j.posted.count} \ {0}]
                /\ deletion' = [deletion EXCEPT ![j.posted.id] = None]
                /\ enrolled' = enrolled \cup
                      {[user |-> j.user, id |-> j.posted.id,
                        key |-> j.posted.key, challenge |-> j.challenge]}
    /\ EndJob(t)
    /\ UNCHANGED <<vars, uvPolicy, sessions>>

\* handleLoginFinish as far as Consume's take.
LoginFinish(t, name, c, a) ==
    /\ job[t] = None
    /\ ConsumeTake(t, <<name, "login">>, c)
    /\ StartJob(t, [kind |-> "login", at |-> "consume", name |-> name,
                    challenge |-> c, posted |-> a, cred |-> NoCred])
    /\ UNCHANGED <<uvPolicy, creds, sessions, enrolled, counted, deletion>>

\* Fault: Login goes on when Consume returned an error.
LoginCheckAnyVerdict(t) ==
    /\ job[t] # None /\ job[t].kind = "login" /\ job[t].at = "consume"
    /\ ConsumeCheck(t)
    /\ IF job[t].posted.defect # "origin"
       THEN MoveJob(t, "find") ELSE EndJob(t)
    /\ UNCHANGED <<uvPolicy, creds, sessions, enrolled, counted, deletion>>

\* Consume's answer, and CheckOrigin.
LoginCheck(t) ==
    /\ job[t] # None /\ job[t].kind = "login" /\ job[t].at = "consume"
    /\ ConsumeCheck(t)
    /\ IF Verdict(call[t]) = "ok" /\ job[t].posted.defect # "origin"
       THEN MoveJob(t, "find") ELSE EndJob(t)
    /\ UNCHANGED <<uvPolicy, creds, sessions, enrolled, counted, deletion>>

\* FindByID, and every check of Login on the copy it returned.
LoginFind(t) ==
    /\ job[t] # None /\ job[t].kind = "login" /\ job[t].at = "find"
    /\ LET cred == creds[job[t].posted.id]
       IN  IF AssertionPasses(job[t].posted, cred)
           THEN StartJob(t, [job[t] EXCEPT !.at = "update", !.cred = cred])
           ELSE EndJob(t)
    /\ UNCHANGED <<vars, uvPolicy, creds, sessions, enrolled, counted, deletion>>

\* What a login that stored counter n has made of the counters accepted of
\* credential id: a zero starts over.
Counted(id, n) ==
    [counted EXCEPT ![id] = IF n = 0 THEN {} ELSE @ \cup {n}]

\* Fault: the error of UpdateSignCount is ignored.
LoginUpdateUnchecked(t) ==
    /\ job[t] # None /\ job[t].kind = "login" /\ job[t].at = "update"
    /\ LET j == job[t]
           update == [kind |-> "UpdateSignCount", id |-> j.posted.id,
                      count |-> j.posted.count]
       IN  /\ creds' = IF Refused(update, creds) THEN creds
                       ELSE Effect(update, creds)
           /\ counted' = Counted(j.posted.id, j.posted.count)
    /\ MoveJob(t, "issue")
    /\ UNCHANGED <<vars, uvPolicy, sessions, enrolled, deletion>>

\* Fault: UpdateSignCount adds the credential that it does not find, with no
\* owner and no key.
LoginUpdateUpserting(t) ==
    /\ job[t] # None /\ job[t].kind = "login" /\ job[t].at = "update"
    /\ LET j == job[t]
           update == [kind |-> "UpdateSignCount", id |-> j.posted.id,
                      count |-> j.posted.count]
       IN  /\ creds' = IF Refused(update, creds)
                       THEN [creds EXCEPT ![j.posted.id] =
                                [user |-> "", key |-> "",
                                 count |-> j.posted.count]]
                       ELSE Effect(update, creds)
           /\ counted' = Counted(j.posted.id, j.posted.count)
    /\ MoveJob(t, "issue")
    /\ UNCHANGED <<vars, uvPolicy, sessions, enrolled, deletion>>

\* Fault: the counter is stored only where there was one before.
LoginUpdateInUse(t) ==
    /\ job[t] # None /\ job[t].kind = "login" /\ job[t].at = "update"
    /\ LET j == job[t]
           update == [kind |-> "UpdateSignCount", id |-> j.posted.id,
                      count |-> j.posted.count]
       IN  IF Refused(update, creds)
           THEN UNCHANGED <<creds, counted>> /\ EndJob(t)
           ELSE /\ creds' = IF j.cred.count = 0 THEN creds
                            ELSE Effect(update, creds)
                /\ counted' = Counted(j.posted.id, j.posted.count)
                /\ MoveJob(t, "issue")
    /\ UNCHANGED <<vars, uvPolicy, sessions, enrolled, deletion>>

\* UpdateSignCount, refused when the credential is gone.
LoginUpdate(t) ==
    /\ job[t] # None /\ job[t].kind = "login" /\ job[t].at = "update"
    /\ LET j == job[t]
           update == [kind |-> "UpdateSignCount", id |-> j.posted.id,
                      count |-> j.posted.count]
       IN  IF Refused(update, creds)
           THEN UNCHANGED <<creds, counted>> /\ EndJob(t)
           ELSE /\ creds' = Effect(update, creds)
                /\ counted' = Counted(j.posted.id, j.posted.count)
                /\ MoveJob(t, "issue")
    /\ UNCHANGED <<vars, uvPolicy, sessions, enrolled, deletion>>

\* handleLoginFinish after Login returned: the session, dated from now.
LoginSession(t) ==
    /\ job[t] # None /\ job[t].kind = "login" /\ job[t].at = "issue"
    /\ sessions' = sessions \cup {NewSession(job[t])}
    /\ EndJob(t)
    /\ UNCHANGED <<vars, uvPolicy, creds, enrolled, counted, deletion>>

\* handleDeleteCredential as far as authenticate.
DeleteRequest(t, s, id) ==
    /\ job[t] = None
    /\ Verifies(s)
    /\ StartJob(t, [kind |-> "delete", at |-> "owner", id |-> id,
                    claims |-> s])
    /\ UNCHANGED <<vars, uvPolicy, creds, sessions, enrolled, counted, deletion>>

\* Its FindByID and the ownership check.
DeleteFind(t) ==
    /\ job[t] # None /\ job[t].kind = "delete" /\ job[t].at = "owner"
    /\ IF MayDelete(job[t].claims, job[t].id)
       THEN MoveJob(t, "delete") ELSE EndJob(t)
    /\ UNCHANGED <<vars, uvPolicy, creds, sessions, enrolled, counted, deletion>>

\* The logins of credential id between UpdateSignCount and Sessions.Issue.
Late(id) == {job[t].challenge : t \in
                {u \in Threads : /\ job[u] # None
                                 /\ job[u].at = "issue"
                                 /\ job[u].posted.id = id}}

\* Its DeleteCredential, refused when the credential is gone already.
DeleteCommit(t) ==
    /\ job[t] # None /\ job[t].kind = "delete" /\ job[t].at = "delete"
    /\ LET delete == [kind |-> "DeleteCredential", id |-> job[t].id]
       IN  IF Refused(delete, creds)
           THEN UNCHANGED <<creds, deletion>>
           ELSE /\ creds' = Effect(delete, creds)
                /\ deletion' = [deletion EXCEPT ![job[t].id] =
                                    [at |-> clock, late |-> Late(job[t].id)]]
    /\ EndJob(t)
    /\ UNCHANGED <<vars, uvPolicy, sessions, enrolled, counted>>

\* A call of the credential store returns an error that is not a refusal.
StoreError(t) ==
    /\ job[t] # None
    /\ job[t].at \in {"add", "find", "update", "owner", "delete"}
    /\ EndJob(t)
    /\ UNCHANGED <<vars, uvPolicy, creds, sessions, enrolled, counted, deletion>>

\* The server stops and starts, with what flags it is given.  Tokens survive
\* only if the key does.
RPRestart ==
    /\ Restart
    /\ job' = [t \in Threads |-> None]
    /\ sessions' = IF SessionKeyFile THEN sessions ELSE {}
    /\ uvPolicy' \in Floors
    /\ UNCHANGED <<creds, enrolled, counted, deletion>>

RPNext ==
    \/ RPTick
    \/ \E u \in Users, c \in Challenges : RegisterBegin(u, c)
    \/ \E n \in Names, c \in Challenges : LoginBegin(n, c)
    \/ \E f \in FlowIDs, c \in Challenges : DiscoverableLoginBegin(f, c)
    \/ \E t \in Threads, u \in Users, c \in Challenges, a \in Attestations :
          RegisterFinish(t, u, c, a)
    \/ \E t \in Threads, n \in Names, c \in Challenges, a \in Assertions :
          LoginFinish(t, n, c, a)
    \/ \E t \in Threads, s \in sessions, i \in Ids : DeleteRequest(t, s, i)
    \/ \E t \in Threads : \/ RegisterCheck(t) \/ RegisterAdd(t)
                          \/ LoginCheck(t) \/ LoginFind(t)
                          \/ LoginUpdate(t) \/ LoginSession(t)
                          \/ DeleteFind(t) \/ DeleteCommit(t)
                          \/ StoreError(t)
    \/ RPRestart

RPSpec == RPInit /\ [][RPNext]_allVars

-----------------------------------------------------------------------------
(* Properties.                                                             *)

\* `user' registered credential `id' with `key'.
Registered(user, id, key) ==
    \E e \in enrolled : e.user = user /\ e.id = id /\ e.key = key

\* A session is its signer's: its user is one who registered the credential
\* with the very key that the signature verified with, whatever name or flow
\* ID was posted and whatever other requests did to the credential since it
\* was looked up (login.go 56-63).
SessionIsOwners ==
    \A s \in sessions : Registered(s.user, s.posted.id, s.posted.signer)

\* Challenge c was issued for the name and purpose k.
BegunAs(c, k) == issue[c] # None /\ issue[c].key = k

\* A challenge serves one ceremony: no two sessions, no two registrations
\* and no session and registration come of the same one, and it was issued
\* for the purpose and the name it was used with.
OneCeremonyPerChallenge ==
    /\ \A s, z \in sessions : s.challenge = z.challenge => s = z
    /\ \A e, f \in enrolled :
          e.challenge = f.challenge /\ e.challenge # None => e = f
    /\ \A s \in sessions : BegunAs(s.challenge, <<s.name, "login">>)
    /\ \A e \in enrolled :
          e.challenge # None => BegunAs(e.challenge, <<e.user, "register">>)

\* Revocation takes hold: a session that came of a deleted credential ends
\* within a session lifetime of the deletion, although a login that had
\* looked the credential up may have been running then.  The exception is a
\* login that the deletion found between UpdateSignCount (login.go 151) and
\* Sessions.Issue (api.go 324), whose session is dated from its own issue.
RevocationBound ==
    \A s \in sessions :
        LET d == deletion[s.posted.id]
        IN  d # None => s.exp <= d.at + SessionTTL \/ s.challenge \in d.late

\* A credential is only ever removed for a user who registered it.
Removes(t, i) == /\ job[t] # None /\ job[t].kind = "delete" /\ job[t].id = i
                 /\ creds[i] # NoCred /\ creds'[i] = NoCred

OnlyRegistrantsDelete ==
    [][\A i \in Ids :
          (creds[i] # NoCred /\ creds'[i] = NoCred) =>
              \E t \in Threads, e \in enrolled :
                  /\ Removes(t, i)
                  /\ e.id = i /\ e.user = job[t].claims.user]_allVars

\* A credential is only ever removed for its owner (api.go 369-370: the
\* handler revokes one of the caller's own credentials, ownership is checked
\* before deleting).  The check and the delete are two visits to the store,
\* so this fails when the ID changes hands in between.
OnlyOwnersDelete ==
    [][\A i \in Ids, t \in Threads :
          Removes(t, i) => job[t].claims.user = creds[i].user]_allVars

\* No request obtains a session below the policy that the server runs under
\* or below what it asked for itself (flags.go 55-60), whatever the server is
\* started with.
UVNeverLoosened ==
    [][\A s \in sessions' \ sessions :
          ~s.uv => /\ uvPolicy # "required"
                   /\ s.posted.override # "required"]_allVars

\* Thread t's login passes UpdateSignCount.
StoresCounter(t) == /\ job[t] # None /\ job[t].at = "update"
                    /\ job'[t] # None /\ job'[t].at = "issue"

\* But for a zero, every counter accepted of a credential is above all that
\* were accepted of it before (login.go 26).  A zero is not compared with
\* anything, and it is stored (login.go 143-151): what came before it counts
\* no more.
CounterNeverRegresses ==
    [][\A t \in Threads : StoresCounter(t) /\ job[t].posted.count # 0 =>
          \A n \in counted[job[t].posted.id] : n < job[t].posted.count]_allVars

\* A login stores a counter that does not move on only when the credential it
\* stores it in is not what FindByID returned to it: another request came
\* between login.go 93 and 151.
RegressionTakesARace ==
    [][\A t \in Threads :
          (/\ StoresCounter(t)
           /\ CounterRegression(creds[job[t].posted.id].count,
                                job[t].posted.count)) =>
              creds[job[t].posted.id] # job[t].cred]_allVars

-----------------------------------------------------------------------------
(* Why the properties hold: the inductive invariant.                       *)

\* The store holds what was registered.
CredsAreRegistered ==
    \A i \in Ids : creds[i] # NoCred => Registered(creds[i].user, i, creds[i].key)

At(t, s) == job[t] # None /\ job[t].at = s

\* A login on its way to UpdateSignCount, or past it, passed every check.
LoginsPassed ==
    \A t \in Threads : At(t, "update") \/ At(t, "issue") =>
        /\ job[t].cred # NoCred
        /\ Registered(job[t].cred.user, job[t].posted.id, job[t].posted.signer)
        /\ FlagsPass(EffectivePolicy(uvPolicy, job[t].posted.override),
                     job[t].posted.up, job[t].posted.uv)

\* A request to delete was made for a user who registered the credential.
DeletesPassed ==
    \A t \in Threads : At(t, "delete") =>
        \E e \in enrolled : e.id = job[t].id /\ e.user = job[t].claims.user

\* The key of the challenge that a ceremony in progress was begun with.
JobKey(j) == IF j.kind = "login" THEN <<j.name, "login">>
                                 ELSE <<j.user, "register">>

\* A request is inside Consume exactly while its thread is.
ConsumesAreJobs ==
    \A t \in Threads :
        /\ At(t, "consume") <=> call[t] # None
        /\ At(t, "consume") => /\ call[t].key = JobKey(job[t])
                               /\ call[t].got = job[t].challenge

\* A request that got past Consume with challenge c.
Past(t, c) == /\ \/ At(t, "find") \/ At(t, "update")
                 \/ At(t, "issue") \/ At(t, "add")
              /\ job[t].challenge = c

\* Whatever holds a challenge spent it, under its own key, and is the only
\* request, session or registration of its kind to hold it.
ChallengesAreSpent ==
    /\ \A t \in Threads, c \in Challenges : Past(t, c) =>
          /\ uses[c] > 0
          /\ issue[c] # None
          /\ issue[c].key = JobKey(job[t])
          /\ \A u \in Threads : Past(u, c) => u = t
          /\ job[t].kind = "login" =>
                \A s \in sessions : s.challenge # c
          /\ job[t].kind = "register" =>
                \A e \in enrolled : e.challenge # c
    /\ \A s \in sessions : uses[s.challenge] > 0 /\ issue[s.challenge] # None
    /\ \A e \in enrolled : e.challenge # None =>
          uses[e.challenge] > 0 /\ issue[e.challenge] # None

\* No session is good for longer than one issued now would be, and what was
\* deleted is not in the store.
SessionsInTime == \A s \in sessions : s.exp <= clock + SessionTTL

DeletedIsGone == \A i \in Ids : deletion[i] # None => creds[i] = NoCred

\* A login whose session is still to come, of a credential that is deleted,
\* was counted at the deletion.
LateAreKnown ==
    \A t \in Threads :
        At(t, "issue") /\ deletion[job[t].posted.id] # None =>
            job[t].challenge \in deletion[job[t].posted.id].late

\* A login on its way to UpdateSignCount was checked against the copy of the
\* credential that it holds.
LoginsChecked ==
    \A t \in Threads :
        At(t, "update") => AssertionPasses(job[t].posted, job[t].cred)

\* What a request found in the store is what is there when it comes back to
\* it: the copy a login holds is current, and whoever is about to delete a
\* credential owns it.  True of one request at a time, and of no more.
FindingsAreCurrent ==
    \A t \in Threads :
        /\ At(t, "update") => creds[job[t].posted.id] = job[t].cred
        /\ At(t, "delete") => MayDelete(job[t].claims, job[t].id)

\* The stored counter is the last one accepted, and the greatest since the
\* last zero.  True of one request at a time, too.
CountersInOrder ==
    \A i \in Ids : creds[i] # NoCred =>
        /\ creds[i].count = 0 => counted[i] = {}
        /\ \A n \in counted[i] : n <= creds[i].count

RPInv == /\ IInv
         /\ RPTypeOK
         /\ CredsAreRegistered
         /\ LoginsPassed
         /\ SessionIsOwners
         /\ DeletesPassed
         /\ ConsumesAreJobs
         /\ ChallengesAreSpent
         /\ OneCeremonyPerChallenge
         /\ SessionsInTime
         /\ DeletedIsGone
         /\ LateAreKnown
         /\ RevocationBound

=============================================================================
