# A TLA+ development of Vouchsafe

Vouchsafe is a passkey (WebAuthn) relying-party server in Go: users register
credentials, log in with them and are given session tokens with which they list
and delete their own credentials. This directory models its stateful core in
TLA+, checks the models with TLC and proves the main properties with TLAPS.
Paths are relative to the repository.

Every module parses with SANY, every `.cfg` runs under TLC with the module that
`PROJECT.json` names for it, and every `*Proofs.tla` is checked by `tlapm`
without a gap. `PROJECT.json` also maps each definition to the lines it models
and gives, for each checked property, a plausible fault (the definitions
commented "Fault:") that makes TLC refute it.

## 1. The system

| component | source | state | operations |
|---|---|---|---|
| Challenge store | `internal/ceremony/challenge.go` | `pending`, a map from (name, purpose) to a challenge and its time, under a mutex; memory only | `Issue` (with its sweep of expired entries), `Consume` |
| Credential store | `internal/store/file.go` | one JSON file, replaced as a whole; a mutex held across load and save | `AddCredential`, `UpdateSignCount`, `DeleteCredential`, `FindByID`, `FindByUsername` |
| Registration ceremony | `internal/ceremony/register.go`, `attestation.go` | none of its own | `Register`: consume the challenge, check, add the credential |
| Login ceremony | `internal/ceremony/login.go` | none of its own | `Login`: consume, look up, check, update the counter |
| HTTP handlers | `internal/httpapi/api.go` | none; one goroutine per request | begin and finish of both ceremonies, list, delete |
| Session tokens | `internal/session/token.go` | the signing key | `NewSigner`, `Issue`, `Verify` |
| Policy | `internal/policy/flags.go`, `origin.go` | none | `EffectivePolicy`, `CheckFlags`, `CheckOrigin`, `CheckRPIDHash` |
| Start-up | `cmd/vouchsafe/main.go` | the session key file | wiring; load or create the key |
| Authenticator data parser | `internal/authdata/parse.go` | none | `Parse`: fixed fields, and what the flags announce |
| COSE key parser | `internal/cose/key.go` | none | `Parse`: EC2, RSA and OKP public keys |
| CBOR decoder | `internal/cbor/decode.go` | a position, a depth and a count of elements per call | `Decode` of the canonical subset, recursively |
| Test authenticator and encoder | `internal/webauthntest`, `internal/cbortest` | keys and a counter | what authenticators and browsers send: the environment of the ceremonies |
| Demo page, tools | `internal/httpapi/page.go`, `tools` | none | not part of the core |

**How they interact.** The handlers call `Register`, `Login`, the two stores and
the signer directly. Both ceremonies share one challenge store and one
credential store. Requests run concurrently, and share state only inside the two
mutexes; everything they carry from one critical section to the next is a copy.
The challenge store forgets everything at a restart, the credential file does
not, and tokens survive exactly when the session key was kept in a file.
What a client posts goes through the decoder up to three times: the attestation
object, the authenticator data inside it, whose key `Parse` cuts out by asking
the decoder where it ends, and at every login the key as it was stored.

**What is hard.** `Consume` decides after its unlock. `Login` checks a copy of
the credential and writes to the store afterwards, by ID. `handleDeleteCredential`
checks the owner and deletes in two visits to the store. A save has five steps
that can each fail or be cut off. Expiry is tested in two places. All this is
spread over time, so the hazards (listed with their lines in `PROJECT.json`) are
mostly orders of steps of two or three requests, crashes, and stale copies. The
parsers have hazards of another kind: boundaries of widths, limits that are off by
one, and lengths that are only known once something else was decoded. And a
signature is good for one purpose, page and challenge only because of a dozen
comparisons, none of which the others can stand in for.

**What makes each part correct.**

- Challenge store: a challenge is good once, for the name and purpose it was
  issued for, within TTL, however calls overlap; nobody else's traffic costs a
  user a challenge; abandoned entries do not pile up.
- Credential store: a call takes effect at one instant or not at all, an error
  means that nothing changed, and a crash leaves the old or the new file.
- Ceremonies: a session is for the user who registered the key that signed; a
  challenge serves one ceremony; a counter only goes up, but for a zero; a request
  may tighten the UV policy and never loosen it.
- Handlers: deleting a credential ends what comes of it, and only its owner can.
- Start-up: the key signs only if it is whole, is not replaced once it is in
  place, and verifies after a restart what it signed before.
- Decoder and parsers: one encoding per value, each accepted and nothing else,
  with bounded work; a key that was stored can be loaded.
- Checks: behind every session is a signature that was made for it, and an
  authenticator that does its part is let in.

## 2. The modules

```
OneTimeToken          Credentials          Policy               Cbor
     ^ refines        /     |    \         /     \             /    \
ChallengeStore       /      |     \       /       \     AuthData  CborCanonical
     |        CredentialMap |      \     /         \        |          |
     |              ^ refines       \   /    Cose   \       |      CborEncode
     |          FileStore            \ /      |      \      |          |
     +-------------------------> RelyingParty |       |     |      CborInputs
                                              +-- Verification       /
SessionKey (on its own)                                 MCAuthData -+
```

Each component's theorems are in a module of its name with `Proofs` behind it;
the decoder has two, `CborProofs` for its bounds and that it accepts only
canonical encodings, and `CanonicalProofs` for that it accepts all of them and
that a value has one.

**`ChallengeStore`** is `challenge.go`. `pending` and `clock` are the store's
state; `call` holds, per thread, a `Consume` between its unlock and its return;
`issue`, `uses` and `lastIssue` are history. `Issue` runs under the mutex and is
one action, sweep included (it reads the clock once where the code reads it in
the sweep and again for `issuedAt`, both inside the critical section: the two
differ by nanoseconds, and nothing stated here tells them apart). `Consume` is
two actions: `ConsumeTake`, its critical section, and `ConsumeCheck`, the tests
after the unlock, in the code's order (`Verdict`). `Restart` empties the map.
32 random bytes are modelled as an element of `Challenges` never drawn before.

**`OneTimeToken`** is what callers may rely on: a token is granted for a key,
presented at most once, accepted at most once and in time, and dies of a newer
grant, a wrong presentation, time or a crash, and of nothing else.
`ChallengeStore` implements it under the mapping `Status`.

**`Credentials`** says what each method of `Store` does to the contents of the
file, as functions (`Refused`, `Effect`, `Found`, `Answer`): no steps. It is
used by the abstract map, by the detailed store and by the server.

**`FileStore`** is `file.go` step by step: `Lock`, `Load` (with the method's
decision on what it loaded), `CreateTemp`, `WriteTemp`, `SyncTemp`, `Rename`,
`Unlock`, any of which may fail (`LoadFails`, `SaveFails`) with the deferred
clean-up. That may fail as well, which nobody notices (`file.go` 227 drops the error
of `os.Remove`): `SaveFails` leaves the temporary file then, among the `orphans`.
`Crash` kills the process anywhere. With `PowerLossPossible` the kernel writes back
(`Writeback`) and `PowerLoss` brings the directory back as it was last written:
renames and removals since are undone, so a temporary file may have its name again
(`diskOrphans`). Data that was never fsynced may come back whole, partial (`Torn`)
or empty. The directory is written back as it stands at one moment, as a journaling
file system does; one that wrote back a rename and a creation of the same directory
in another order could leave more names behind than `LitterBound` allows. `version`
counts documents, so that `acked` can say which one a caller was told is stored;
`uncleaned`, the failed clean-ups, is history too.

**`CredentialMap`** is what callers may rely on: an atomic map. `FileStore`
implements it, short of a power loss, with `file.data` as the map: a read takes
effect at `Load`, a write at `Rename`.

**`Policy`** has `EffectivePolicy`, `CheckFlags`, `CheckOrigin` and `CheckRPIDHash`
as operators.

**`RelyingParty`** is the whole server: `api.go`, `register.go` and `login.go`
over the challenge store (it EXTENDS `ChallengeStore`, and its steps are that
module's actions), an atomic credential store (`creds`, with `Credentials`'
operators; `FileStore` justifies the atomicity) and the tokens issued
(`sessions`). `job` is the request that each thread serves and how far it got.
One action is one critical section and the pure code after it:

| code | actions |
|---|---|
| `handleRegisterBegin`, `handleLoginBegin` | `RegisterBegin`, `LoginBegin`, `DiscoverableLoginBegin` (`Issue`) |
| `handleRegisterFinish`, `Register` | `RegisterFinish` (`Consume`'s take), `RegisterCheck`, `RegisterAdd` (`AddCredential`) |
| `handleLoginFinish`, `Login`, `Signer.Issue` | `LoginFinish` (`Consume`'s take), `LoginCheck`, `LoginFind` (`FindByID` and the checks on its copy), `LoginUpdate` (`UpdateSignCount`), `LoginSession` |
| `handleDeleteCredential` | `DeleteRequest` (`authenticate`), `DeleteFind` (`FindByID`, ownership), `DeleteCommit` (`DeleteCredential`) |
| an error of the store | `StoreError` |
| stop and start | `RPRestart` |

Clients may post anything at any time: any name, challenge, credential ID,
flags, override and counter from the sets of the instance. They may register any
ID under any name. They cannot sign with a key they do not hold, so an assertion
names its `signer`, and the signature verifies when that is the stored `key`.
What the parsers and the stateless checks say of a posting is its `defect`:
none, found by `CheckOrigin`, or found later. It matters where a posting is
refused (a challenge is spent, a credential looked up), not why. `uvPolicy` is what
`--uv` said when the server was started; it starts with any of `Floors`, and again
with any of them after `RPRestart`. `enrolled`, `counted` (the counters accepted of
a credential since its registration or its last zero) and `deletion` are history.

**`SessionKey`** is the start of a server with `--session-key`: `ReadKey` (and
`Generate`, when there is no file), `CreateFile` and `WriteKey`, which are the
two halves of `os.WriteFile`, and `NewSigner`, any of which may fail; `Sign`
for the server that came up. Several processes may start on one path at any
time, any may be killed anywhere (`Kill`), and with `PowerLossPossible` the
machine goes down and may lose what was not written back. Of a file's contents it
matters whether they are a key (32 bytes or more) or a `Part` of one. `signed`
and `orderly` (one server at a time so far, no power loss) are history.

**`Cbor`** is the decoder, byte by byte. It is recursive in Go; here the calls
of `decodeArray` and `decodeMap` under way are a stack (`calls`), so that it is a
state machine that can be proved about, and one step is what one call does until
it calls or returns. The fields `pos`, `depth` and `elems` are the code's.
`HeadError` has the checks of `decodeValue` and `readArgument` in their order,
`OrderError` the check of map keys, on the encoded spans as in the code.
Arguments of 64 bits are sequences of bytes, since they exceed the prover's and
TLC's small integers. **`CborEncode`** is the encoder that the tests build their
inputs with (`cbortest/encode.go`), as the definition of what has to be accepted;
it is recursive, like the values, and is used by TLC only. **`CborInputs`** has
the inputs. **`CborCanonical`** says what `CborEncode` computes without recursion,
as rules (`ClosedUnderEncoding`): `e` is a canonical encoding of `v`, nested `k`
deep at most, when `<<v, e, k>>` is in every set that is closed under them
(`Canonical`). The same way `HasElements` counts the elements of a value
(`ClosedUnderCounting`). `AcceptsOnlyCanonical` says of the decoder that it returns
nothing but what is canonical, `RefusesNothingCanonical` that it refuses none of it
that has no element too many, `CountsElements` that it counts right, and
`NoKeyTwice` that no map it returns has two entries with equal keys.

**`AuthData`** is `authdata.Parse` on top of the decoder (it EXTENDS `Cbor`), with
the real lengths, offsets and flag bits: `Parse` up to the first call of `Decode`,
`TakeKey` and `TakeExtensions` when it returns, `Malformed`. `LoadKey` is login's
decoding of the key that was stored, and `DecodeObject` registration's of the
attestation object before it.

**`Cose`** is `cose.Parse` as operators on a decoded map (`KeyError`, `Key`),
with `EC2Error`, `RSAError` and `OKPError`, and `verifySignature`
(`SignatureError`). Of a byte string it matters how long it is and whose public
key it is part of. Signatures are what was signed, by whom and under which
algorithm; only the holder of a key can make one.

**`Verification`** is every check of `Register`, `Login` and
`verifyAttestation` in the code's order (`ClientError`, `ConsumeError`,
`RegisterError`, `LoginError` and what they call, each the first error that the
code would return), one request at a time. Authenticators behave as
`webauthntest/virtualauth.go` does: they hold key pairs, count (or report zero for
ever), and sign for any page that asks and any challenge it names. Clients post
what was signed in any combination, as often as they like, and anything of
their own that needs no signature. `RelyingParty` has the interleavings and one
verdict per posting; `Verification` has the verdict and no interleavings.

## 3. What TLC checks

| run | instance | shows |
|---|---|---|
| `challenge_store` | one name with its two purposes, 3 challenges, 2 threads, TTL 1, clock to 3 | `SingleUse`, `AcceptsOnlyItsOwn`, `SweptAtLastIssue`, and that the store implements `OneTimeToken` |
| `file_store` | 2 IDs, 2 users, 2 counters, 2 threads, 3 writes, 1 crash | `NoLostUpdate`, `AckedWritesSurvive`, and that the store implements `CredentialMap` |
| `power_loss` | 2 IDs, 2 threads, 3 writes, 2 crashes or power losses, fairness | `NeverTorn`: the path never names a partial document; `LitterBound`, with failed clean-ups; `EveryCallReturns` |
| `power_loss_acked` | the same without fairness | **violated**: `AckedWritesSurvive` |
| `ceremonies` | 2 users and 2 authenticators contend for 1 ID beside a second, 2 challenges, 2 threads, a restart | `SessionIsOwners`, `OneCeremonyPerChallenge`, `RevocationBound`, `OnlyRegistrantsDelete` |
| `delete_race` | the same with 1 ID | **violated**: `OnlyOwnersDelete` |
| `one_request_at_a_time` | 1 thread, counters 0 to 2, a name and a flow ID; the server started with each of the three policies, every UP, UV, override (one unknown) and defect; no session key file; no clock | `CounterNeverRegresses`; `UVNeverLoosened` |
| `counter_race` | counters 0 to 2, 2 threads | **violated**: `CounterNeverRegresses` |
| `session_key` | 2 servers, 4 keys, 6 starts, power loss | `NeverSignsWithPart`, `KeyIsStable`, `TokensSurvive` |
| `session_key_crash` | 1 server, no power loss | **violated**: `KeyFileIsUsable` |
| `parsers` | depth 2, 5 elements, 272 bytes; the inputs below | `AcceptsCanonical`, `RefusesOnlyIllegal`, `WorkIsBounded`, `NoKeyTwice`; `AcceptsOnlyBuilt`, `RefusesOnlyUnbuilt`, `StoredKeyLoads` |
| `verification` | 2 authenticators (P-256 with a counter, Ed25519 without), a foreign RSA key, 3 pages, 1 name, 1 ID, 3 challenges, 2 signatures | `SessionsAreSigned`, `OneSessionPerSignature`, `SelfAttestedKeysAreHeld`, `CounterAlarmIsGenuine`, `HonestCeremoniesSucceed` |

**Why these bounds.** The hazards are orders of the steps of two requests, or of
one request and a crash; two threads have all of them, and after one has
finished its thread serves a third (which `delete_race` needs). Three challenges
let one expire, one be swept and one replace another; two let a begun ceremony
be followed by one for the same name. A TTL of 1 has an instant before, at and
after expiry with a clock to 2, and one more tick for what follows. `Keys` are
treated as a whole by the store, so that two purposes of one name tell apart
what two names would; `ceremonies` has both. `MaxTime`, `MaxWrites` and
`MaxCrashes` bound what is unbounded in the code and appear in no other guard.
The session lifetime of 1 is as long as the clock runs in `ceremonies`, so that a
session dated one tick after the deletion is already beyond the bound. There the
second ID is one that the file may hold from the start: it can be deleted, by
whoever has a session through the first. With one thread two challenges are
enough, because the stored credential starts with any counter: two logins make three
counters with the one that was there. The clock stands still in that run, since
neither of its properties is about time.

In `session_key` two servers have every overlap of two starts; six starts are a
first one, one that finds its file, and two on each side of a power loss.

`parsers` gives the decoder every input of up to five bytes over the heads of
small integers, a string, arrays and maps (and six bytes for maps of two), and
each of the 256 initial bytes before arguments on both sides of each width's
limit and strings that are complete or one byte short. The limits are small so
that such inputs reach them: depth 2 and 5 elements are passed by `[[[0]]]` and
by a list of three pairs, 272 bytes by a string one too long. Authenticator data
is everything an authenticator builds, with all 256 flag bytes, three lengths of
credential ID (none, two bytes that look like CBOR, and 256), two keys and two
extension maps; of each layout also every prefix, three continuations, and every
wrong length around the right one.

In `verification` two signatures are a registration's and a login's, or two
logins', and with the packed formats a registration signs too; a third page has
the server's RP ID and another origin, or an allowed origin and another RP ID.
One name is enough, since who a session is for when names contend is
`RelyingParty`'s question. What cannot be registered is refused whatever is wrong
with it, so that there is one sample for each check that can fail.

**Symmetry.** Permutations of threads, challenges, users, authenticators and IDs
are used only in runs without liveness, and of users, authenticators and IDs only
where the posting sets are closed under them (`ceremonies` posts registrations
for one ID, so the IDs are not permuted there; in `verification` authenticators
differ and only challenges are permuted).

**Fairness.** Only `EveryCallReturns` needs any: `WF` of each thread's `Step`,
since a goroutine that can go on is scheduled and a system call returns, and
`SF` of `Lock`, since `sync.Mutex` hands itself to a waiter that has starved for
1 ms. Nothing is assumed of callers.

**Deadlock** is checked except in three runs. `session_key` and
`session_key_crash` end when all starts are used up and nothing is left to write
back, and `verification` when its challenges and signatures are and nothing is
pending: a posting that finds no challenge changes nothing, as in the code. In the
others the process may always restart or a client may always post something.

### What the violated runs say

- **`counter_race`.** `Login` compares the counter with the copy that `FindByID`
  returned (login.go 93, 147) and stores it in another critical section (151).
  Two overlapping logins of one credential, which an authenticator and its clone
  would make, are both accepted with the same counter or in descending order,
  and the stored counter can go back. `one_request_at_a_time` shows that without
  overlap the check does what login.go 26 and negative_test.go 300 say, but for a
  zero.
- **`delete_race`.** `handleDeleteCredential` checks the owner (384-390) and
  deletes by ID (394). If in between the credential is deleted by another request
  and its ID registered under another name, the other user's credential goes,
  against api.go 369-370. What does hold, and is proved, is
  `OnlyRegistrantsDelete`: the caller did register that ID at some time.
- **`power_loss_acked`.** `saveLocked` does not fsync the directory after the
  rename, so a power loss may undo a write that returned nil; README.md 145 calls
  the counter durable. The file is never torn, and a crash of the process loses
  nothing.
- **`session_key_crash`.** `os.WriteFile` truncates and then writes (main.go 239).
  When the write fails, or the process is killed between the two, an empty or
  partial key file stays, and no later start gets past it: it is loaded whatever
  its length (227), and `NewSigner` refuses it. What does hold, and is proved, is
  that no server ever signs with such a key.

Some more limits of the code show in how a property had to be put.
`CounterNeverRegresses` starts over at a zero: a login that reports 0 is compared
with nothing and its 0 is stored (login.go 143-151), so the next may report any
number. Counters 2, 0, 1 are accepted in this order, by one request at a time too.
`RevocationBound` makes an exception for a login that the deletion finds between
`UpdateSignCount` and `Sessions.Issue`: its session is dated from its own issue,
so that it can end later than a lifetime after the deletion. And a deletion is
forgotten when the ID is registered again: a login that was under way before
both then stores its counter in the new credential and still gets a session, for
the right user. `TokensSurvive` is for one server at a time: two that start at
once on a path without a file may each sign with a key of their own.
(`KeyIsStable` does not speak of that moment either: it begins when a key is in
place and nobody is about to write another.) What is canonical for the decoder is
its own order of map keys, shorter encodings first. The comment at decode.go 353 cites
RFC 8949 section 4.2.1, which orders keys bytewise; the two differ on the keys 100
(`18 64`) and -1 (`20`), which the decoder takes in the order -1, 100 only. The
properties of `parsers` and the rules of `CborCanonical` are about the decoder's
order, which is the one that `cbortest/encode.go` writes.
`HonestCeremoniesSucceed` is for keys of the three supported algorithms: with
attestation "none" `Register` stores a key under any algorithm that it declares
(key.go 84-95), and no login with it can succeed (login.go 198).

## 4. What is proved

All theorems hold for any values of the constants that meet the named
assumptions: the bounds and TTLs are natural numbers, `None`, `NoCred` and
`Torn` are not values of the kinds they are told apart from, the users are
among the names, the counters are natural numbers and the posting sets
contain postings. For `Cbor`: the limits are natural numbers and inputs are
sequences of bytes, the parsers' too (`AuthDataInputAssumption`). For
`Verification`: an authenticator's key is of its algorithm's type
(`WorldAssumption`), what clients make up is signed by nobody
(`ForgeryAssumption`), and the counters they make up are natural numbers, as four
bytes of authenticator data always are (`CountAssumption`).

Some hypotheses stand in the theorems themselves. `None` is not an error and not a
record (`None \notin Errors`, `NoneIsNoValue`, `NoneIsNoFunction`): in Go it is a
nil error or pointer, for TLC a model value. `~PowerLossPossible`, and
`\A t, u \in Threads : t = u` for one request at a time, mark what the code
promises only then; the violated runs show that it fails without them.

**`ChallengeStoreProofs`.** `IInv` is inductive: an entry, in the map or taken out
of it, is what `Issue` recorded for its key and has not been accepted
(`EntriesAreIssued`); a challenge is in one place only, the map or one thread
(`OnePlace`); the history is in order. `SingleUse` is not inductive by itself:
it follows because a taken entry is in nobody else's hands, so that its `uses`
is still 0 when the decision is taken. From `IInv` follow `TypeCorrectness`,
`ChallengesAreSingleUse`, `SweepBoundsTheMap`, `AcceptanceIsBound` and, with one
lemma per action (`IssueGrants`, `TakePresents`, `CheckAccepts`, `TickAdvances`,
`RestartCrashes`), `StoreImplementsTokens`.

**`FileStoreProofs`.** `IInv`: the mutex holder is the one thread between its
`Lock` and `Unlock` (`MutexHeld`), what a thread carries at each step
(`CallState`), the temporary file is complete before the fsync and durable
before the rename (`TmpState`), what the path names was fsynced before it got
there (`OnlySynced`), and a power loss would bring back at most one temporary file
that is not owed to anything yet (`DiskLitterBound`): saves do not overlap, so there
is one under way when the directory is written back, and the power loss is what
its file is then owed to. From it: `TypeCorrectness`, `FileIsNeverTorn` (power
losses included), `NoUpdateIsLost`, `LitterIsBounded` (by `OneTempAtATime`), and, for
`~PowerLossPossible`, `StoreImplementsMap` and `AckedWritesSurviveCrashes`. The
last needs `VersionsInOrder`: a document on its way to the path is one version
ahead of the one there. With power losses `power_loss_acked` refutes it.

**`RelyingPartyProofs`.** `ServerRespectsChallengeStore` shows that every step of
the server is a step of the challenge store or leaves it alone, so that all of
`ChallengeStoreProofs` holds inside the server. `RPInv` is proved in three parts:

- *identity*: the store holds what was registered (`CredsAreRegistered`), so a
  login that passed its checks on a copy relied on a registration
  (`LoginsPassed`), which stays on record whatever becomes of the credential, under
  a policy that stays as it is while requests are served (`PolicyStays`); hence
  `SessionsAreTheirOwners`, `PolicyIsNeverLoosened` and `RemovalIsForRegistrants`;
- *ceremonies*: a request is inside `Consume` exactly while its thread is
  (`ConsumesAreJobs`), and whoever holds a challenge past it spent it and is
  alone with it (`ChallengesAreSpent`, by the store's `OnePlace`); hence
  `ChallengesServeOneCeremony`;
- *revocation*: no session lasts longer than one issued now would
  (`SessionsInTime`), what was deleted is not stored (`DeletedIsGone`), and a
  login past `UpdateSignCount` was counted at the deletion (`LateAreKnown`);
  hence `RevocationIsBounded`.

`ServerImplementsTokens` carries the refinement of the challenge store into the
server: behind its handlers and through its restarts, challenges are the one-time
tokens of `OneTimeToken`.

Two of the violated runs are races, and theorems say that they are nothing else.
`RegressionsTakeARace`: a login stores a counter that does not move on only when the
credential is not, by then, what `FindByID` returned to it; for a login on its way to
`UpdateSignCount` was checked against the copy that it holds (`LoginsChecked`). With
a single thread nothing comes in between (`FindingsAreCurrent`: what a login or a
deletion found is what is stored), so what is stored is the last counter accepted and
the greatest since the last zero (`CountersInOrder`); hence
`OneAtATimeCountersNeverRegress` and `OneAtATimeOnlyOwnersDelete`. No run states `RegressionTakesARace`; `counter_race`
shows the race.

**`SessionKeyProofs`.** `TypeCorrectness` and `PartsNeverSign` hold together: what
a server signs with is a key because only a key gets past `NewSigner`.
`SettledKeysStay`: the only writers are servers that found no file. And
`TokensSurviveRestarts` by `OrderlyInv`: while one server runs at a time, nothing
was signed before there was a key in the file, and whoever serves holds that key.

**`CborProofs`.** `WorkBounded`, for all limits and inputs: `depth` is the number
of calls under way, it never passes `MaxDepth`, and no more elements are counted
than bytes were read. The proof needs the shape of the stack and of the heads'
lengths. It is about `Moves`, which start on any bytes, so that it serves the
parsers as well.

`OnlyCanonicalAccepted`, for all limits and inputs: what `Decode` accepts is a
canonical encoding of the value it returns and ends where it says. No head is
longer than its number needs, every container holds exactly the items that it
announced, keys ascend as encoded, at any depth. The inductive
invariant `CInv` adds to the bounds, for every set closed under the rules, that the
bytes read since the last item of the innermost call encode the value being
returned (`Encoded`), and that a call under way holds items that lie end to end
from its head to its `from`, with their keys in the spans it kept (`CallEncoded`).
Each of the four steps of the decoder keeps it, one lemma per step. The lemmas on
heads say that `Shortest` and `Digits` undo `encodeHeader` (`HeadIsCanonical`), and
`NeighboursAreEnough` that comparing neighbours, which is what `decodeMap` does,
orders all keys, since `KeyBefore` is transitive.

Neither the values nor their encodings are defined by recursion here. A rule is a
condition on a set, the encodings are what all closed sets share, and the
invariant speaks of any one closed set; the induction is the decoder's own. Where
an induction on numbers is needed, it is on the least element of a set (`LeastOf`,
from the well-foundedness of `<`), which takes no operator as a parameter.
`OnlyTheRules` shows that this is not said of nothing: some set is closed under the
rules (`ByTheRules`, cut out of the values by level, `LevelsExist`), and from it
`Canonical` can be inverted, so that what no rule builds is no encoding.

The proof found a mistake in the model: two arms of a `CASE` in `Scalar` overlapped
for strings of 22 bytes, where TLA+ may choose either and TLC always took the
right one. The arms now exclude each other.

**`CanonicalProofs`.** The other direction. `NothingCanonicalRefused`, for all limits
and inputs: if the input, of no more than `MaxInputSize` bytes, begins with a
canonical encoding of a value of at most `MaxDepth` levels and `MaxElements`
elements, then `Decode` returns this value and where its encoding ends. So no
limit is off by one, no boundary of a width or order of keys is refused that the
rules allow, and no input begins with encodings of two values, or with two of one.

The induction is again the decoder's own, and takes a *plan*. `OnlyTheRules` turns
an encoding into where its items lie and how many elements there are by each of
them (`Planned`); a container among them has such a plan in turn. The inductive
invariant `TInv` says that, whatever the input begins with, there is a plan for
every call under way, each the plan of the next item of the one around it
(`OnPlan`), that each call has taken what its plan says so far (`Follows`), and that
`elems` is what the plan counted by then; or that the decoder is done, with that
value or with `ErrTooManyElements`. Then what `decodeValue` finds is the plan's next
item (`ItemIsNext`), whose head is read back as it was written (`HeadReads`), and the
only error possible is one element too many (`OnlyTooManyFail`). There is no
induction over values: the plan of an inner container is found when the decoder
enters it, by one more inversion.

`ElementsCounted` says that `elems` counts the elements of the value; with
`WorkBounded` nothing of more than `MaxElements` elements is accepted. It follows
from the same invariant: what was accepted is canonical, so the decoder was on its
way to it. `OnlyTheCounts` inverts `HasElements` as `OnlyTheRules` does `Canonical`,
and `EveryValueCounts` says that every value with an encoding has a count.

`decodeMap` compares keys as encoded, and those who look a key up compare values:
`MapGetInt` and `MapGetText` take the first entry with the key they want.
`OneEncoding` says that this is the same. A value has one canonical encoding,
because a length has one numeral (`OneNumeral`) and items of which each has one
encoding make up one slice (`SamePieces`); the induction is on the least depth at
which a value had two. `NoKeyReturnedTwice` follows with `CInv`: two entries with
equal keys would have equal spans, and no span comes before itself. So the first
entry found is the only one, in maps at every depth; `ParsersReturnNoKeyTwice`
says it of keys, extensions and attestation objects.

**`AuthDataProofs`.** Every step of the parsers moves the decoder as `Moves` does or
leaves it alone (`ParsersMove`), on slices of what they were handed, so
`ParsersWorkBounded` and `ParsersAcceptOnlyCanonical` follow from the decoder's
invariants. `AcceptsOnlyFields`: authenticator data that `Parse` accepts is laid
out as `IsLaidOut` says, the fixed fields, then the credential's key in its
canonical encoding if the flags announce one, then extensions in theirs if they
announce them, and not a byte more. The invariant `PInv` adds what is known while
the decoder is still at work (`InProgress`).

`NothingLaidOutRefused` is the converse: data that can be laid out so is accepted,
as the only fields that it can be laid out as. It rests on the decoder's `TInv`:
where the key ends is not written anywhere, but any key that the data could hold
begins where the decoder begins, so it is the one that the decoder finds
(`KeyIsFound`), and then the same goes for the extensions behind it
(`ExtensionsAreFound`). `NoChoice`, in the inductive invariant `LInv`, says that
between the two no other key is possible. `StoredKeysLoad` follows: the bytes that
were stored are a canonical encoding of the key, no longer than what the limits
allow, and `Decode` at login, which knows nothing of where they came from, reads
them to the last one as that key (`StoredKeyIsFound`).

**`VerificationProofs`.** `IInv` says that what is stored was enrolled with the
key that it holds (`CredsEnrolled`), that a challenge behind a session was issued
and is pending no more (`ChallengesServeOnce`), and the two properties
`SessionsAreSigned` and `SelfAttestedKeysAreHeld`. The lemmas `GoodLogin`,
`GoodRegistration` and `SelfSigned` say what the check chains leave of a posting
that they accept. From it: `SignedSessions`, `NoReplay` (a signature is over one
challenge, which serves once), `HeldKeys` and `GenuineAlarms`.

`HonestCeremonies` is the other direction, that no check is too strict: what a
supported authenticator and a page of this server make for a pending challenge is
accepted, whatever else was posted before. At registration it takes
`EncodedKeyParses` (each of the three kinds of key that `virtualauth.go` encodes
passes `cose.Parse` and comes out as itself); at login, that what is stored was
enrolled (`CredsEnrolled`) and that counters are natural numbers
(`CountersCount`): an authenticator's next count passes the comparison with any
earlier one, zeroes included.

**Only model-checked.** `EveryCallReturns`, since liveness under fairness is beyond
the prover's reach. `AcceptsCanonical`, `RefusesOnlyIllegal`, `AcceptsOnlyBuilt` and
`RefusesOnlyUnbuilt`: they compare with `Encode` and what is built from it, which
are recursive, as values are, and no theorem can be stated over a recursive
operator. What they say by computing, `OnlyCanonicalAccepted`,
`NothingCanonicalRefused`, `AcceptsOnlyFields` and `NothingLaidOutRefused` say by
rules, of all inputs and limits; that the rules and `Encode` agree is not proved,
and the runs are what connects the two. The properties stated by rules, on the
other hand, quantify over all sets and all values, which TLC cannot enumerate. The
violations, which are counterexamples.

## 5. What is not modelled

- JSON and base64: a posting's client data parses into its fields or does not.
  Bits of certificates beyond their public key (`attestation.go` trusts none).
- The mathematics of signatures and of the HMAC: a signature verifies when it is
  the key holder's over the same message under the same algorithm; a token that was
  not issued does not verify, and only a token of the current key does.
- The decoder's limits with the code's own values: 8 levels, 10000 elements and
  1 MiB are constants of `Cbor`, for which `WorkBounded` is proved in general.
- Which fields `decodeAttestationObject` finds in a decoded map, byte by byte:
  `Verification` takes an object to have its three fields or not to decode.
- Interleavings of `Verification`'s checks: it takes a request as one step, and
  leaves what happens between steps to `RelyingParty`, where the checks are one
  verdict.
- Flags, TLS, banner; the demo page and `tools/demodata`; `List`, which only reads.
- `Store.Open`'s permission check, which refuses to start and changes nothing,
  and `Store.Load`, `SetClock` and `SetSignCount`, which only tests use.
- Two servers on one store path: the mutex is per process and nothing in the
  code looks for a second one.
- A user's own two tabs that use up each other's challenges (challenge.go 105):
  nothing promises that a ceremony succeeds in any number of attempts.
- Wall-clock jumps: the model's clock never goes back. Challenge times are Go
  `time.Now` values of one process, which are monotonic; a token's expiry is wall
  time, so setting the machine's clock back would lengthen sessions.
- Creation times, AAGUIDs and nicknames, on which no decision depends.

## 6. Plan

Done: the modules above, in the order `ChallengeStore`, `FileStore`,
`RelyingParty`, `SessionKey`, `Cbor`, `AuthData`, `Cose`, `Verification`, with
their abstract specifications, runs and proofs.

What would add most now, in this order:

1. Composition: `RelyingParty` over `CredentialMap`'s invoke and return, to
   replace the informal step from `FileStore` to an atomic `creds` by a
   refinement, and `Verification`'s check chains as `RelyingParty`'s verdict.
2. A store that tells a credential from a later one of the same ID, to state
   what a login that began before both may still change.
