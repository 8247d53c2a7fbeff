# Formal verification of inventia_spoke_sdk

The SDK gives the Inventia "spokes" (services behind one Hub) the code they
share: validating the Hub's tokens, opening a database session for the tenant of
a principal, reading the master data that lives in the account's database, and
writing messages to a transactional outbox. This directory holds TLA+ models of
those parts, TLC configurations that check them on small instances, and TLAPS
proofs of what matters most for every instance.

Paths in this file are relative to the repository; `jwks.py:72` is short for
`inventia_spoke_sdk/jwks.py:72`.

    tlc -workers 2 -config JWKSFetcher.cfg MCJWKSFetcher     # a run
    tlapm JWKSFetcherProofs.tla                              # a proof

## 1. The system

| Part | State | Operations | Meets |
|---|---|---|---|
| JWKS fetcher, `jwks.py` | `_keys`, `_fetched_at`, `_lock`; the file at `cache_path` | `get_key`, `all_keys`, `_refresh`, load and save of the file | Keycloak over HTTP; called by every thread that validates; the file is shared by the workers of a pod |
| JWT validator, `jwt_validator.py` | none of its own but the fetcher and PyJWT's options | `validate`, `validate_user_token`, `validate_client_token`, `validate_any` | the fetcher, the clock, PyJWT |
| Principal, `principal.py` | an immutable value | its constructor's requirements | built by the validator, read by the session resolver |
| Session resolver, `db/session.py` | `_resolver`, one per process; for each session its connection's transaction | `configure_`, `get_`, `reset_session_resolver`, `session_for`, the `after_begin` event | the spoke's resolver, SQLAlchemy, PostgreSQL's `app.current_tenant` |
| FastAPI and arq helpers, `fastapi.py`, `arq.py` | none | dependencies and job helpers around `session_for` | requests and jobs run concurrently |
| Test helpers, `testing/db.py` | one connection in a transaction of the test's | `create_rollback_session_factory`, `install_test_resolver`, `per_principal_resolver`, `isolated_session` | register themselves as resolvers |
| Master-data repository, `masterdata/` | an `AsyncSession` with its identity map | reads of companies, products, units, participants, operation natures, certificates and their keys | tables that another service, master-data, writes |
| Schema drift check, `masterdata/drift.py` | none | compares models with a database's columns | run by the CI of master-data with the SDK that is installed there; spokes run versions of their own |
| Outbox, `outbox.py` | the table `outbox` | `enqueue` | the producer's transaction; a relay and consumers elsewhere |
| Base service, exceptions, package | none | | |

What is hard in it:

* **Threads around one lock.** `get_key` decides under a lock whether to send a
  GET, and sends it, parses it and writes a file with the lock held. Threads that
  waited must look again, answers must be applied in the order they were asked
  for, and every exit has to let go of the lock. Other processes write the same
  file, which no lock guards.
* **Stale knowledge.** The realm rotates its keys at any time. What the cache may
  serve, and what it may *refuse*, depends on when it last heard from the realm,
  and what it reads from disk is of an unknown age.
* **Partial failure.** A GET may fail, or succeed with a body that is not what it
  should be; the file is truncated and then written, and the process may die in
  between; each claim of a token may be of the wrong JSON type.
* **Reused connections.** The tenant is a setting of a PostgreSQL transaction.
  The same connection serves other tenants before and after, through commits,
  rollbacks, savepoints and sessions that are simply left.
* **Reads beside a writer.** A certificate and its key are read by two SELECTs
  while master-data re-keys, and a session keeps the entities it has loaded.
* **A check made elsewhere.** The models are compared with the schema when
  master-data's CI runs, not where they are used, and the database is migrated,
  and spokes are updated, at other times.
* **At-least-once delivery.** A message must exist exactly if the change it is
  about does, and be acted on once though it may be sent more than once.

What makes each part correct is stated in section 4. `PROJECT.json` lists the
hazards one by one, each at its line and with the properties that cover it.

## 2. The modules

    KeyCache  <---implements---  JWKSFetcher        (JWKSRefinement)
       ^                             ^
       | INSTANCE                    | EXTENDS
    HubJWTValidator              JWKSProperties ---> JWKSFetcherProofs
       |  EXTENDS TokenClaims                   ---> JWKSRefinementProofs
       v
    ValidatorProperties ---> ValidatorProofs

    ValidatorOnFetcher = HubJWTValidator with JWKSFetcher in KeyCache's place
       |                 (EXTENDS JWKSRefinement, INSTANCE ValidatorProofs)
       +---> ValidatorOnFetcherProofs

    SessionResolver ---> SessionProofs
    CertificateReader ---> CertificateProofs
    SchemaDrift <---EXTENDS--- MasterDataReads ---> MasterDataProofs
    OutboxDelivery  <---implements---  Outbox ---> OutboxProofs

Each `MC...` module instantiates the module it is named for. Definitions called
"a fault of X" in a module are plausible bugs of the code: put in X's place,
they make a run fail, which shows that the property in question would notice.

### JWKSFetcher

The threads of one process. `pc` says where a thread is in `get_key` or
`all_keys`; what runs between two visits to a shared resource is one action.

| Action | Code |
|---|---|
| `Call`, `Take` | a caller enters `get_key`/`all_keys` and, later, goes on with the result |
| `Hit` | lines 53-55: lock, fresh, found, unlock |
| `StartRefresh`, `Answer` | lines 53-78: lock, not found or expired, GET; the lock is kept |
| `UseStale`, `RefreshFails` | lines 79-91: fall back on old keys, or raise |
| `Adopt` | lines 87-96: the body replaces `_keys`, the clock is read into `_fetched_at` |
| `OpenForWrite`, `Write`, `SaveFails` | lines 117-124: `write_text` truncates, then writes; an `OSError` is swallowed |
| `OtherSaves` | the same lines in another process of the pod, without a lock in common: a set it fetched at any time before, a body without keys, or a file that is no JSON |
| `Return` | lines 58-60: found or `JWKSError`, unlock |
| `Restart` | the process dies anywhere; `__post_init__` and lines 98-115 in the next one |
| `Rotate`, `Tick`, `Answer` | the realm, the time, the network |
| `SetBack` | line 72 after the machine's clock was set back: `_fetched_at`, the one reading that is kept, is later by as much |

A key is its kid. A GET ends in one of five ways (`Exchanges`): a usable body, a
failure that `_refresh` catches, a body without usable keys (which empties the
cache: line 91 skips every entry), a body whose `"keys"` is no array, and one on
which the parsing itself raises. `pubs` is the history of published key sets and
`keysVer` remembers which of them the cache is of; no guard reads `keysVer`.
With `SharedDisk` the file is also other processes': a `Write` may land on what
one of them wrote meanwhile and leave a file of two writers, which the next
process finds unreadable (`Torn`). Only `Restart` reads the file.

`KeyCache` is the abstract specification: one key set held, callers who ask, may
consult the realm, may learn from it, and are served or refused. It has neither
lock, network, file nor threads, and says on what grounds a caller may be served
(confirmed within the TTL, by a clock that may be set back; just learnt; or the
caller's own exchange failed) and refused (the caller's own exchange failed, or
showed the kid missing), and that what a caller heard of the realm (`heard`) is
learnt from within `Lag`. `JWKSRefinement` has the refinement mapping. The
validator is built on `KeyCache`, so that its instances need not carry the
fetcher's detail.

### TokenClaims and HubJWTValidator

`TokenClaims` are the conversions of lines 211-311 and the requirements of
`SpokePrincipal.__post_init__` as functions on classes of JSON values (a UUID,
text that is a whole number, other text, empty, null, a number, one of 32 digits,
zero, an infinite number, an array, an object, absent). They return a principal or
the exception Python raises, which is not always an `InvalidToken`. The claims are converted in the order of the code, and
the first that fails decides.

`HubJWTValidator` is `_decode` as callers run it side by side: `Validate` reads
the header, `Lookup` is the key cache at work for this caller (each of its steps
an action of `KeyCache`), `LookupFails` is the `except Exception` of line 163,
`Decode` what PyJWT checks with the key at that moment, the token's type and the
conversion. `rotated` and `failed` are history variables for the properties. What
PyJWT verifies is modelled from the options `_decode` passes (lines 170-178 and
191-199), in the order of its checks (`DecodeError`): the algorithm, the signature,
the required claims (a null counts as missing), `iat`, `nbf` and `exp` with leeway,
`iss` and `aud`, and that newer versions reject a `sub` that is no text
(`StrictSub`). It reads the three times with `int()` and catches `ValueError` only
(`IntError`). With a JWKS the token names its algorithm itself, so PyJWT meets the
RSA key with any algorithm it has (`AlgorithmError`). `back` is what
the machine's clock was set back by: it prolongs the life of tokens and of what
the cache holds alike (`SetBack`).

`ValidatorOnFetcher` puts the threads of `JWKSFetcher` in the place of `KeyCache`:
`Bring` calls `get_key`, `InGetKey` is any step of the thread in it, `Rejects` and
`Decodes` take its outcome. `ValidatesAsOnKeyCache` is the specification of
`HubJWTValidator` under the mapping of `JWKSRefinement`.

### SessionResolver

`Configure` sets or resets the registry, `Enter` and `Resolve` are `session_for`
before and after its `await`, `Begin` and `Nest` run the `after_begin` event,
`Exit` leaves the `async with`. A connection has the current value of
`app.current_tenant` and, for each open transaction or savepoint, the value to go
back to. `is_local` makes COMMIT go back, too; releasing a savepoint does not.

`Request` and `Job` are the two ways in, `session_dep_for` and `session_for_job`;
`Isolated` is `isolated_session`, which asks no resolver and binds no tenant.
`Exit` and `GiveUp` may come at any time, as FastAPI's closing of a dependency
after the response, an exception or a cancellation does. `ForAnyone` and
`PerPrincipal` are the resolvers of `install_test_resolver` and
`per_principal_resolver`, and a configuration chooses among such resolvers.

Pools in `Fixtures` are the one connection of a test in a transaction of its own
(`create_rollback_session_factory`): sessions on it open savepoints in that
transaction, and may nest. `TestEnds` is the fixture of the docstring
(`testing/db.py:16-28`) rolling it back.

### CertificateReader

The read that takes two SELECTs, `get_active_certificate_material`, and the
metadata reads beside it. master-data commits between any two SELECTs (READ
COMMITTED, which the SDK leaves as it is), and a session's identity map returns
entities it still holds with the attributes they were first loaded with, as
SQLAlchemy does without `populate_existing`. `KeepOnCommit` is
`expire_on_commit=False`.

`moments` is a history variable: what each call under way could have seen of its
company at each moment since it began, the newest certificate and, for a call that
wants the material, whether the key was there. `AnswerAt` is what that call would
have answered at such a moment; a call for metadata alone never misses a key.

Keys are taken to be Fernet keys and passwords to be UTF-8 text; with others
`Fernet(key)` (`crypto.py:33`) or `decode()` (`repository.py:331`) raises what is
no answer of the model. What master-data does is external: it issues, switches and re-keys certificates
in transactions that leave rows and key in agreement (`crypto.py:17` speaks of a
replaced key; `repository.py:313-315` of legacy tenants whose key is relocated
first).

### SchemaDrift and MasterDataReads

`SchemaDrift` has `check_models_against` as `Problems`, the tables a database
lacks and the columns its tables lack, and `assert_no_drift` as `NoDrift`. Around
them it has what `drift.py:1-19` tells of their use: master-data's CI merges a
change of its schema (`Merge`) or installs another SDK (`Pin`) when the check of
the SDK it has installed passes; the database is migrated later (`Migrate`); and
a spoke installs any version at any time (`Upgrade`). `vetted` remembers the
version the schema in use was checked with. A SELECT of an entity names all
columns of its model, so it is refused (`Refused`) exactly if one is missing.

`MasterDataReads` has every read that is one SELECT: by id, by code, lists by codes,
and lists cut at their limit, which is by the order of the codes for products and
operation natures (`IsCut`), anywhere for companies and participants, which come in
the order of their names (`IsCutByName`), and nowhere for units. Of the natures the
system has rows that tenants may override. Products, units, participants and
companies are otherwise read in the same way and are one table here. master-data writes rows between any
two reads and keeps codes unique within a tenant. The result of a call is the set
of rows it returns: which rows these are does not depend on the identity map,
whose staleness is `CertificateReader`'s subject.

### Outbox

A producer's transaction is a stack of frames, the transaction and its
savepoints. `Change` is its business state; `Enqueue` adds a row to the session,
with the next number of the identity column `seq` and the caller's `envelope_id`,
and `Commit` makes it visible with the number it has; a number drawn for a row
that is rolled back is lost. `Release`, `Rollback` and `Commit` are SQLAlchemy's.
`enqueue` itself knows nothing of changes, so what makes the outbox work is a rule for
its caller, stated as two guards: `MayEnqueue`, an envelope is about a change of the
transaction it is enqueued in (of any frame that is open: a row in a savepoint may
be about a change made outside it, and be taken back without it), and `MayCommit`,
what is committed has its envelope (so that one taken back is enqueued again, or the
transaction given up). `since`, in each frame, remembers what was committed when it was opened. A
producer that does not learn the fate of its commit may do all again. The relay
(`Publish`, `Mark`, `Fail`) and the consumer's inbox (`Consume`) are external, from
the columns of the table and from lines 14-17.

`OutboxDelivery` is what all this comes to for those who see only what is
committed: changes and the messages about them appear in one step and stay, and
each is acted on at most once. It has no rows, numbers, savepoints, attempts or
relay; `announced` is mapped to the envelopes of the committed rows.

## 3. The runs

Passing runs:

| Run | Instance | What it shows |
|---|---|---|
| `jwks_cache` | 2 threads, 2 kids, TTL 1, Lag 1, clock to 5, 2 publications, a shared disk, 1 restart, the clock set back by 1, four of the five kinds of answers; about 5 million states | the invariant `IInv`, `FetchJustified`, the five properties of calls and cache, and `OneGetPerTurn` |
| `jwks_liveness` | 2 threads, 2 kids, TTL 0, Lag 0, clock to 2, 2 publications, disk, 1 restart, the clock set back by 1, answers that are usable, failures or raise in the parsing; fairness; about 950 thousand states | `LockReleased`, `SomeoneReturns`, the refinement of `KeyCache`, and `IInv` |
| `validator_jwks` | 2 callers, 2 kids, TTL 0, Lag 1, clock to 3, 1 rotation, the clock set back by 1, 3 tokens: a user's, a client's that is mis-signed, one without a kid; about 4.3 million states | `VInv`, `EntriesAgree`, `OnlyGenuineAccepted`, `NoFalseReject`, `WithdrawnKeyBound` |
| `validator_secret` | shared secret; each claim of each class, two at a time; each kind of time in `iat`, `nbf` and `exp`; each algorithm; expired, mis-addressed, mis-signed and mis-typed tokens; about 55 thousand states | `TypeOK`, `PrincipalsCoherent`, `OnlyOddTokensEscape`, `OnlyGenuineAccepted` |
| `sessions` | 2 tasks, 3 principals (one without a tenant), 4 connections: 2 pooled, one that tests of all tenants share, one that a test keeps for a tenant; 3 resolvers, 2 savepoints deep | `SInv`, `OwnTenant`, `NeverLeaks`, `TestsUndone`, `NoOtherTenant` |
| `certificates` | 1 session, 2 tenants (one legacy), 2 companies, 3 certificates, 2 keys, 2 times of issue | `CInv`, `HonestAnswer`, `OnlyOutdatedIsUndecipherable` |
| `masterdata_reads` | 1 spoke, a tenant with a row, the system with two, a tenant without any, 2 codes, limit 2; 1 table, 2 columns, 3 versions of the SDK | `ReadsInv`, `TenantOverrides`, `ListAgreesWithGet`, `CheckedReadsWork` |
| `outbox` | 2 producers, 2 envelopes, 2 numbers, 2 attempts, 1 savepoint deep; about 930 thousand states | `OInv`, `ActedOnOnce`, `NumberedInOrder`, the refinement of `OutboxDelivery` |

Runs that refute a statement of the documentation (section 5): `jwks_saved_cache`,
`jwks_bad_body`, `validator_error_kind`, and `masterdata_stale`, which is
`CertificateReader` with sessions that expire entities on commit.

Why the bounds are enough for the interesting cases:

* *JWKS.* One rotation distinguishes a current from a retired key set, two kids
  a key that stays from one that goes, a restart after it an old copy on disk from
  a new one. The clock starts at TTL + 1 so that `_fetched_at = 0` is expired, and
  goes three units on: fetch, expire, fetch again. A second thread is enough for
  all interleavings around one lock that two calls can notice. Without a disk copy
  the behaviours are those in which `Adopt` skips the saving, and without other
  processes those in which `OtherSaves` does not happen; the proofs are for each.
  The fifth kind of answer, on which the parsing raises, is in `jwks_liveness`,
  whose smaller times still let a cache expire, the realm rotate and the clock be
  set back before and after. The disk is the process's own there: what others leave
  in the file is to the next process what an older process left.
* *Validator.* Tokens expire, and become good with the clock set back, within the
  run, before and after the rotation, so that both fall between lookup and decoding; a cache expires at the
  next tick, and an answer may be one unit late. The secret's run has a TTL and no
  keys. `NotRSA`, and tokens under a JWKS whose algorithm is not RSA or whose times
  are no numbers, are left to the proofs.
* *Sessions.* Two connections of one pool let a connection go from one tenant to
  the other while the second is in use; the principal without a tenant is the one
  that would notice a setting left behind. Of the tests' connections one is for
  anybody, so that tenants follow one another on it, and one for a single tenant.
* *Certificates.* Sessions meet only in the tables, which master-data alone
  writes, so one session sees all that several would.
* *Master data.* The same goes for spokes. Two of the three rows may have one
  code, the tenant's and the system's, and a limit of 2 then cuts a list between
  any two of them. Of the three versions of the SDK the second has a column more
  than the first, and the third another one instead: an SDK may be newer than the
  one checked, part of it, or neither.
* *Outbox.* Two producers with the same envelope are the retry; two numbers let one
  envelope have two rows, a number be lost, and rows be committed in the other order.

Symmetry is used for model values that are only compared for equality, in runs
without liveness.

**Fairness.** `FairSpec` is weak fairness of `Progress(t)` for each thread: a
thread that holds the lock, or finds it free, takes its next step, and a GET ends
because `httpx.get` is called with `timeout_seconds` (`jwks.py:76`). Callers, the
realm, the clock and restarts are under no obligation, and who gets a contended
lock is open, since `threading.Lock` promises nothing there. That is why
`SomeoneReturns` says that some call ends while calls wait, and not that each
does.

**Deadlock** is checked in every run: in none can the modelled system stop.

## 4. The properties

*JWKS.* `FetchJustified`: no GET for what another thread has just fetched.
`ServedKeysPublished`: what is served was published together.
`RetiredKeyBound`: a retired key is served without asking for at most TTL plus
`Lag`, the time an answer was under way, since the TTL runs from its adoption (line
92), plus what the clock was set back by meanwhile (line 72).
`NotFoundIsHonest`: a kid is said to be missing only by the call's own GET.
`OutageServesCache`: while the realm cannot be reached, cached keys are served.
`NoRollback`: a process's cache never returns to an older set, whatever others
leave in the file.
`OneGetPerTurn`: who holds the lock sends at most one GET before letting go of it,
so that in an outage a caller waits one timeout for each thread that gets the lock
before it, and then its own.
`ImplementsKeyCache`: all of it together, as seen by callers.

*Validator.* `OnlyGenuineAccepted`: a token is accepted only if it is genuine and
unexpired when it is decoded. `NoFalseReject`: a genuine token whose kid stays
published is judged by its claims alone, in the wake of a rotation as well.
`EntriesAgree`, `PrincipalsCoherent`: the methods never disagree about whom a
token stands for, and the principal is that of its claims. `WithdrawnKeyBound`: a
token of a key that the realm has withdrawn is verified with it, unasked, for at
most TTL, `Lag` and what the clock was set back by. `OnlyOddTokensEscape`: of all
the checks and conversions a token goes through, nothing but `InvalidToken` comes
out unless a client's `account_id` or (with an older PyJWT) a user's `sub` is no
text, the tier is beyond all numbers, `iat` or `nbf` is null, `iat`, `nbf` or `exp`
is infinite, an array or an object, or, under a JWKS, the algorithm is one that the
library has for other keys, or that it cannot look up: the exceptions of section 5,
item 3, are these and no more, within what section 7 leaves out.

*Sessions.* `OwnTenant`, `NeverLeaks`: on a pool each transaction runs under its
principal's tenant, and no tenant outlives its transaction. `TestsUndone`: the
transaction of a test outlives its sessions and its rollback leaves no tenant.
`NoOtherTenant`: inside a test's transaction a tenant does outlive its session,
but a session then runs under a tenant its connection is for, and without a tenant
only if it has none; with a connection for each tenant that is its own.

*Master data.* `HonestAnswer`: None, a certificate or `CertificateKeyMissing` are
each what the tables would have answered to that kind of call at some moment of it,
although two SELECTs made it up. There is one exception, and the property names it:
when the key of a legacy tenant comes in between the two SELECTs, the certificate
may be the newest of a moment at which it could not be opened yet, and a newer one
be there by the time it can. `OnlyOutdatedIsUndecipherable`: `CertificateDecryptError`
means that the session's copy of the row is out of date, never that the database
holds material its key does not open. `TenantOverrides`: a tenant's own nature
comes before the system's. `ListAgreesWithGet`: a consumer who decides between
the natures of a list as `get_operation_nature_by_code` does comes to the same
nature, for each code before the last one of the list, however the list is cut.
`CheckedReadsWork`: a read fails for a missing table or column only if the spoke's
SDK maps what the checked one does not; a spoke that runs the checked version, or
one whose models are part of it, is safe through merges, migrations and updates of
master-data. `ReadsInv`: rows of the tenants asked about only, and
no `MultipleResultsFound`.

*Outbox.* For callers that keep the rule: `OInv`: a change is committed exactly if an
envelope about it is, and no row in a frame is about a change that could be taken
back without it.
`ActedOnOnce`: a consumer that goes by `envelope_id` acts once on each change and
on none that was not committed. `NumberedInOrder`: a row's `seq` is no other's and
higher than those of all rows committed when its transaction began. It is not
higher than those committed later, so a relay that goes by `seq > last` would miss
rows. `ImplementsDelivery`: seen from outside, atomic commits of changes with their
messages, nothing of which is ever taken back.

## 5. Where code and documents disagree

1. `jwks_saved_cache`: `write_text` (jwks.py:122) truncates the file before it
   writes, so a process that dies in between leaves the next one without keys,
   though a set had been saved. CHANGELOG.md:103 says the disk cache survives the
   restart of a pod.
2. `jwks_bad_body`: a 200 answer with JSON of the wrong shape makes `_refresh` raise
   (jwks.py:87-91) even when the wanted key is cached. CHANGELOG.md:77 promises
   degradation to the stale cache. If the JSON is no object the exception is an
   `AttributeError`, not a `JWKSError`.
3. `validator_error_kind`: a client token with `"account_id": null` raises a
   `TypeError` (jwt_validator.py:256), where README.md:58 shows callers catching
   `InvalidToken` alone. So does a null `iat` or `nbf`, and one of the three times
   that is an array; an infinite one raises an `OverflowError`: neither is caught at
   179 and 200. With an RSA key an algorithm of another family is a `TypeError` or
   an `InvalidKeyError`.
4. `masterdata_stale`: an entity the session still holds is returned with its old
   attributes. ADR 0004:96 says a read is always the current truth.

Noticed while reading, and visible without a model:

* `get_active_certificate` orders by `issued_at` alone and takes one row
  (repository.py:280), so for equal times it is not "determinístico" (269-270);
* `list_operation_natures` cut at its limit may part the two rows of a code
  (repository.py:233), between which 223-225 lets the consumer decide;
  `ListAgreesWithGet` says that only the last code of the list is concerned;
* in a test's transaction a committed session leaves its tenant set until the test
  ends (`set_config(..., true)` in a savepoint that is released), so a later
  session without a tenant runs under it; session.py:35-36 speaks of a pool
  only, and `NoOtherTenant` says how far it goes;
* the fixture of `testing/db.py:23` hands `install_test_resolver` a lambda where it
  takes a factory (lines 65-78).

## 6. What is proved

TLAPS checks these for all values of the constants: any number of threads,
callers, tasks, sessions, keys, tenants and publications, without the bounds of
the runs. The assumptions are the named `ASSUME`s of the modules, all about
constants (that `AllKeys` is no kid, that the clock's times are natural numbers, that
a connection belongs to a pool and the like). Of tokens `TokensAssumption` says no
more than that each claim, each of their times and their algorithm are of one of the
classes.

* **JWKSFetcherProofs.** `IInv` is inductive (`Invariance`). It says that the lock
  is held exactly by the thread between `StartRefresh` and the end of its call; that
  memory and disk hold a publication's keys or none, whatever other processes save;
  that each publication after the cached one is at most `Lag` older than
  `_fetched_at`, or by the steps of the clock more; and at each `pc` what the thread
  knows of its answer. `TypeOK` alone would not do: that answers are applied in
  order follows from the lock, which ties every `answered` thread to a cache no
  newer than its answer. From it follow `FetchesJustified`,
  `ServedKeysArePublished`, `RetiredKeysExpire`, `MissingKidsAreMissing`,
  `OutagesAreServed`, `CacheMovesForward` and `TurnsAreBounded`; the last is the part
  of `LockReleased` that needs no fairness: a refresh has at most five steps.
* **JWKSRefinementProofs.** `Refinement`: every step of the fetcher is one of
  `KeyCache` under the mapping, or invisible. One lemma per action, on `IInv`.
* **ValidatorProofs.** `VInv` is inductive over `KeyCache`'s steps
  (`VerdictInvariance`): it ties `stage` to `phase`, what is given to the kid asked
  for, what was seen to what was published during the call, and what was heard to
  the time at which it was still in force, so that every publication after the one
  held is at most `Lag` (and set-backs) older than its confirmation. From it follow
  `AcceptedAreGenuine`, `GenuineAreAccepted`, `PrincipalsAreCoherent`,
  `MethodsAgree`, `VerdictsTyped` and `WithdrawnKeysExpire`. Its part `Deserved`,
  that a verdict other than `InvalidToken` is what the conversions make of the
  claims, or comes of its times or its algorithm, gives `OddTokensAlone`, with a lemma
  for each check and conversion on what it raises (among them `Conversions`,
  `FirstErrors`, `UserTyped`, `ClientTyped`).
* **ValidatorOnFetcherProofs.** `Composition`: each step of a thread that validates
  on the fetcher is one of `HubJWTValidator`, or invisible. The fetcher does what
  it does without validations (`FetcherRuns`), so `IInv` holds of it, and the lemmas
  of JWKSRefinementProofs apply action by action. By it the theorems of
  ValidatorProofs hold on the fetcher with lock, GETs, file and restarts
  (`FetcherAcceptsGenuine`, `FetcherRejectsNoGenuine`, `FetcherKeysExpire`,
  `FetcherVerdicts`), under the assumptions about constants that HubJWTValidator
  names. TLC has compared the two specifications as well, on one thread with all of
  the fetcher and on two without disk and restarts; that is no run of its own.
* **SessionProofs.** `SInv` is inductive (`SessionInvariance`): on a pooled connection
  all values to go back to are the session's own tenant but the first, which is
  none; on a test's connection sessions are properly nested above its transaction.
  From it follow `SessionsRunAsThemselves`, `PoolNeverLeaks`, `TestsAreUndone`. Its
  part `PoolInv`, that a connection and all values to go back to are of tenants its
  pool is for, and of some tenant once a session with one has begun, is inductive on
  top of the rest and gives `NobodyElses`.
* **CertificateProofs.** `CInv` is inductive (`CertificateInvariance`): rows and keys
  agree after each transaction of master-data; the certificate a call has taken was
  the newest at one of its moments, with its key there, or, of a legacy tenant,
  without; and in that case `CertificateKeyMissing` was the answer of that moment. A
  key that was there stays, so only the legacy tenant's can come in between, which
  is the exception of `HonestAnswer`. From it follow `AnswersAreHonest` and `OutdatedAreUndecipherable`.
* **MasterDataProofs.** `ReadsInv` is inductive (`ReadsInvariance`): the merged
  schema passes the check of the pinned SDK and the schema in use that of `vetted`,
  and codes are unique within a tenant, from which no get finds two rows. What each
  kind of call gets is stated once (`CallGets`), and from it follow
  `TenantsOverride` and `ListsAgreeWithGets`; `CheckedReadsSucceed` follows from
  the invariant, for every set of tables, columns and versions.
* **OutboxProofs.** Under the caller's rule, `OInv` is inductive once the frames' rows are known to be
  numbered apart from each other and from the committed ones (`Invariance`), which
  `NumberedInOrder` is part of, and once each row of a frame is known to be about a
  change of that frame or of one around it. From it follow `OutboxInvariance`, `OncePerChange`
  and `NumbersFollowCommits`, for any number of producers and any depth of
  savepoints; and `OutboxDelivers`, by which a commit is one step of
  `OutboxDelivery`, a consumer's action another, and all else is invisible.

Only model-checked: `LockReleased` and `SomeoneReturns`, since liveness under
fairness is out of reach of the prover, and the four refutations.

## 7. What is not modelled

* A clock that is set forward: to the code it is time that passes, so keys and
  tokens expire sooner; only `Lag` would have to be the larger for it.
* How long a caller has its key before it decodes with it. The model sets no bound,
  so a token may be verified with a key withdrawn since the call; the bound of
  `WithdrawnKeyBound` is of the moment the key is handed out.
* How many others go before a caller that queues during an outage
  (`OneGetPerTurn` says how long each takes). Not even an eventual turn can be
  claimed: `threading.Lock` promises no order.
* `issue_for_test`, which signs tokens for tests; the fields of a principal that
  are copied; `has_role`, `has_scope`, `policy_get`, lookups in an immutable value.
* Tokens that Python cannot take apart at all: nesting beyond its recursion limit,
  strings that do not encode. A `jti` that newer versions of PyJWT check ends in
  `InvalidToken` like other checks, and is left out.
* Stored certificates whose tokens or keys are malformed or tampered with
  (`crypto.py:17`, 33): the models are of what master-data writes.
* A caller of `enqueue` that breaks the rule of section 2.
* A `set_config` that fails (the transaction is then lost with it).
* `created_at` and `next_retry_at` of the outbox: in which order and how often a
  relay drains the table is not in this repository, and neither is its fairness, so
  nothing is said of eventual publication.
* A transaction that spans the validator and the session: the tenant a session
  runs under is the principal's `tenant_id`, and that is the caller's argument to
  `validate` (jwt_validator.py:98-121), not a claim of the token. Nothing of the
  SDK relates the two, so there is nothing to check.
* The base service, the exceptions and the package's re-exports: they have no state
  that changes.
* What ADR 0003 says of telemetry: there is no such code at this commit.

## 8. What is left

The components that change state are modelled and their safety properties proved.
What could still be added:

* liveness of the outbox, once a relay is part of the code;
* a relation of a token's tenant and its session's, once the SDK makes one.

New questions go into the instances above where they can, so that the number of
runs stays small.
