# Verification of D3 Auth

TLA+ models of the D3 Auth identity provider (`src/apps/server`), of its console (`apps/console`) and of the library its apps use (`packages/auth-client`, `packages/auth-client-python`, `examples/express`), the TLC runs that check them on small instances, and the theorems TLAPS proves about them for instances of every size. Paths below are relative to `src/apps/server/src/` unless they say otherwise. `PROJECT.json` holds the same information for tools: every component, run, mutant, mapped definition, hazard and theorem.

D3 Auth is one Node process in front of PostgreSQL. Requests interleave at every `await`; a database statement, or a transaction under the lock it takes, is atomic; the process may stop at any moment and comes back with its rows and without its memory. Nearly everything that can go wrong follows from one shape: a handler reads, awaits, and writes a value computed from what it read. That is the grain of the models: **an action is the stretch of a handler between two awaits that matter, and what the handler has read is part of the state.**

## The system

| Component | State | Operations | What makes it correct |
|---|---|---|---|
| Sign-in: `interaction/machine.ts`, `flow-store.ts`, `routes.ts`, with approvals `account/approvals.ts`, trusted devices `security/trusted-device.ts`, passkey challenges `security/webauthn.ts`, the break-glass window `setup/recovery.ts` | a login state and a challenge per interaction, the result given to the provider, approvals, devices, the window | identify, password, code, phone (ask, poll), passkey (begin, finish), trust, abort, finish | a login rests on the credentials of the account it names; the second factor is skipped only for a reason; a phone's approval counts only if given; a browser is trusted only after a factor |
| Signing keys: `oidc/keys.ts`, `keys-routes.ts`, `cli/rotate-keys.ts` | rows `next → current → retiring → retired`; the keys a process loaded at boot; consumers' cached key sets | boot, generate, promote, retire, publish | no live token loses its key: in the published set, in a cached copy, in the server |
| Accounts: `setup/first-run.ts`, `admin/invites.ts`, `admin/routes.ts`, `account/routes.ts`, `account/deletion.ts`, `setup/recovery.ts` | users with kind, status, deletion date, password, factors; invites; the setup code; break-glass links | claim; invite, accept, revoke; suspend, reactivate, reset, change kind; enrol, remove, change password; ask for deletion, purge; recover | one owner, who stays; an invite works once; only who asked is purged |
| Access: `authz/`, `admin/groups.ts`, `admin/apps.ts`, `admin/manifest.ts`, `oidc/provider.ts`, `clients.ts`, `resources.ts`, `revoke-tokens.ts`, the consent prompt | grants of people and groups, apps and their roles, who has been where; provider Grants with their tokens | authorize, consent, redeem, refresh; set and revoke grants, change groups, register, update, enable, disable, remove; the revocation after each | access taken away reaches every token; grants hold declared roles; a refused refresh destroys nothing |
| Sessions: `interaction/sessions.ts`, `security/sessions.ts`, `oidc/backchannel.ts` | the provider's sessions, our mirror of them, the apps' own sessions, logout tokens on their way | sign in, authorize; end one, the others, all; switch, sign out; tell an app, try again, give up | what is recorded as revoked is gone, what is recorded as told is ended, nothing else is, and every app is told or that is recorded |
| Proving it is you: `security/throttle.ts`, `security/totp.ts`, `console/auth.ts`, step-up and password of `account/routes.ts`, `setup/owner-password.ts`, `apps/console/src/shared/StepUp.tsx` | the failures counted, the code used last, sessions and grants with their last proof, the password, the click that is held | sign in, step up, change the password here or on the host, act | guesses are spaced, a code is good once, a proof opens one session for five minutes, an old password's sessions end |
| The app's side: `packages/auth-client*`, `examples/express` | pending sign-ins, cookies, accounts and sessions of the app, cached keys, events seen | start, call back, exchange, verify, connect, sign out, receive a logout token | a callback is finished where it began; an account is connected only by its own sign-in; no genuine token is refused for want of a key |
| Export, import, seed: `admin/state.ts`, `cli/state.ts`, `boot/seed.ts` | the configuration, a file, the writes an import has left to do | export, plan, write row by row, stop, run again; the console meanwhile | a finished import leaves what the file describes; no import gives power |
| What runs by itself: `jobs/daily.ts`, `backup/`, `audit/alerts.ts`, `index.ts` | timers, runs, bundles, the audit trail, evaluations under way | backup, drill, by hand; evaluate, mail, record; stop, start | no failure falls between two alerts; a missing backup is noticed; the drill fails for a reason |
| Console pages: `apps/console/src/admin`, `account`, `shared` | what a page shows and holds, requests and answers under way | click, confirm, prove, type; answers in any order, lost or refused | "done" is true; what is registered was previewed; the page comes back |

### How they interact

The provider (`oidc-provider`, a library, external steps in the models) raises an interaction for an authorization request; the login router answers it (SignIn) and hands the provider a result; the provider asks the hooks what the person may have (Access), issues tokens signed by the keys the process loaded (SigningKeys) and saves its session, which a middleware mirrors (Sessions). The app redeems the code, checks the signature against the keys it has cached and begins a session of its own (Consumer). The account handlers (Accounts) change the rows that a sign-in in flight has already read, and then cut the person off: sessions, tokens, trusted devices. Whoever takes access away revokes tokens (Access) and tells the apps (Sessions). Nearly every handler of the console is behind a guard that wants a proof of the last five minutes (Guard); the page holds the click meanwhile (Console, Guard). Nothing is locked between handlers except where the code says so: first run, the last owner, and the boot that mints a key.

Where two modules meet, each has the other's part as one step, and the same step with the same effect: `SignIn` has what an account change does to a sign-in and its devices, `Accounts` the handlers that make it; `SigningKeys` has consumers that cache, `Consumer` a provider that rotates by the same rules; `Sessions` has apps that verify and answer, `Consumer` the app in full; `Guard` has the prompt of one browser with the server's clock, `Console` the prompt among everything else on a page.

## Modules

```
LoginMachine  <- SignIn      <- MCSignIn      (TLC)
                             <- SignIn_proofs (TLAPS)
                 SigningKeys <- MCSigningKeys, SigningKeys_proofs
                 Accounts    <- MCAccounts, Accounts_proofs
                 Access      <- MCAccess, Access_proofs
Telling       <- Sessions    <- MCSessions, Sessions_proofs (a refinement)
                 Guard       <- MCGuard, Guard_proofs
                 Consumer    <- MCConsumer   }
                 Console     <- MCConsole    } <- Clients_proofs
                 Transfer    <- MCTransfer   }
                 Operations  <- MCOperations } <- Host_proofs
```

`Clients_proofs` and `Host_proofs` extend two modules each; hence `PageSpec` and `HostSpec` where others have `Spec`.

An MC module adds the symmetry sets and, where a constant is not a plain set, its value. A definition called a mutant in a comment is a plausible bug of the definition that follows it; no specification uses it. Each property of a passing run has one with which that very run fails, so no property holds whatever the code does.

### LoginMachine and SignIn

`LoginMachine` is the pure machine of `machine.ts`: its states, `afterCredential`, and one operator per event of `advance`. The list `amr` is a set, since only its members matter.

`SignIn` is the router over it. `req[r]` is a request: `Load` is `context()` with the step check; then either the database is asked (`IdentifyKnown`, `PasswordAccepted`, `TotpAccepted`, `AskPhone`, `PasskeyRecall`, ...) and the state to write is computed, or the request is refused; `Save` writes it. A login state that is complete goes through `finish()`: `FinishDenied` or `FinishAllowed`, `IssueDevice`, `RecordLogin`, `HandOver` to the provider, `ClearFlow`, `Spend`, each a step. `Resume` is the provider consuming a result. `Crash` loses all requests and no rows. `AccountChange` is what other components do to the account meanwhile, their own order kept: the account first, the devices after (`cutting` is where such a handler stands). History variables carry what the properties speak of: `proven` (credentials verified, with their interaction), `excused` (an account seen with no factor to ask, or with its own trusted device), `uses` (interactions completed in one break-glass window).

Credentials are abstract: a password, a code or an assertion is right, and recorded in `proven`, or wrong. A right code stays usable here; the replay rule of `totp.ts` is in Guard.

### SigningKeys

One algorithm (each rotates alone). A row has its status, `createdAt` and `retireAfter`. Every operation is a read and later a write, by kid, of what was read: `GenerateCheck`/`GenerateCreate`, `PromoteRead`/`PromoteReadCurrent`/`PromoteSwitch` (the transaction), `RetireRead`/`RetireWrite` (one update per key). `Abandon` is an operation that dies in between. A boot mints the first key if there is none (`BootMint`, under the lock), then loads what is published (`BootLoad`): the first in the order of `STATUS_ORDER` signs. `Sign` issues a token; `liveUntil` remembers when the last token of a key expires. `Fetch` is a consumer reading the published set, which comes from the table and not from what the process loaded.

Time is discrete; `Tick` does not pass inside an operation or a boot, which take moments where the waits take hours. `Tick` also carries the one operational premise, which is not in the code but in `docs/runbooks/key-rotation.md`: after a promotion the server is restarted within `RestartWindow`.

### Accounts

`task[t]` is a handler in flight: what it has read of whom. `Start` and `Done` bracket it. The transactions are single steps: `ClaimCreate` (advisory lock, count, create), `Accept` (claim by `acceptedAt` alone, then re-enrol or create), `Delete` (owners locked, the last one refused), `Reset`. `Update` is Prisma's `update`, which throws and writes nothing if the row has gone. `Purge` deletes one account found earlier by a statement that asks again. Ids are never reused: `absent` is not minted, `gone` is purged. `Boot` loses all handlers in flight and mints a setup code if there is nobody. An instance starts unclaimed, or settled with an owner who holds a factor and any guests. `spent`, `asked` and `cleared` are histories.

### Access

`req[r]` is a request of a browser or an app. An authorization asks `HasAccess` and looks for a Grant (`LoadAccess`, `FindGrant`, `SaveGrant`: three awaits of `loadExistingGrant`), or goes by the consent prompt (`Prompt`, `Continue`, `Consent`, `SaveConsent`), and ends in a code; `RedeemRead`/`RedeemSave` and `RefreshJudge`/`RefreshConsume`/`RefreshAnswer` are the token endpoint between which rows may change. A family is a Grant with what was issued under it; a refresh token is fresh, burnt (consumed, its successor not arrived) or none. `adm[a]` is a handler of an admin: what it read, the write, then `CutDecide`, `CutFind`, `CutTokens`, `CutGrants` for everybody it will cut off. `late`, `stale` and `cutOff` are histories: a Grant saved when its owner no longer had access, a group's change over a row it had not read, a stop in the middle.

### Telling and Sessions

`Telling` is what `backchannel.ts` promises: an errand that is owed is told or recorded as failed, once, and one of the two happens as long as the process runs. `Sessions` is how: sessions and their mirror rows, `notice[h][s][c]` for each handler, session and app (due, posted, told, failed, slow), logout tokens in `wire` that may arrive late, twice or never, apps that apply one once per `jti`. `ctl[h]` goes through a handler's awaits: `Tell`, `Told`, `Destroy`, `Mark`, `Tokens`. `Promise == INSTANCE Telling WITH ...` maps the notices to the errands; `EveryErrandEnds` is the abstract specification with its fairness.

### Guard

One person, a browser and an app. `counter` is the throttle's row, read and written in two awaits (`CountRead`, `CountWrite`) with `DelayAfter` between; `CodeRead`/`CodeWrite` is `verify` of `totp.ts`. What a proof was for comes after it (`SignedIn`, `SteppedUp`, `PasswordWrite`, ...). `Fresh` is `requireFresh` for a session and for a grant. `Host*` is `set-password` in a shell. `prompt` is the page that holds a click.

### Consumer

The app as the example has it. `pending` is what `beginSignIn` returned, by the cookie of the browser that started; `Callback`, `Exchange`, `Finish` are the callback's awaits; `accounts` may be linked. `cache` has the two key sets, with the cooldown, and `Rotate` the provider's keys. `Hear` is a logout token: verified, not too old, not seen.

### Transfer

`db` is the configuration, `file` a state file. `ExportRead` reads the three parts in any order. `Plan` computes what an import will do (`DecideKinds`) and the writes it takes, as a script; each `Upsert...` is one write of it. `Stop` leaves what is written. `Edit` is the console and the first run, whose own guards are kept. `since` is a history: the file and the database when this file was first started, until anything else writes.

### Operations

The timers (`ScheduleDaily`, armed again in `Over`), runs by hand, the parts of a bundle read one after another, the drill, and `evaluateAlerts`: `StartAlerts` on an interval that does not wait, `Mail`, `Record`. The audit trail is a sequence, and its order stands for the time between two ticks. `listed` is a history: rows that were in some mail.

### Console

Every page is a table of buttons. A button asks in a dialog or not, waits for the page to be free or not, makes it busy or not, is repeated whole, as the bare call or not at all after a proof, says what happened, reloads, leaves. The rest is `shared/load.ts`, `shared/Confirm.tsx`, `shared/StepUp.tsx` and a page's `act` while requests are under way: `Press`, `Go`, `Type`, `Prove`, `Serve`, `Arrive`, `ArriveLoad`, `ArriveProof`, with answers in any order.

## Runs

| Run | Instance | Shows |
|---|---|---|
| SignInRaces | 2 accounts, both with a phone, 1 interaction, 2 requests at once, 6 in all, 1 approval | `CredentialsAreTheirOwn`, `FactorAskedUnlessExcused`, `PhoneApprovedLogin` |
| SignInChanges | 1 account, 2 requests at once, 4 in all, 2 account changes | `DeviceTrustFollowsFactor` |
| KeysRaces | 3 keys, 2 operators, 1 consumer, no `--force`, time 5 | `LiveTokensPublished`, `ConsumersVerify`, `OwnTokensVerify`, `CurrentKeyStays` |
| KeysForced | 3 keys, 1 operator who may pass `--force`, time 3 | `OneCurrentKey` |
| AccountsLife | 2 ids, 2 emails, a passkey and an authenticator, 1 invite, 2 handlers at once, 4 in all | `ClaimedOnce`, `OwnerRemains`, `InviteSpentOnce`, `PurgedOnRequest` |
| AccessChanges | 1 person, an app and the native client, 1 group, 1 role, 1 family, 1 request, 2 admins, 2 changes | `TypeOK`, `RevocationReaches`, `RolesDeclared`, `RefusedRefreshCostsNothing` |
| SessionsEnd | 2 sign-ins, 1 app, 1 browser request, 1 handler, 2 attempts | `TypeOK`, `RevokedMeansGone`, `ToldMeansEnded`, `EndsOnlyWhatWasEnded`, `EveryErrandEnds` (refinement of Telling, with fairness) |
| GuardProofs | a browser and an app, 2 requests at once, 3 in all, 1 change of the password, time 2 | `TypeOK`, `FreshIffProved`, `OldPasswordOut`, `DoneOnce`, `CodeSpentOnce`, `GuessesSpaced` |
| ConsumerApp | 2 browsers, 2 people, 2 sign-ins, 1 logout token, 2 keys, time 4 | `OwnSignIn`, `ConnectedByItself`, `GenuineVerifies` |
| TransferFiles | 2 people, 1 app with 1 role, 1 group, an instance in use or empty, 3 files and its own exports, 2 imports, 2 edits | `TypeOK`, `SettlesAsDescribed`, `PowerNotImported` |
| OperationsNights | a day of 3 ticks, 7 ticks, 2 troubles | `NothingSkipped`, `OverdueNoticed`, `DrillFailsForAReason` |
| ConsolePages | all 14 pages, 2 drafts, 2 clicks, 1 trouble | `DoneIsTrue`, `RegisteredAsPreviewed`, `PageComesBack` (liveness) |

**Why these bounds are enough to be interesting.** Races are between two: two requests, two operators, two handlers, each cut at every await. Mixing up people needs two accounts, one interaction and the six requests that two complete sign-ins on top of each other take. A rotation whose keys interact with the next one needs three keys, and with `Overlap` 2 and both lifetimes 1 the assumption `CacheTTL + TokenTTL <= Overlap` is met with equality, so an off-by-one on either wait is visible; five units of time let two promotions and a retirement happen. Four handlers let someone ask for deletion, be found by a purge and be reactivated under it. One family is one way to have tokens, against two admins' handlers at every await; a second app is there as the audience the native client asks for. In Sessions the second sign-in is the one that must be left alone; one handler is enough because a second one differs from the first only in what it reads, and the browser goes on meanwhile. Two attempts are the first and the last. In Guard three requests are two that race and the guess they change; `baseDelay = maxDelay = 1` makes the second failure meet the cap. Two keys, two people and two browsers are a rotation, a mix-up and a callback opened in the wrong place; the bounds `Calm` and `Young` let the clock run, and keys change, while one sign-in is under way, and two sign-ins overlap while neither moves. A trouble in Operations is a fault at any step, a stop, a run by hand, a write or new recipients, in Console an answer lost, the session ended or the person made a guest: two nights and a bit are a run, its failure and what the next night makes of it. Two clicks are one that is held and one that comes in between.

Every action and every disjunct of every next-state relation fires in these runs. Symmetric sets are those no definition tells apart. `MaxRequests`, `MaxChanges`, `MaxTime`, `MaxTasks`, `MaxTokens`, `MaxStarts`, `MaxKeys`, `MaxPasswords`, `MaxImports`, `MaxEdits`, `MaxExports`, `MaxTrouble`, `MaxClicks` and `MaxTroubles` bound counters in guards, so the instances come to an end and deadlock is not checked. `Slow = {}` in SessionsEnd leaves out apps without a back-channel address, which are recorded and never posted to; `Slow` and `SlowRun` in OperationsNights bound how long a mail and a run take.

**Fairness.** SessionsEnd: weak fairness of a handler's next await and of each delivery, which is what a running process gives: a timer fires, a post is answered or times out. Nothing is assumed of browsers, of the network's tokens or of apps. ConsolePages: weak fairness of the answer to each click, load and proof, since a request to the server ends or fails in the browser; nobody has to click or to prove themselves. The other runs check safety only: a browser may walk away and an operator may stop, and `OverdueNoticed` is stated with the clock, so it needs no fairness.

## Proofs

TLAPS proves the following for any finite or infinite sets of accounts, requests, keys, operators, ids and handlers (the tables of an instance that is imported into are finite), and without the bounds mattering.

**SignIn_proofs**: `TypeOK`, `CredentialsAreTheirOwn`, `FactorAskedUnlessExcused`, `DeviceTrustFollowsFactor`, `PhoneApprovedLogin`. None of these is inductive: a login is recorded from a state that a request computed from a flow that some other request stored. The invariant therefore says of *every* login state, stored in the flow, loaded by a request or about to be written, that its name, its identity and its methods were earned by credentials in `proven` of that interaction and excuses in `excused`. The proof has one lemma per operator of the machine (an earned state and a new proof give an earned state) and one step per action. `PhoneApprovedLogin` has an invariant of its own, `PhoneInv`, beside it: every stored or computed state that claims the phone is backed by an approval of its interaction that was approved and is spent, and such an approval stays so (`ApprovalsGrow`).

**SigningKeys_proofs**: `TypeOK` outright; `LiveTokensPublished`, `ConsumersVerify`, `OwnTokensVerify`, `CurrentKeyStays` under `PromptRestart` (`RestartWindow + TokenTTL <= Overlap`) and the assumption `CacheTTL + TokenTTL <= Overlap` on the constants. Both hypotheses are stated in the theorems, and are the reason for the waits of the code. The invariant says that a replaced key stays published until its last token has expired (`RowsOK`), that the server signs with a key that is current or was replaced less than `RestartWindow` ago (`ServerOK`), that what an operation read is still true enough to write, whatever other operators did meanwhile (`OperationsOK`), and that a cached set holds every key that has ever signed while it may be used (`CachesOK`). `OneCurrentKey` needs neither hypothesis, nor that nobody forces anything, but that there is one operator at a time (`OneOperator`): whoever is about to switch has then read the current key there still is (`Alone`).

**Accounts_proofs**: `TypeOK`, `ClaimedOnce`, `OwnerRemains`, `InviteSpentOnce`, `PurgedOnRequest`. The invariant's heart is that a handler about to change a person has seen somebody who was not the owner, and that nobody becomes the owner while anybody exists; hence no write, however late, falls on the owner. The second half needs `NothingYet`: on an unclaimed instance nothing but claims can be in flight.

**Sessions_proofs**: `TypeOK`, `RevokedMeansGone`, `ToldMeansEnded`, `EndsOnlyWhatWasEnded`, and `Promise!Safety`: every step of `Sessions` is a step of `Telling` or leaves its variables alone. A handler marks, many awaits after it has read the rows, so `Gone` says that each row it has dealt with is gone by then, or was saved again by a request that had read it before. `Heeded` says that an app that has applied a token keeps no session from before it, and that whoever is recorded as told has applied a token about it. `Reasons` says that nobody is told of what nobody ended. `Once`, that a handler has told nobody of what it has yet to come to, is what makes each errand begin once, hence the refinement.

**Access_proofs**: `TypeOK`, `RevocationReaches`, `RolesDeclared`, `RefusedRefreshCostsNothing`. A handler takes access away in one write and tokens back in many awaits after it, while the person goes on authorizing and other handlers write. The invariant says, for every family of tokens whose owner is no longer entitled to it, which handler still has it in hand (`Pursued`): the pair of person and app is ahead on its list, or it is looking for that pair's Grants, or has read this family's id and not yet deleted it. Being suspended and having lost access are followed apart, for a handler that finds access passes the pair by and the person may be suspended all the same. `Asking` has what each request of the person has read and when, `Handling` what each admin's handler is about to write, `Owned` that a family keeps its owner.

**Guard_proofs**: `TypeOK`, `CodeSpentOnce`, `DoneOnce`, `FreshIffProved`, `OldPasswordOut`, `GuessesSpaced`. The throttle is a row that is read, and written much later with what was made of it. `Throttled` says that the row blocks for exactly the delay of its failures from a moment that has passed, and that whoever was let past it saw a row that blocked no more; `Counting` that there are no more failures than requests that are done, since each counts one at most -- a cardinality -- and so the row keeps its type. A delay is a number because 2^n is the number of subsets of n things. Each of the others needs to know who is still to write what (`Codes`, `Clicks`, `Proofs`, `Passwords`): a code on its way to be written was newer than what was read then; a click is with the prompt or with one request and not done yet; what the guard goes by is the last proof given in that session; a session of an old password that is to go has been listed, has yet to be listed, or is among those the host has read.

**Clients_proofs**: of Consumer `OwnSignIn`, `ConnectedByItself`, `GenuineVerifies`; of Console `DoneIsTrue`, `RegisteredAsPreviewed`. The first two from `OInv`: every cookie, URL and callback is where its sign-in set out. The third from what is true of a cached key set: it is complete up to the moment it was fetched, a cooldown ago at most when a token names a key it does not hold, so a key that is published for a cooldown before it signs is found. The invariant of the page says of every request, held click and repeated call which button it is of and that a preset in it has been previewed.

**Host_proofs**: of Transfer `TypeOK`, `PowerNotImported` and `SettlesAsDescribed`, from `TransferAssumption`: the tables are finite, nothing (`None`) is no kind, status, app or set of people, the ids of people and of groups are distinct, files and starting points are of their types, and a person who is there has a kind and a status. For `PowerNotImported`: the decision about kinds is made once, with the owner that was read then, that owner stays whatever the console writes between two rows, and every row of the script that is left to write is one the decision allows. For `TypeOK`, `Typed` adds the form of what is still to be written: each row is one of the file's, or the second half of one whose first half has been written. For `SettlesAsDescribed` the script must hold a write for every row of the file and for nothing else, apps before people before groups (`TodoOK`; the order of a set and the flattening of sequences are characterised by least counterexample, in place of an induction). `Settling` then says that every cell of the instance is as it was before, or as described once nothing ahead in the script is about it, and that a second half puts what is described into what its first half emptied (`OnTheWay`). A row that is only legible because an earlier one was written (a grant after its app and its holder, a membership after its person) finds it there because of the order. An import that was stopped leaves an instance on the way from `before`, of which the file describes the same as of `before`; so the next one, planned over it, ends in the same place. Of Operations `DrillFailsForAReason`, `NothingSkipped`, `OverdueNoticed`. A bundle nobody wrote into holds, after each of its reads, what the database holds (`BackupsOK`). The alert rules keep no state but the trail; `Carried` says that an evaluation under way holds, or has mailed, every failure from its reach up to its mark that is not in a mail yet, and `Watching` that a backup that is due has its alert, or an evaluation on its way to it that began in time (`Coming`). Both need what the trail's order means (`Kept`): a row after an evaluation's mark is no older than the evaluation. `NothingSkipped` also needs that an evaluation is over within a day (`Slow < Day`): its alert would otherwise be recorded for a moment whose rows the next one no longer reads. The code justifies it: an evaluation is a few queries and mails, each of which is sent or given up within minutes (`mail/`), against a day; it is an assumption of the module and evaluated in the run.

**Only model-checked**: `PageComesBack`, and that every errand of Telling ends (the other half of `EveryErrandEnds`): liveness under fairness is out of the prover's reach. That `Min` and `Max` find what they should is proved in Host_proofs from the well-foundedness of the numbers, with a least counterexample in place of an induction.

**Assumed**: the named assumptions of the constants, which TLC evaluates in the runs; that a database statement and a transaction under its lock are atomic (the code's isolation is PostgreSQL's read committed, so a transaction is taken as one step only where it locks, claims by a conditional update, or is a single write); that ids, key ids and tokens are never minted twice; the clock premises of SigningKeys.

## Known disagreements

Where the code does something that a comment, a document or an obvious expectation denies. The properties named here are stated at the end of their modules; TLC finds each violated with the instance given, and no run of the project asks for them.

| Property (module) | Comment | What happens | Instance |
|---|---|---|---|
| `PasskeyIsTheirOwn` (SignIn) | "A passkey belonging to somebody else is not an answer to this challenge" (`security/webauthn.ts`) | A challenge begun before the factor step is bound to nobody; answered at the factor step, it is credited to the account of the flow. | SignInRaces, 5 requests, no change |
| `OneWindowOneSignIn` (SignIn) | "One window, one sign-in" (`interaction/routes.ts`) | Two interactions identified in one break-glass window both complete. | SignInChanges, 2 interactions, 1 change |
| `NoPasswordLoginAfterReset` (SignIn) | "Everything that could let the old holder back in goes at once" (`admin/routes.ts`) | A sign-in whose password was accepted before the reset is recorded after it. | SignInChanges, 5 requests, 1 change, no symmetry |
| `NoDeviceWhileSuspended` (SignIn) | "it is never issued to an account that cannot sign in" (`security/trusted-device.ts`) | A suspension runs to its end between the status read and the insert. | SignInChanges, 5 requests, 1 change |
| `RestartAnnounced` (SigningKeys) | "everything here says so rather than letting an operator believe a rotation finished when it has not" (`oidc/keys-routes.ts`) | A process restarted between generate and promote holds the new key without signing with it; after the promotion nothing asks for the second restart. | KeysRaces, 1 operator |
| `AdminHoldsFactor` (Accounts) | an account "cannot be *made* an admin without a factor, and an admin cannot *remove* their way down to none" (`security/factors.ts`) | A promotion and a removal overlap, each having counted before the other wrote. | AccountsLife, 3 handlers |
| `SuspensionLiftedInConsole` (Accounts) | "a suspension is lifted in the console or not at all" (`admin/state.ts`) | A link minted before a suspension, accepted after it, makes the account active again. | AccountsLife, 3 handlers, no symmetry |
| `RoleRemovalConfirmed` (Access) | removing a role that people hold asks first (`admin/manifest.ts`) | A role that only a group gives does not count as held; it goes without the confirmation, and with it the people's role. | AccessChanges, no symmetry |

Others, met while modelling; those with a line in `PROJECT.json` are hazards there:

- Sign-in: a second `identify` for a known account ends in a 500 (`interaction/routes.ts:471`). The limit of approvals holds only for requests that do not overlap (`interaction/routes.ts:625`). Two uses of one authenticator code whose checks overlap are both accepted, and the older of two overlapping codes may be left as the last used (`security/totp.ts:97`): the model has it as `crossed`.
- Accounts: a break-glass link is found and then destroyed, so two requests may both go on (`setup/recovery.ts:98`). A reset that fails half-way leaves what it had not reached (`admin/routes.ts:326`). An instance that was seeded or imported into before it was claimed has people, and cannot be claimed any more (`setup/first-run.ts:88`).
- Keys: two operators at once may leave two current keys; `KeysRaces` shows that no token suffers.
- Import: it "removes nothing" (`admin/state.ts:292`) yet replaces a group's members, a grant's roles and an app's redirect URIs, and revokes no token. What is applied is planned again and may differ from the preview (`admin/state.ts:91`). Somebody who claims the instance while an import runs may be written over by it (`admin/state.ts:99`); `PowerNotImported` therefore speaks of the owner the import read. From the host or the seed an admin may be made without the audit row that the privilege alert reads (`audit/alerts.ts:10`).
- Alerts: an alert counts as sent although no mail was delivered; one mail takes fifty events. When a bundle is uploaded and the local copy then fails, the run is recorded as failed although the bundle is offsite (`backup/operations.ts:51`). The drill fails, rightly by its own terms, when something was written between a bundle's parts.
- Libraries: a logout token is remembered before the app's own handler has run, so a handler that fails is not run again (`packages/auth-client/src/logout-token.ts:120`). Two tabs of one browser share the example app's pending sign-in. The Python library's keys have a cooldown and no greatest age.
- Console: disabling an app says so while the click is still held (`AppDetail.tsx:430`), which `DoneIsTrue` excepts. A repeated bare call that fails says nothing. Closing the prompt does not stop the proof that is on its way, and the held click then runs (`StepUp.tsx:76`). A late preview of an earlier file may be shown beside the file that is imported (`Transfer.tsx:134`). With several clicks, a preset that is registered has been previewed, but need not be the one on the page. A reload that was asked for earlier and answers later shows what is older.

## Not modelled, and why

- **The sealed admin** (`admin/sealed-admin.ts`, `cli/seal-admin.ts`): a sequence of writes from a shell; what it writes are rows of Accounts and Access, and its hazard is listed.
- **Settings, presets, connection checks, audit queries, overview, well-known document, pages, sign-in screens**: each is a single read or write, or text made from text; no property of theirs takes several steps.
- **Mail, its relay worker, the push relay**: best effort by design. No state follows from whether one arrived; Operations has the time a mail takes.
- **`oidc-provider`, PostgreSQL, Prisma, argon2, WebAuthn verification**: libraries. The models have what the code relies on: an interaction result is consumed once, a code and a refresh token are good once, a conditional update has one winner, a credential is right or wrong.
- **Migrations, wiring, configuration, cryptographic helpers**: they run before anything else does, or keep no state.
- **Parts of modelled components**: database failures inside an evaluation of alerts, local copies of a backup, the filters of the other alert rules, the claims of an identity, the text of a manifest, the signature counter of a passkey, csrf.

## Plan

What is worth doing next, in this order:

1. The phone's read-then-update of an approval as two steps, and an abstract approval (one answer, one use, never after its time).
2. The sealed admin as a sequence of writes that may stop, beside Accounts.
