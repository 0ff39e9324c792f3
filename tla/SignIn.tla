------------------------------- MODULE SignIn -------------------------------
(***************************************************************************)
(* The sign-in interaction: the handlers of interaction/routes.ts over the *)
(* flow rows of interaction/flow-store.ts, run by concurrent requests of   *)
(* one Node process.  A handler loads the flow, awaits the database, and   *)
(* writes a state computed from the flow it loaded: `req` is where each    *)
(* request stands between those awaits.  Beside the requests, the phone    *)
(* answers approvals, the provider resumes a finished interaction, and the *)
(* account handlers of other components change the account meanwhile.      *)
(*                                                                         *)
(* Left out: csrf refusals and throttling (early returns that change none  *)
(* of this state), audit rows, the wording of replies.                     *)
(***************************************************************************)
EXTENDS LoginMachine, Naturals, FiniteSets

CONSTANTS
    Uids,          \* interactions
    Requests,      \* HTTP requests in flight at once
    ApprovalIds,   \* approval rows that may be created
    Phones,        \* accounts with a phone registered for approvals
    MAX_APPROVALS_PER_SIGN_IN,
    NoChallenge,   \* no challenge row for this interaction
    MaxRequests,   \* bound: requests that get past their step check
    MaxChanges     \* bound: account changes by other handlers

ASSUME SignInAssumption ==
    /\ Phones \subseteq Accounts
    /\ NoChallenge \notin Accounts \cup {Nobody}
    /\ MAX_APPROVALS_PER_SIGN_IN \in Nat
    /\ MaxRequests \in Nat
    /\ MaxChanges \in Nat

VARIABLES
    status,      \* account -> "active" or "suspended"
    password,    \* account -> whether it has a password credential
    enrolled,    \* account -> its confirmed factors
    armed,       \* accounts with a break-glass window open
    devices,     \* live trusted-device rows <<account, uid that issued it>>
    cutting,     \* account -> what the handler that is cutting it off does next
    flow,        \* uid -> the stored login state
    challenge,   \* uid -> who the passkey challenge is bound to
    approval,    \* approval id -> its row
    outcome,     \* uid -> the result handed to the provider
    resumed,     \* uids whose interaction the provider has consumed
    req,         \* request -> where it stands
    proven,      \* history: every credential verified, with its interaction
    excused,     \* history: <<uid, account>> identified with no factor to ask
    uses,        \* history: account -> interactions its last window signed in
    served,      \* bound: requests so far
    changes      \* bound: account changes so far

accountVars == <<status, password, enrolled, armed, devices, cutting>>
history == <<proven, excused, uses>>
bounds == <<served, changes>>
vars == <<accountVars, flow, challenge, approval, outcome, resumed, req,
          history, bounds>>

Op == {"identify", "password", "totp", "askPhone", "pollPhone", "passkeyBegin",
       "passkeyFinish", "trust", "abort"}

Proof == [uid : Uids, account : Accounts,
          method : {"pwd"} \cup FactorKind]

Approval == [state : {"unborn", "pending", "approved", "denied", "expired"},
             uid : Uids \cup {Nobody}, account : Accounts \cup {Nobody},
             consumed : BOOLEAN]

Unborn == [state |-> "unborn", uid |-> Nobody, account |-> Nobody, consumed |-> FALSE]

Outcome == [kind : {"none", "login", "denied"},
            account : Accounts \cup {Nobody}, amr : SUBSET AuthMethod]

NoOutcome == [kind |-> "none", account |-> Nobody, amr |-> {}]
Denied == [kind |-> "denied", account |-> Nobody, amr |-> {}]
Login(s) == [kind |-> "login", account |-> s.identity.accountId, amr |-> s.amr]

\* seen is the flow as loaded, next the state to write, recalled the challenge.
Request == [pc : {"idle", "failed", "loaded", "recalled", "save", "create", "finish",
                  "issue", "result", "tidy", "clear", "spend"},
            op : Op \cup {"none"}, uid : Uids \cup {Nobody},
            seen : LoginState, next : LoginState,
            recalled : Accounts \cup {Nobody, NoChallenge}]

Idle == [pc |-> "idle", op |-> "none", uid |-> Nobody, seen |-> Absent,
         next |-> Absent, recalled |-> NoChallenge]

TypeOK ==
    /\ status \in [Accounts -> {"active", "suspended"}]
    /\ password \in [Accounts -> BOOLEAN]
    /\ enrolled \in [Accounts -> SUBSET {"totp", "passkey"}]
    /\ armed \subseteq Accounts
    /\ devices \subseteq Accounts \X Uids
    /\ cutting \in [Accounts -> {"no", "revoke", "revokeThenArm", "arm"}]
    /\ flow \in [Uids -> LoginState]
    /\ challenge \in [Uids -> Accounts \cup {Nobody, NoChallenge}]
    /\ approval \in [ApprovalIds -> Approval]
    /\ outcome \in [Uids -> Outcome]
    /\ resumed \subseteq Uids
    /\ req \in [Requests -> Request]
    /\ proven \subseteq Proof
    /\ excused \subseteq Uids \X Accounts
    /\ uses \in [Accounts -> SUBSET Uids]
    /\ served \in Nat
    /\ changes \in Nat

Init ==
    /\ status = [a \in Accounts |-> "active"]
    /\ password = [a \in Accounts |-> TRUE]
    /\ enrolled \in [Accounts -> SUBSET {"totp", "passkey"}]
    /\ armed = {}
    /\ devices = {}
    /\ cutting = [a \in Accounts |-> "no"]
    /\ flow = [u \in Uids |-> Absent]
    /\ challenge = [u \in Uids |-> NoChallenge]
    /\ approval = [i \in ApprovalIds |-> Unborn]
    /\ outcome = [u \in Uids |-> NoOutcome]
    /\ resumed = {}
    /\ req = [r \in Requests |-> Idle]
    /\ proven = {}
    /\ excused = {}
    /\ uses = [a \in Accounts |-> {}]
    /\ served = 0
    /\ changes = 0

-----------------------------------------------------------------------------
(* Where a request stands. *)

At(r, pc, op) == req[r].pc = pc /\ req[r].op = op

\* The request goes on to pc, with s as the state it will write.
Goto(r, pc, s) == req' = [req EXCEPT ![r].pc = pc, ![r].next = s]

Done(r) == req' = [req EXCEPT ![r] = Idle]

\* An unhandled error: 500, and nothing more is written.
Fail(r) == req' = [req EXCEPT ![r].pc = "failed"]

\* advance() has answered: a complete login is finished, any other is saved.
SaveOrFinish(r, s) == Goto(r, IF isComplete(s) THEN "finish" ELSE "save", s)

Prove(r, a, method) ==
    proven' = proven \cup {[uid |-> req[r].uid, account |-> a, method |-> method]}

\* The step each handler insists on; anything else is answered 409 wrong_step.
InStep(op, s) ==
    /\ op = "password" => s.name = "awaiting_password"
    /\ op \in {"totp", "askPhone", "pollPhone"} => s.name = "awaiting_factor"
    /\ op = "askPhone" => "push" \in s.identity.factors
    /\ op = "trust" => s.name = "awaiting_trusted_device"

-----------------------------------------------------------------------------
(* The handlers. *)

\* context(): the flow is loaded, or minted and saved on first sight.  The
\* provider knows no interaction it has already consumed.
Load(r, op, u) ==
    /\ req[r].pc \in {"idle", "failed"}
    /\ u \notin resumed
    /\ LET s == IF flow[u].name = "absent" THEN start ELSE flow[u]
       IN  /\ flow' = [flow EXCEPT ![u] = s]
           /\ IF InStep(op, s)
                THEN /\ req' = [req EXCEPT ![r] =
                                 [pc |-> "loaded", op |-> op, uid |-> u, seen |-> s,
                                  next |-> Absent, recalled |-> NoChallenge]]
                     /\ served' = served + 1
                ELSE Done(r) /\ UNCHANGED served
    /\ served < MaxRequests
    /\ UNCHANGED <<accountVars, challenge, approval, outcome, resumed, history, changes>>

\* What the server knows of account a, looked up by email; the browser may
\* present a trusted-device cookie of any account, or none.  The handler's four
\* lookups are one read here.
identityOf(a, cookie) ==
    [accountId     |-> a,
     factors       |-> enrolled[a] \cup
                       (IF enrolled[a] # {} /\ a \in Phones THEN {"push"} ELSE {}),
     deviceTrusted |-> cookie /\ \E d \in devices : d[1] = a,
     recovering    |-> a \in armed]

\* POST identify with the email of active account a: advance() throws unless
\* the flow loaded is still awaiting_identifier.
IdentifyKnown(r, a, cookie) ==
    /\ At(r, "loaded", "identify")
    /\ status[a] = "active"
    /\ LET id == identityOf(a, cookie)
       IN  IF canIdentify(req[r].seen)
             THEN /\ Goto(r, "save", identified(id))
                  /\ excused' = IF id.factors = {} \/ id.deviceTrusted
                                  THEN excused \cup {<<req[r].uid, a>>}
                                  ELSE excused
             ELSE Fail(r) /\ UNCHANGED excused
    /\ UNCHANGED <<accountVars, flow, challenge, approval, outcome, resumed,
                   proven, uses, bounds>>

\* An unknown email, or a suspended account: on to the password all the same.
IdentifyUnknown(r) ==
    /\ At(r, "loaded", "identify")
    /\ Goto(r, "save", State("awaiting_password", NoIdentity, {}))
    /\ UNCHANGED <<accountVars, flow, challenge, approval, outcome, resumed, history, bounds>>

\* The right password for the credential stored now.
PasswordAccepted(r) ==
    /\ At(r, "loaded", "password")
    /\ LET a == req[r].seen.identity.accountId
       IN  /\ a # Nobody
           /\ password[a]
           /\ Prove(r, a, "pwd")
           /\ SaveOrFinish(r, passwordVerified(req[r].seen))
    /\ UNCHANGED <<accountVars, flow, challenge, approval, outcome, resumed,
                   excused, uses, bounds>>

\* A code one of the account's confirmed authenticators accepts.
TotpAccepted(r) ==
    /\ At(r, "loaded", "totp")
    /\ LET a == req[r].seen.identity.accountId
       IN  /\ a # Nobody
           /\ "totp" \in enrolled[a]
           /\ Prove(r, a, "totp")
           /\ SaveOrFinish(r, factorVerified(req[r].seen, "totp"))
    /\ UNCHANGED <<accountVars, flow, challenge, approval, outcome, resumed,
                   excused, uses, bounds>>

\* A wrong answer, or a throttled one: 401 or 429 and the flow stays put.
Refused(r) ==
    /\ req[r].pc \in {"loaded", "recalled"}
    /\ req[r].op \in {"password", "totp", "askPhone", "pollPhone", "passkeyFinish"}
    /\ Done(r)
    /\ UNCHANGED <<accountVars, flow, challenge, approval, outcome, resumed, history, bounds>>

\* POST approval: the count is read, then the row is created.
AskPhone(r) ==
    /\ At(r, "loaded", "askPhone")
    /\ Cardinality({i \in ApprovalIds : approval[i].uid = req[r].uid})
         < MAX_APPROVALS_PER_SIGN_IN
    /\ Goto(r, "create", req[r].seen)
    /\ UNCHANGED <<accountVars, flow, challenge, approval, outcome, resumed, history, bounds>>

CreateApproval(r, i) ==
    /\ At(r, "create", "askPhone")
    /\ approval[i] = Unborn
    /\ approval' = [approval EXCEPT ![i] =
                      [state |-> "pending", uid |-> req[r].uid,
                       account |-> req[r].seen.identity.accountId, consumed |-> FALSE]]
    /\ Done(r)
    /\ UNCHANGED <<accountVars, flow, challenge, outcome, resumed, history, bounds>>

\* A mutant: any answered approval is as good as an approved one.
PhoneAnswered(r, i) ==
    /\ At(r, "loaded", "pollPhone")
    /\ approval[i].uid = req[r].uid
    /\ approval[i].state \in {"approved", "denied"}
    /\ ~approval[i].consumed
    /\ approval' = [approval EXCEPT ![i].consumed = TRUE]
    /\ Prove(r, approval[i].account, "push")
    /\ SaveOrFinish(r, factorVerified(req[r].seen, "push"))
    /\ UNCHANGED <<accountVars, flow, challenge, outcome, resumed, excused, uses, bounds>>

\* POST approval/:id: an approved row of this interaction is spent once, and
\* stands for the second factor of whoever the flow loaded is about.
PhoneAccepted(r, i) ==
    /\ At(r, "loaded", "pollPhone")
    /\ approval[i].uid = req[r].uid
    /\ approval[i].state = "approved"
    /\ ~approval[i].consumed
    /\ approval' = [approval EXCEPT ![i].consumed = TRUE]
    /\ Prove(r, approval[i].account, "push")
    /\ SaveOrFinish(r, factorVerified(req[r].seen, "push"))
    /\ UNCHANGED <<accountVars, flow, challenge, outcome, resumed, excused, uses, bounds>>

\* POST passkey/begin: the challenge names the account only at the factor step.
PasskeyBegin(r) ==
    /\ At(r, "loaded", "passkeyBegin")
    /\ challenge' = [challenge EXCEPT ![req[r].uid] =
                       IF req[r].seen.name = "awaiting_factor"
                         THEN req[r].seen.identity.accountId ELSE Nobody]
    /\ Done(r)
    /\ UNCHANGED <<accountVars, flow, approval, outcome, resumed, history, bounds>>

\* finishAuthentication recalls the challenge, and verifies against it later.
PasskeyRecall(r) ==
    /\ At(r, "loaded", "passkeyFinish")
    /\ challenge[req[r].uid] # NoChallenge
    /\ req' = [req EXCEPT ![r].pc = "recalled", ![r].recalled = challenge[req[r].uid]]
    /\ UNCHANGED <<accountVars, flow, challenge, approval, outcome, resumed, history, bounds>>

\* A mutant: outside the factor step, the login is for whoever was identified.
PasskeyAcceptedForFlow(r, b) ==
    /\ At(r, "recalled", "passkeyFinish")
    /\ "passkey" \in enrolled[b]
    /\ req[r].recalled \in {Nobody, b}
    /\ status[b] = "active"
    /\ challenge' = [challenge EXCEPT ![req[r].uid] = NoChallenge]
    /\ Prove(r, b, "passkey")
    /\ SaveOrFinish(r, IF req[r].seen.name = "awaiting_factor"
                         THEN factorVerified(req[r].seen, "passkey")
                         ELSE passkeyAuthenticated(req[r].seen.identity.accountId))
    /\ UNCHANGED <<accountVars, flow, approval, outcome, resumed, excused, uses, bounds>>

\* The passkey of b answers: a factor at the factor step, a whole login else.
PasskeyAccepted(r, b) ==
    /\ At(r, "recalled", "passkeyFinish")
    /\ "passkey" \in enrolled[b]
    /\ req[r].recalled \in {Nobody, b}
    /\ status[b] = "active"
    /\ challenge' = [challenge EXCEPT ![req[r].uid] = NoChallenge]
    /\ Prove(r, b, "passkey")
    /\ SaveOrFinish(r, IF req[r].seen.name = "awaiting_factor"
                         THEN factorVerified(req[r].seen, "passkey")
                         ELSE passkeyAuthenticated(b))
    /\ UNCHANGED <<accountVars, flow, approval, outcome, resumed, excused, uses, bounds>>

\* The passkey of b verified, but b may not sign in: 401.
PasskeySuspended(r, b) ==
    /\ At(r, "recalled", "passkeyFinish")
    /\ "passkey" \in enrolled[b]
    /\ req[r].recalled \in {Nobody, b}
    /\ status[b] # "active"
    /\ challenge' = [challenge EXCEPT ![req[r].uid] = NoChallenge]
    /\ Done(r)
    /\ UNCHANGED <<accountVars, flow, approval, outcome, resumed, history, bounds>>

\* POST trust: either answer completes the login.
AnswerTrust(r, trust) ==
    /\ At(r, "loaded", "trust")
    /\ Goto(r, "finish", trustedDeviceAnswered(req[r].seen, trust))
    /\ UNCHANGED <<accountVars, flow, challenge, approval, outcome, resumed, history, bounds>>

\* The flow row is overwritten whole, whatever it has become since the load.
Save(r) ==
    /\ req[r].pc = "save"
    /\ flow' = [flow EXCEPT ![req[r].uid] = req[r].next]
    /\ Done(r)
    /\ UNCHANGED <<accountVars, challenge, approval, outcome, resumed, history, bounds>>

-----------------------------------------------------------------------------
(* finish(), and the answers that end an interaction. *)

\* The result is handed to the provider, which throws if it no longer has the
\* interaction.
HandOver(r, result, then) ==
    IF req[r].uid \in resumed
      THEN Fail(r) /\ UNCHANGED outcome
      ELSE /\ outcome' = [outcome EXCEPT ![req[r].uid] = result]
           /\ Goto(r, then, req[r].next)

\* denyWithoutGrant: no grant for the app, so access_denied and no login.
FinishDenied(r) ==
    /\ req[r].pc = "finish"
    /\ HandOver(r, Denied, "clear")
    /\ UNCHANGED <<accountVars, flow, challenge, approval, resumed, history, bounds>>

\* Access allowed; a device is remembered only for an account active now.
FinishAllowed(r) ==
    /\ req[r].pc = "finish"
    /\ Goto(r, IF req[r].next.trustDevice
                    /\ status[req[r].next.identity.accountId] = "active"
                 THEN "issue" ELSE "result", req[r].next)
    /\ UNCHANGED <<accountVars, flow, challenge, approval, outcome, resumed, history, bounds>>

\* trustedDevices.issue, after it has read the account's status.
IssueDevice(r) ==
    /\ req[r].pc = "issue"
    /\ devices' = devices \cup {<<req[r].next.identity.accountId, req[r].uid>>}
    /\ Goto(r, "result", req[r].next)
    /\ UNCHANGED <<status, password, enrolled, armed, cutting, flow, challenge,
                   approval, outcome, resumed, history, bounds>>

RecordLogin(r) ==
    /\ req[r].pc = "result"
    /\ HandOver(r, Login(req[r].next), "tidy")
    /\ uses' = IF req[r].uid \notin resumed /\ "recovery" \in req[r].next.amr
                 THEN [uses EXCEPT ![req[r].next.identity.accountId] = @ \cup {req[r].uid}]
                 ELSE uses
    /\ UNCHANGED <<accountVars, flow, challenge, approval, resumed, proven, excused, bounds>>

\* The flow is cleared; a denied interaction ends there.
ClearFlow(r) ==
    /\ req[r].pc \in {"tidy", "clear"}
    /\ flow' = [flow EXCEPT ![req[r].uid] = Absent]
    /\ IF req[r].pc = "tidy" /\ "recovery" \in req[r].next.amr
         THEN Goto(r, "spend", req[r].next)
         ELSE Done(r)
    /\ UNCHANGED <<accountVars, challenge, approval, outcome, resumed, history, bounds>>

\* recovery.spend, after the writes that date the sign-in.
Spend(r) ==
    /\ req[r].pc = "spend"
    /\ armed' = armed \ {req[r].next.identity.accountId}
    /\ Done(r)
    /\ UNCHANGED <<status, password, enrolled, devices, cutting, flow, challenge,
                   approval, outcome, resumed, history, bounds>>

\* POST abort.
Abort(r) ==
    /\ At(r, "loaded", "abort")
    /\ HandOver(r, Denied, "clear")
    /\ UNCHANGED <<accountVars, flow, challenge, approval, resumed, history, bounds>>

-----------------------------------------------------------------------------
(* Around the requests: the phone, the clock, the provider, a restart. *)

\* The phone's answer, or two minutes without one.
SettleApproval(i, verdict) ==
    /\ approval[i].state = "pending"
    /\ approval' = [approval EXCEPT ![i].state = verdict]
    /\ UNCHANGED <<accountVars, flow, challenge, outcome, resumed, req, history, bounds>>

\* The browser follows the redirect: the provider consumes the interaction.
Resume(u) ==
    /\ outcome[u].kind # "none"
    /\ u \notin resumed
    /\ resumed' = resumed \cup {u}
    /\ UNCHANGED <<accountVars, flow, challenge, approval, outcome, req, history, bounds>>

\* The process stops: every request dies where it stands, every row stays.
Crash ==
    /\ \E r \in Requests : req[r].pc \notin {"idle", "failed"}
    /\ req' = [r \in Requests |-> Idle]
    /\ UNCHANGED <<accountVars, flow, challenge, approval, outcome, resumed, history, bounds>>

-----------------------------------------------------------------------------
(* The account, changed by the handlers of other components.  A handler that
   cuts an account off changes it first, and ends its trusted devices after. *)

Change == changes < MaxChanges /\ changes' = changes + 1

OthersUnchanged ==
    UNCHANGED <<flow, challenge, approval, outcome, resumed, req, proven, excused, served>>

Suspend(a) ==
    /\ Change
    /\ status[a] = "active"
    /\ cutting[a] = "no"
    /\ status' = [status EXCEPT ![a] = "suspended"]
    /\ cutting' = [cutting EXCEPT ![a] = "revoke"]
    /\ OthersUnchanged /\ UNCHANGED <<password, enrolled, armed, devices, uses>>

Reactivate(a) ==
    /\ Change
    /\ status[a] = "suspended"
    /\ status' = [status EXCEPT ![a] = "active"]
    /\ OthersUnchanged /\ UNCHANGED <<password, enrolled, armed, devices, cutting, uses>>

\* An admin reset: every credential goes in one transaction.
Reset(a) ==
    /\ Change
    /\ cutting[a] = "no"
    /\ password' = [password EXCEPT ![a] = FALSE]
    /\ enrolled' = [enrolled EXCEPT ![a] = {}]
    /\ cutting' = [cutting EXCEPT ![a] = "revoke"]
    /\ OthersUnchanged /\ UNCHANGED <<status, armed, devices, uses>>

\* A new password, from the account area or an accepted invite.
SetPassword(a) ==
    /\ Change
    /\ password' = [password EXCEPT ![a] = TRUE]
    /\ OthersUnchanged /\ UNCHANGED <<status, enrolled, armed, devices, cutting, uses>>

ChangeFactor(a, f) ==
    /\ Change
    /\ enrolled' = [enrolled EXCEPT ![a] = IF f \in @ THEN @ \ {f} ELSE @ \cup {f}]
    /\ OthersUnchanged /\ UNCHANGED <<status, password, armed, devices, cutting, uses>>

\* The break-glass link is opened: factors go, then devices, then it arms.
OpenLink(a) ==
    /\ Change
    /\ status[a] = "active"
    /\ cutting[a] = "no"
    /\ enrolled' = [enrolled EXCEPT ![a] = {}]
    /\ cutting' = [cutting EXCEPT ![a] = "revokeThenArm"]
    /\ OthersUnchanged /\ UNCHANGED <<status, password, armed, devices, uses>>

RevokeDevices(a) ==
    /\ cutting[a] \in {"revoke", "revokeThenArm"}
    /\ devices' = {d \in devices : d[1] # a}
    /\ cutting' = [cutting EXCEPT ![a] = IF @ = "revoke" THEN "no" ELSE "arm"]
    /\ OthersUnchanged /\ UNCHANGED <<status, password, enrolled, armed, uses, changes>>

Arm(a) ==
    /\ cutting[a] = "arm"
    /\ armed' = armed \cup {a}
    /\ uses' = [uses EXCEPT ![a] = {}]
    /\ cutting' = [cutting EXCEPT ![a] = "no"]
    /\ OthersUnchanged /\ UNCHANGED <<status, password, enrolled, devices, changes>>

\* The window's minutes pass.
Disarm(a) ==
    /\ a \in armed
    /\ armed' = armed \ {a}
    /\ OthersUnchanged /\ UNCHANGED <<status, password, enrolled, devices, cutting, uses, changes>>

-----------------------------------------------------------------------------
Handler(r) ==
    \/ \E op \in Op, u \in Uids : Load(r, op, u)
    \/ \E a \in Accounts, cookie \in BOOLEAN : IdentifyKnown(r, a, cookie)
    \/ IdentifyUnknown(r)
    \/ PasswordAccepted(r)
    \/ TotpAccepted(r)
    \/ Refused(r)
    \/ AskPhone(r)
    \/ \E i \in ApprovalIds : CreateApproval(r, i) \/ PhoneAccepted(r, i)
    \/ PasskeyBegin(r)
    \/ PasskeyRecall(r)
    \/ \E b \in Accounts : PasskeyAccepted(r, b) \/ PasskeySuspended(r, b)
    \/ \E trust \in BOOLEAN : AnswerTrust(r, trust)
    \/ Save(r)
    \/ FinishDenied(r)
    \/ FinishAllowed(r)
    \/ IssueDevice(r)
    \/ RecordLogin(r)
    \/ ClearFlow(r)
    \/ Spend(r)
    \/ Abort(r)

AccountChange(a) ==
    \/ Suspend(a)
    \/ Reactivate(a)
    \/ Reset(a)
    \/ SetPassword(a)
    \/ \E f \in {"totp", "passkey"} : ChangeFactor(a, f)
    \/ OpenLink(a)
    \/ RevokeDevices(a)
    \/ Arm(a)
    \/ Disarm(a)

Next ==
    \/ \E r \in Requests : Handler(r)
    \/ \E i \in ApprovalIds, verdict \in {"approved", "denied", "expired"} :
         SettleApproval(i, verdict)
    \/ \E u \in Uids : Resume(u)
    \/ Crash
    \/ \E a \in Accounts : AccountChange(a)

Spec == Init /\ [][Next]_vars

-----------------------------------------------------------------------------
(* Properties. *)

Proved(u, a, method) ==
    \E p \in proven : p.uid = u /\ p.account = a /\ p.method = method

\* Nobody is signed in on somebody else's credentials: the account a login
\* names had its password verified in that very interaction, or signed in with
\* a passkey of its own; and a login that claims a code had one from that
\* account.  Overlapping requests that save stale flows must not mix people up
\* (routes.ts, machine.ts).
CredentialsAreTheirOwn ==
    \A u \in Uids :
        outcome[u].kind = "login" =>
            LET a == outcome[u].account  amr == outcome[u].amr
            IN  /\ a \in Accounts
                /\ "pwd" \in amr => Proved(u, a, "pwd")
                /\ "pwd" \notin amr => amr = {"hwk"} /\ Proved(u, a, "passkey")
                /\ "otp" \in amr => Proved(u, a, "totp")

\* A login on the password alone was let off the factor for a reason: in that
\* interaction the account was seen with no factor enrolled, or with a trusted
\* device of its own.  No order of steps skips awaiting_factor (machine.ts).
FactorAskedUnlessExcused ==
    \A u \in Uids :
        /\ outcome[u].kind = "login"
        /\ outcome[u].amr \cap {"otp", "hwk", "pop"} = {}
        => <<u, outcome[u].account>> \in excused

\* A browser is trusted only after a second factor: whoever holds a device row
\* gave a password and somebody's factor in the interaction that issued it
\* (trusted-device.ts: "After a second factor has been answered").
DeviceTrustFollowsFactor ==
    \A d \in devices :
        /\ Proved(d[2], d[1], "pwd")
        /\ \E p \in proven : p.uid = d[2] /\ p.method \in FactorKind

\* A login that claims the phone spent an approval of that interaction which the
\* phone had approved: none denied, unanswered or expired passes (approvals.ts).
PhoneApprovedLogin ==
    \A u \in Uids :
        outcome[u].kind = "login" /\ "pop" \in outcome[u].amr
            => \E i \in ApprovalIds : /\ approval[i].uid = u
                                      /\ approval[i].state = "approved"
                                      /\ approval[i].consumed

-----------------------------------------------------------------------------
(* What comments promise and the code does not keep: TLC finds each of     *)
(* these violated (README, Known disagreements), and no run asks for them. *)

\* "A passkey belonging to somebody else is not an answer to this challenge"
\* (webauthn.ts): a login that claims a passkey used one of that account.
PasskeyIsTheirOwn ==
    \A u \in Uids :
        outcome[u].kind = "login" /\ "hwk" \in outcome[u].amr
            => Proved(u, outcome[u].account, "passkey")

\* "One window, one sign-in" (routes.ts): a break-glass window completes at most
\* one interaction.
OneWindowOneSignIn == \A a \in Accounts : \A u, v \in uses[a] : u = v

\* A reset: "everything that could let the old holder back in goes at once"
\* (admin/routes.ts).  No login by password is recorded for an account while it
\* has no password, however far its sign-in had come when the reset struck.
NoPasswordLoginAfterReset ==
    [][\A u \in Uids :
         (outcome'[u] # outcome[u] /\ "pwd" \in outcome'[u].amr)
            => password[outcome'[u].account]]_vars

\* "Never issued to an account that cannot sign in" (trusted-device.ts): once a
\* suspension has run to its end, the account has no live trusted device.
NoDeviceWhileSuspended ==
    \A a \in Accounts :
        status[a] = "suspended" /\ cutting[a] = "no"
            => \A d \in devices : d[1] # a
=============================================================================
