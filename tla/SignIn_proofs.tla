---------------------------- MODULE SignIn_proofs ----------------------------
(***************************************************************************)
(* Proofs about SignIn, for any accounts, interactions, requests and       *)
(* bounds: its type invariant, and that every login it records was earned. *)
(***************************************************************************)
EXTENDS SignIn, TLAPS

-----------------------------------------------------------------------------
(* The login machine returns login states. *)

\* State builds a login state of the type (machine.ts, LoginState).
LEMMA StateType ==
    ASSUME NEW name \in StateName \cup {"absent"}, NEW id \in Identity,
           NEW amr \in SUBSET AuthMethod
    PROVE  State(name, id, amr) \in LoginState
BY DEF State, LoginState

\* The identity of nobody is an identity.
LEMMA NoIdentityType == NoIdentity \in Identity
BY DEF NoIdentity, Identity

\* The state of a missing row and the state it is minted as are login states.
LEMMA StartType == Absent \in LoginState /\ start \in LoginState
BY StateType, NoIdentityType DEF Absent, start, StateName

\* afterCredential answers a login state, whatever methods came before.
LEMMA AfterCredentialType ==
    ASSUME NEW id \in Identity, NEW amr \in SUBSET AuthMethod, NEW used \in BOOLEAN
    PROVE  afterCredential(id, amr, used) \in LoginState
<1> DEFINE all == amr \cup (IF id.recovering THEN {"recovery"} ELSE {})
<1>1. all \in SUBSET AuthMethod
  BY DEF AuthMethod
<1>2. /\ State("awaiting_factor", id, all) \in LoginState
      /\ State("awaiting_trusted_device", id, all) \in LoginState
      /\ State("complete", id, all) \in LoginState
  BY <1>1, StateType DEF StateName
<1> QED
  BY <1>2 DEF afterCredential

\* So do the credential events of advance().
LEMMA AdvanceType ==
    ASSUME NEW s \in LoginState
    PROVE  /\ passwordVerified(s) \in LoginState
           /\ \A m \in FactorKind : factorVerified(s, m) \in LoginState
           /\ \A trust \in BOOLEAN : trustedDeviceAnswered(s, trust) \in LoginState
<1>1. s.identity \in Identity /\ s.amr \in SUBSET AuthMethod
  BY DEF LoginState
<1>2. passwordVerified(s) \in LoginState
  BY <1>1, AfterCredentialType DEF passwordVerified, AuthMethod
<1>3. ASSUME NEW m \in FactorKind PROVE factorVerified(s, m) \in LoginState
  <2>1. AMR_FOR_FACTOR[m] \in AuthMethod
    BY DEF AMR_FOR_FACTOR, FactorKind, AuthMethod
  <2> QED
    BY <1>1, <2>1, AfterCredentialType DEF factorVerified
<1>4. ASSUME NEW trust \in BOOLEAN PROVE trustedDeviceAnswered(s, trust) \in LoginState
  BY DEF trustedDeviceAnswered, LoginState, StateName
<1> QED
  BY <1>2, <1>3, <1>4

\* So do the events that name an account.
LEMMA IdentifyType ==
    /\ \A id \in Identity : identified(id) \in LoginState
    /\ \A a \in Accounts : passkeyAuthenticated(a) \in LoginState
<1>1. ASSUME NEW a \in Accounts
      PROVE  [NoIdentity EXCEPT !.accountId = a] \in Identity
  BY DEF NoIdentity, Identity
<1> QED
  BY <1>1, StateType DEF identified, passkeyAuthenticated, StateName, AuthMethod

-----------------------------------------------------------------------------
(* The inductive invariant. *)

SecondFactors == {"otp", "hwk", "pop"}

ProofIn(P, u, a, method) ==
    \E p \in P : p.uid = u /\ p.account = a /\ p.method = method

FactorIn(P, u) == \E p \in P : p.uid = u /\ p.method \in FactorKind

\* What a login state of interaction u says has happened, given the credentials
\* P verified and the identifications X excused so far.
StateOK(u, s, P, X) ==
    LET a == s.identity.accountId
    IN  /\ s.name = "awaiting_password" /\ a \in Accounts
             /\ (s.identity.factors = {} \/ s.identity.deviceTrusted)
           => <<u, a>> \in X
        /\ s.name \in {"awaiting_factor", "awaiting_trusted_device", "complete"}
           => /\ a \in Accounts
              /\ "pwd" \in s.amr => ProofIn(P, u, a, "pwd")
              /\ "pwd" \notin s.amr => /\ s.name = "complete" /\ ~s.trustDevice
                                       /\ s.amr = {"hwk"}
                                       /\ ProofIn(P, u, a, "passkey")
              /\ "otp" \in s.amr => ProofIn(P, u, a, "totp")
              /\ s.name # "awaiting_factor" /\ s.amr \cap SecondFactors = {}
                   => <<u, a>> \in X
        /\ s.name = "awaiting_trusted_device" \/ s.trustDevice
           => s.name \in {"awaiting_trusted_device", "complete"} /\ FactorIn(P, u)

FlowOK == \A u \in Uids : StateOK(u, flow[u], proven, excused)

RequestOK(q, P, X) ==
    /\ q.pc \notin {"idle", "failed"} => q.uid \in Uids /\ q.op \in Op
    /\ q.pc \in {"loaded", "create"} => InStep(q.op, q.seen)
    /\ q.pc = "create" => q.op = "askPhone"
    /\ StateOK(q.uid, q.seen, P, X)
    /\ StateOK(q.uid, q.next, P, X)
    /\ q.pc \in {"finish", "issue", "result"} => q.next.name = "complete"
    /\ q.pc = "issue" => q.next.trustDevice

RequestsOK == \A r \in Requests : RequestOK(req[r], proven, excused)

ApprovalsOK ==
    \A i \in ApprovalIds : approval[i].state # "unborn"
                               => approval[i].uid \in Uids /\ approval[i].account \in Accounts

Earned == CredentialsAreTheirOwn /\ FactorAskedUnlessExcused /\ DeviceTrustFollowsFactor

IInv == TypeOK /\ FlowOK /\ RequestsOK /\ ApprovalsOK /\ Earned

\* The inductive invariant holds when the process first starts.
THEOREM InitIInv == Init => IInv
<1> SUFFICES ASSUME Init PROVE IInv
  OBVIOUS
<1>1. Idle \in Request /\ Unborn \in Approval /\ NoOutcome \in Outcome
  BY StartType DEF Idle, Request, Unborn, Approval, NoOutcome, Outcome
<1>2. TypeOK
  BY <1>1, StartType DEF Init, TypeOK
<1>3. FlowOK /\ RequestsOK
  BY DEF Init, FlowOK, RequestsOK, RequestOK, StateOK, Absent, State, NoIdentity, Idle
<1>4. ApprovalsOK /\ Earned
  BY DEF Init, ApprovalsOK, Unborn, Earned, CredentialsAreTheirOwn,
         FactorAskedUnlessExcused, DeviceTrustFollowsFactor, NoOutcome
<1> QED
  BY <1>2, <1>3, <1>4 DEF IInv

\* What a login state says stays true as more is proved and excused.
LEMMA StateKept ==
    ASSUME NEW u, NEW s, NEW P, NEW X, NEW Q, NEW Y, P \subseteq Q, X \subseteq Y,
           StateOK(u, s, P, X)
    PROVE  StateOK(u, s, Q, Y)
BY DEF StateOK, ProofIn, FactorIn

\* A step that adds to the history, and leaves the flows, the requests but one,
\* the approvals and the outcomes alone, has only that request to answer for.
LEMMA OneRequest ==
    ASSUME IInv, NEW r \in Requests, NEW q \in Request,
           proven \subseteq proven', excused \subseteq excused',
           req' = [req EXCEPT ![r] = q], RequestOK(q, proven', excused')
    PROVE  req' \in [Requests -> Request] /\ RequestsOK'
<1>1. req' \in [Requests -> Request]
  BY DEF IInv, TypeOK
<1>2. ASSUME NEW x \in Requests PROVE RequestOK(req'[x], proven', excused')
  <2>1. CASE x = r
    BY <2>1 DEF IInv, TypeOK
  <2>2. CASE x # r
    <3>1. req'[x] = req[x] /\ RequestOK(req[x], proven, excused)
      BY <2>2 DEF IInv, TypeOK, RequestsOK
    <3> QED
      BY <3>1, StateKept DEF RequestOK
  <2> QED
    BY <2>1, <2>2
<1> QED
  BY <1>1, <1>2 DEF RequestsOK

\* The ways a handler moves its request on.
Active(r) == req[r].pc \notin {"idle", "failed"}

\* A request that goes on with a state that is true of its interaction.
LEMMA GotoStep ==
    ASSUME IInv, NEW r \in Requests, NEW s \in LoginState, Active(r),
           NEW pc \in {"save", "create", "finish", "issue", "result", "tidy", "clear",
                      "spend"},
           proven \subseteq proven', excused \subseteq excused', Goto(r, pc, s),
           StateOK(req[r].uid, s, proven', excused'),
           pc = "create" => req[r].op = "askPhone" /\ InStep(req[r].op, req[r].seen),
           pc \in {"finish", "issue", "result"} => s.name = "complete",
           pc = "issue" => s.trustDevice
    PROVE  req' \in [Requests -> Request] /\ RequestsOK'
<1> DEFINE q == [req[r] EXCEPT !.pc = pc, !.next = s]
<1>1. req[r] \in Request
  BY DEF IInv, TypeOK
<1>2. q \in Request
  BY <1>1 DEF Request
<1>3. q.pc = pc /\ q.next = s /\ q.uid = req[r].uid /\ q.op = req[r].op /\ q.seen = req[r].seen
  BY <1>1 DEF Request
<1>4. RequestOK(req[r], proven, excused)
  BY DEF IInv, RequestsOK
<1>5. StateOK(req[r].uid, req[r].seen, proven', excused')
  BY <1>4, StateKept DEF RequestOK
<1>6. RequestOK(q, proven', excused')
  BY <1>3, <1>4, <1>5 DEF RequestOK, Active
<1>7. req' = [req EXCEPT ![r] = q]
  BY DEF Goto, IInv, TypeOK
<1> QED
  BY <1>2, <1>6, <1>7, OneRequest

\* A request that has been answered.
LEMMA DoneStep ==
    ASSUME IInv, NEW r \in Requests, Done(r),
           proven \subseteq proven', excused \subseteq excused'
    PROVE  req' \in [Requests -> Request] /\ RequestsOK'
<1>1. Idle \in Request
  BY StartType DEF Idle, Request
<1>2. RequestOK(Idle, proven', excused')
  BY DEF RequestOK, Idle, StateOK, Absent, State, NoIdentity
<1> QED
  BY <1>1, <1>2, OneRequest DEF Done

\* A request that threw.
LEMMA FailStep ==
    ASSUME IInv, NEW r \in Requests, Fail(r), proven' = proven, excused' = excused
    PROVE  req' \in [Requests -> Request] /\ RequestsOK'
<1> DEFINE q == [req[r] EXCEPT !.pc = "failed"]
<1>1. req[r] \in Request /\ RequestOK(req[r], proven, excused)
  BY DEF IInv, TypeOK, RequestsOK
<1>2. q \in Request
  BY <1>1 DEF Request
<1>3. q.pc = "failed" /\ q.next = req[r].next /\ q.uid = req[r].uid /\ q.seen = req[r].seen
  BY <1>1 DEF Request
<1>4. RequestOK(q, proven', excused')
  BY <1>1, <1>3 DEF RequestOK
<1>5. req' = [req EXCEPT ![r] = q]
  BY DEF Fail, IInv, TypeOK
<1> QED
  BY <1>2, <1>4, <1>5, OneRequest

\* A request whose next state advance() has computed.
LEMMA SaveOrFinishStep ==
    ASSUME IInv, NEW r \in Requests, NEW s \in LoginState, Active(r),
           proven \subseteq proven', excused \subseteq excused', SaveOrFinish(r, s),
           StateOK(req[r].uid, s, proven', excused')
    PROVE  req' \in [Requests -> Request] /\ RequestsOK'
<1>1. CASE isComplete(s)
  BY <1>1, GotoStep DEF SaveOrFinish, isComplete
<1>2. CASE ~isComplete(s)
  BY <1>2, GotoStep DEF SaveOrFinish, isComplete
<1> QED
  BY <1>1, <1>2

\* What else a step keeps when the state it concerns is not touched.
LEMMA Kept ==
    ASSUME IInv, proven \subseteq proven', excused \subseteq excused'
    PROVE  /\ flow' = flow => FlowOK'
           /\ approval' = approval => ApprovalsOK'
           /\ outcome' = outcome => CredentialsAreTheirOwn' /\ FactorAskedUnlessExcused'
           /\ devices' \subseteq devices => DeviceTrustFollowsFactor'
<1>1. flow' = flow => FlowOK'
  BY StateKept DEF IInv, FlowOK
<1>2. approval' = approval => ApprovalsOK'
  BY DEF IInv, ApprovalsOK
<1>3. outcome' = outcome => CredentialsAreTheirOwn'
  BY DEF IInv, Earned, CredentialsAreTheirOwn, Proved
<1>4. outcome' = outcome => FactorAskedUnlessExcused'
  BY DEF IInv, Earned, FactorAskedUnlessExcused
<1>5. devices' \subseteq devices => DeviceTrustFollowsFactor'
  BY DEF IInv, Earned, DeviceTrustFollowsFactor, Proved
<1> QED
  BY <1>1, <1>2, <1>3, <1>4, <1>5

\* Verifying a credential records it for the interaction.
LEMMA ProveStep ==
    ASSUME IInv, NEW r \in Requests, NEW a \in Accounts, NEW m \in {"pwd"} \cup FactorKind,
           Active(r), Prove(r, a, m)
    PROVE  /\ proven' \subseteq Proof /\ proven \subseteq proven'
           /\ ProofIn(proven', req[r].uid, a, m)
<1> DEFINE p == [uid |-> req[r].uid, account |-> a, method |-> m]
<1>1. req[r].uid \in Uids
  BY DEF IInv, RequestsOK, RequestOK, Active
<1>2. p \in Proof
  BY <1>1 DEF Proof
<1> QED
  BY <1>2 DEF Prove, ProofIn, IInv, TypeOK

-----------------------------------------------------------------------------
(* The states the handlers compute stay true of their interaction. *)

\* After a password: the factor is asked for unless it was excused.
LEMMA PasswordVerifiedOK ==
    ASSUME NEW u, NEW P, NEW X, NEW s \in LoginState, StateOK(u, s, P, X),
           s.name = "awaiting_password", s.identity.accountId \in Accounts,
           ProofIn(P, u, s.identity.accountId, "pwd")
    PROVE  StateOK(u, passwordVerified(s), P, X)
<1>1. s.identity.recovering \in BOOLEAN /\ s.identity.deviceTrusted \in BOOLEAN
  BY DEF LoginState, Identity
<1>2. passwordVerified(s).name
         = IF s.identity.factors # {} /\ ~s.identity.deviceTrusted
             THEN "awaiting_factor" ELSE "complete"
  BY DEF passwordVerified, afterCredential, State
<1>3. /\ passwordVerified(s).identity = s.identity
      /\ passwordVerified(s).trustDevice = FALSE
      /\ "pwd" \in passwordVerified(s).amr /\ "otp" \notin passwordVerified(s).amr
  BY DEF passwordVerified, afterCredential, State
<1> QED
  BY <1>1, <1>2, <1>3 DEF StateOK

\* After a factor: the browser may be offered trust, and a code was a code.
LEMMA FactorVerifiedOK ==
    ASSUME NEW u, NEW P, NEW X, NEW s \in LoginState, StateOK(u, s, P, X),
           s.name = "awaiting_factor", NEW m \in FactorKind, FactorIn(P, u),
           m = "totp" => ProofIn(P, u, s.identity.accountId, "totp")
    PROVE  StateOK(u, factorVerified(s, m), P, X)
<1> DEFINE t == factorVerified(s, m)
<1>1. t.name \in {"awaiting_trusted_device", "complete"}
  BY DEF factorVerified, afterCredential, State
<1>2. t.identity = s.identity /\ t.trustDevice = FALSE
  BY DEF factorVerified, afterCredential, State
<1>3. t.amr = s.amr \cup {AMR_FOR_FACTOR[m]}
              \cup (IF s.identity.recovering THEN {"recovery"} ELSE {})
  BY DEF factorVerified, afterCredential, State
<1>4. AMR_FOR_FACTOR[m] \in SecondFactors /\ (AMR_FOR_FACTOR[m] = "otp" => m = "totp")
  BY DEF AMR_FOR_FACTOR, FactorKind, SecondFactors
<1>5. "pwd" \in s.amr
  BY DEF StateOK
<1>6. "pwd" \in t.amr /\ t.amr \cap SecondFactors # {}
  BY <1>3, <1>4, <1>5
<1>7. "otp" \in t.amr => ProofIn(P, u, s.identity.accountId, "totp")
  BY <1>3, <1>4 DEF StateOK
<1> QED
  BY <1>1, <1>2, <1>5, <1>6, <1>7 DEF StateOK

\* The states that say nothing, and the one a passkey sign-in completes with.
LEMMA FreshStateOK ==
    /\ \A u, P, X : StateOK(u, Absent, P, X) /\ StateOK(u, start, P, X)
    /\ \A u, P, X : StateOK(u, State("awaiting_password", NoIdentity, {}), P, X)
    /\ \A u, P, X, a : a \in Accounts /\ ProofIn(P, u, a, "passkey")
                        => StateOK(u, passkeyAuthenticated(a), P, X)
<1>1. \A u, P, X : StateOK(u, Absent, P, X) /\ StateOK(u, start, P, X)
  BY DEF StateOK, Absent, start, State, NoIdentity
<1>2. \A u, P, X : StateOK(u, State("awaiting_password", NoIdentity, {}), P, X)
  BY NobodyAssumption DEF StateOK, State, NoIdentity
<1>3. ASSUME NEW u, NEW P, NEW X, NEW a \in Accounts, ProofIn(P, u, a, "passkey")
      PROVE  StateOK(u, passkeyAuthenticated(a), P, X)
  <2>1. /\ passkeyAuthenticated(a).name = "complete"
        /\ passkeyAuthenticated(a).identity.accountId = a
        /\ passkeyAuthenticated(a).amr = {"hwk"}
        /\ passkeyAuthenticated(a).trustDevice = FALSE
    BY DEF passkeyAuthenticated, State, NoIdentity
  <2> QED
    BY <1>3, <2>1 DEF StateOK, SecondFactors
<1> QED
  BY <1>1, <1>2, <1>3

-----------------------------------------------------------------------------
(* One step per handler. *)

\* context() loads a flow that is true of its interaction.
LEMMA LoadStep ==
    ASSUME IInv, NEW r \in Requests, NEW op \in Op, NEW u \in Uids, Load(r, op, u)
    PROVE  IInv'
<1> DEFINE s == IF flow[u].name = "absent" THEN start ELSE flow[u]
           q == [pc |-> "loaded", op |-> op, uid |-> u, seen |-> s,
                 next |-> Absent, recalled |-> NoChallenge]
<1>1. s \in LoginState /\ StateOK(u, s, proven, excused)
  BY StartType, FreshStateOK DEF IInv, TypeOK, FlowOK
<1>2. flow' = [flow EXCEPT ![u] = s] /\ proven' = proven /\ excused' = excused
  BY DEF Load, history
<1>3. flow' \in [Uids -> LoginState] /\ FlowOK'
  BY <1>1, <1>2 DEF IInv, TypeOK, FlowOK
<1>4. req' \in [Requests -> Request] /\ RequestsOK'
  <2>1. CASE InStep(op, s)
    <3>1. req' = [req EXCEPT ![r] = q]
      BY <2>1 DEF Load
    <3>2. q \in Request
      BY <1>1, StartType DEF Request
    <3>3. RequestOK(q, proven', excused')
      BY <1>1, <1>2, <2>1, FreshStateOK DEF RequestOK
    <3> QED
      BY <1>2, <3>1, <3>2, <3>3, OneRequest
  <2>2. CASE ~InStep(op, s)
    BY <1>2, <2>2, DoneStep DEF Load
  <2> QED
    BY <2>1, <2>2
<1>5. served' \in Nat
  BY DEF Load, IInv, TypeOK
<1>6. ApprovalsOK' /\ Earned'
  BY <1>2, Kept DEF Load, accountVars, Earned
<1>7. TypeOK'
  BY <1>2, <1>3, <1>4, <1>5 DEF Load, IInv, TypeOK, accountVars, history
<1> QED
  BY <1>3, <1>4, <1>6, <1>7 DEF IInv

\* A step that only adds to the history and moves requests on.
LEMMA HistoryStep ==
    ASSUME IInv, proven \subseteq proven', proven' \subseteq Proof,
           excused \subseteq excused', excused' \subseteq Uids \X Accounts,
           req' \in [Requests -> Request], RequestsOK',
           UNCHANGED <<accountVars, flow, challenge, approval, outcome, resumed, uses, bounds>>
    PROVE  IInv'
<1>1. TypeOK'
  BY DEF IInv, TypeOK, accountVars, bounds
<1>2. FlowOK' /\ ApprovalsOK' /\ Earned'
  BY Kept DEF accountVars, Earned
<1> QED
  BY <1>1, <1>2 DEF IInv

\* POST identify.
LEMMA IdentifyStep ==
    ASSUME IInv, NEW r \in Requests,
           \/ \E a \in Accounts, cookie \in BOOLEAN : IdentifyKnown(r, a, cookie)
           \/ IdentifyUnknown(r)
    PROVE  IInv'
<1>1. ASSUME NEW a \in Accounts, NEW cookie \in BOOLEAN, IdentifyKnown(r, a, cookie)
      PROVE  IInv'
  <2> DEFINE id == identityOf(a, cookie)
  <2>1. id \in Identity
    BY DEF identityOf, Identity, FactorKind, IInv, TypeOK
  <2>2. Active(r) /\ req[r].uid \in Uids
    BY <1>1 DEF IdentifyKnown, At, Active, IInv, RequestsOK, RequestOK
  <2>3. excused \subseteq excused' /\ excused' \subseteq Uids \X Accounts
    BY <1>1, <2>2 DEF IdentifyKnown, IInv, TypeOK
  <2>4. proven' = proven
    BY <1>1 DEF IdentifyKnown
  <2>5. req' \in [Requests -> Request] /\ RequestsOK'
    <3>1. CASE canIdentify(req[r].seen)
      <4>1. identified(id) \in LoginState
        BY <2>1, IdentifyType
      <4>2. /\ identified(id).name = "awaiting_password"
            /\ identified(id).identity = id /\ identified(id).trustDevice = FALSE
        BY DEF identified, State
      <4>3. id.accountId = a
        BY DEF identityOf
      <4>4. id.factors = {} \/ id.deviceTrusted => <<req[r].uid, a>> \in excused'
        BY <1>1, <3>1 DEF IdentifyKnown
      <4>5. StateOK(req[r].uid, identified(id), proven', excused')
        BY <4>2, <4>3, <4>4 DEF StateOK
      <4>6. Goto(r, "save", identified(id))
        BY <1>1, <3>1 DEF IdentifyKnown
      <4> QED
        BY <2>2, <2>3, <2>4, <4>1, <4>5, <4>6, GotoStep
    <3>2. CASE ~canIdentify(req[r].seen)
      BY <1>1, <2>4, <3>2, FailStep DEF IdentifyKnown
    <3> QED
      BY <3>1, <3>2
  <2> QED
    BY <1>1, <2>3, <2>4, <2>5, HistoryStep DEF IdentifyKnown, IInv, TypeOK
<1>2. ASSUME IdentifyUnknown(r) PROVE IInv'
  <2>1. Active(r)
    BY <1>2 DEF IdentifyUnknown, At, Active
  <2>2. State("awaiting_password", NoIdentity, {}) \in LoginState
    BY StateType, NoIdentityType DEF StateName
  <2>3. req' \in [Requests -> Request] /\ RequestsOK'
    BY <1>2, <2>1, <2>2, FreshStateOK, GotoStep DEF IdentifyUnknown, history
  <2> QED
    BY <1>2, <2>3, HistoryStep DEF IdentifyUnknown, history, IInv, TypeOK
<1> QED
  BY <1>1, <1>2

\* POST password.
LEMMA PasswordStep ==
    ASSUME IInv, NEW r \in Requests, PasswordAccepted(r)
    PROVE  IInv'
<1> DEFINE s == req[r].seen
           a == s.identity.accountId
           u == req[r].uid
<1>1. Active(r) /\ At(r, "loaded", "password")
  BY DEF PasswordAccepted, At, Active
<1>2. s \in LoginState /\ StateOK(u, s, proven, excused) /\ s.name = "awaiting_password"
  BY <1>1 DEF IInv, TypeOK, Request, RequestsOK, RequestOK, At, InStep
<1>3. a \in Accounts /\ Prove(r, a, "pwd") /\ SaveOrFinish(r, passwordVerified(s))
  BY <1>2 DEF PasswordAccepted, LoginState, Identity
<1>4. proven' \subseteq Proof /\ proven \subseteq proven' /\ ProofIn(proven', u, a, "pwd")
  BY <1>1, <1>3, ProveStep
<1>5. excused' = excused
  BY DEF PasswordAccepted
<1>6. StateOK(u, passwordVerified(s), proven', excused')
  BY <1>2, <1>3, <1>4, <1>5, StateKept, PasswordVerifiedOK
<1>7. req' \in [Requests -> Request] /\ RequestsOK'
  BY <1>1, <1>2, <1>3, <1>4, <1>5, <1>6, AdvanceType, SaveOrFinishStep
<1> QED
  BY <1>4, <1>5, <1>7, HistoryStep DEF PasswordAccepted, IInv, TypeOK

\* POST totp.
LEMMA TotpStep ==
    ASSUME IInv, NEW r \in Requests, TotpAccepted(r)
    PROVE  IInv'
<1> DEFINE s == req[r].seen
           a == s.identity.accountId
           u == req[r].uid
<1>1. Active(r) /\ At(r, "loaded", "totp")
  BY DEF TotpAccepted, At, Active
<1>2. s \in LoginState /\ StateOK(u, s, proven, excused) /\ s.name = "awaiting_factor"
  BY <1>1 DEF IInv, TypeOK, Request, RequestsOK, RequestOK, At, InStep
<1>3. a \in Accounts /\ Prove(r, a, "totp") /\ SaveOrFinish(r, factorVerified(s, "totp"))
  BY <1>2 DEF TotpAccepted, LoginState, Identity
<1>4. /\ proven' \subseteq Proof /\ proven \subseteq proven'
      /\ ProofIn(proven', u, a, "totp") /\ FactorIn(proven', u)
  BY <1>1, <1>3, ProveStep DEF FactorKind, FactorIn, ProofIn
<1>5. excused' = excused
  BY DEF TotpAccepted
<1>6. StateOK(u, factorVerified(s, "totp"), proven', excused')
  BY <1>2, <1>4, <1>5, StateKept, FactorVerifiedOK DEF FactorKind
<1>7. req' \in [Requests -> Request] /\ RequestsOK'
  BY <1>1, <1>2, <1>3, <1>4, <1>5, <1>6, AdvanceType, SaveOrFinishStep DEF FactorKind
<1> QED
  BY <1>4, <1>5, <1>7, HistoryStep DEF TotpAccepted, IInv, TypeOK

\* A wrong answer changes nothing.
LEMMA RefusedStep ==
    ASSUME IInv, NEW r \in Requests, Refused(r)
    PROVE  IInv'
<1>1. req' \in [Requests -> Request] /\ RequestsOK'
  BY DoneStep DEF Refused, history
<1> QED
  BY <1>1, HistoryStep DEF Refused, history, IInv, TypeOK

\* POST approval, the count read.
LEMMA AskPhoneStep ==
    ASSUME IInv, NEW r \in Requests, AskPhone(r)
    PROVE  IInv'
<1>1. /\ Active(r) /\ req[r].op = "askPhone" /\ InStep(req[r].op, req[r].seen)
      /\ req[r].seen \in LoginState
      /\ StateOK(req[r].uid, req[r].seen, proven, excused)
  BY DEF AskPhone, At, Active, IInv, TypeOK, Request, RequestsOK, RequestOK
<1>2. req' \in [Requests -> Request] /\ RequestsOK'
  BY <1>1, GotoStep DEF AskPhone, history
<1> QED
  BY <1>2, HistoryStep DEF AskPhone, history, IInv, TypeOK

\* A step that leaves all but requests, history, challenges and approvals alone.
LEMMA RowStep ==
    ASSUME IInv, proven \subseteq proven', proven' \subseteq Proof, excused' = excused,
           req' \in [Requests -> Request], RequestsOK',
           challenge' \in [Uids -> Accounts \cup {Nobody, NoChallenge}],
           approval' \in [ApprovalIds -> Approval], ApprovalsOK',
           UNCHANGED <<accountVars, flow, outcome, resumed, uses, bounds>>
    PROVE  IInv'
<1>1. TypeOK'
  BY DEF IInv, TypeOK, accountVars, bounds
<1>2. FlowOK' /\ Earned'
  BY Kept DEF accountVars, Earned
<1> QED
  BY <1>1, <1>2 DEF IInv

\* POST approval, the row created.
LEMMA CreateApprovalStep ==
    ASSUME IInv, NEW r \in Requests, NEW i \in ApprovalIds, CreateApproval(r, i)
    PROVE  IInv'
<1> DEFINE a == req[r].seen.identity.accountId
           row == [state |-> "pending", uid |-> req[r].uid, account |-> a,
                   consumed |-> FALSE]
<1>1. req[r].uid \in Uids /\ req[r].seen.name = "awaiting_factor"
  BY DEF CreateApproval, At, IInv, RequestsOK, RequestOK, InStep
<1>2. a \in Accounts
  BY <1>1 DEF IInv, RequestsOK, RequestOK, StateOK
<1>3. row \in Approval
  BY <1>1, <1>2 DEF Approval
<1>4. approval' = [approval EXCEPT ![i] = row]
  BY DEF CreateApproval
<1>5. approval' \in [ApprovalIds -> Approval] /\ ApprovalsOK'
  BY <1>1, <1>2, <1>3, <1>4 DEF IInv, TypeOK, ApprovalsOK
<1>6. req' \in [Requests -> Request] /\ RequestsOK'
  BY DoneStep DEF CreateApproval, history
<1> QED
  BY <1>5, <1>6, RowStep DEF CreateApproval, history, IInv, TypeOK

\* POST approval/:id, an approved row.
LEMMA PhoneStep ==
    ASSUME IInv, NEW r \in Requests, NEW i \in ApprovalIds, PhoneAccepted(r, i)
    PROVE  IInv'
<1> DEFINE s == req[r].seen
           u == req[r].uid
<1>1. Active(r) /\ At(r, "loaded", "pollPhone")
  BY DEF PhoneAccepted, At, Active
<1>2. s \in LoginState /\ StateOK(u, s, proven, excused) /\ s.name = "awaiting_factor"
  BY <1>1 DEF IInv, TypeOK, Request, RequestsOK, RequestOK, At, InStep
<1>3. approval[i].account \in Accounts
  BY DEF PhoneAccepted, IInv, ApprovalsOK
<1>4. proven' \subseteq Proof /\ proven \subseteq proven' /\ FactorIn(proven', u)
  BY <1>1, <1>3, ProveStep DEF PhoneAccepted, FactorKind, FactorIn, ProofIn
<1>5. excused' = excused
  BY DEF PhoneAccepted
<1>6. StateOK(u, factorVerified(s, "push"), proven', excused')
  BY <1>2, <1>4, <1>5, StateKept, FactorVerifiedOK DEF FactorKind
<1>7. factorVerified(s, "push") \in LoginState
  BY <1>2, AdvanceType DEF FactorKind
<1>8. req' \in [Requests -> Request] /\ RequestsOK'
  BY <1>1, <1>4, <1>5, <1>6, <1>7, SaveOrFinishStep DEF PhoneAccepted
<1>9. approval' \in [ApprovalIds -> Approval] /\ ApprovalsOK'
  <2>1. approval[i] \in Approval
    BY DEF IInv, TypeOK
  <2>2. approval' = [approval EXCEPT ![i] = [approval[i] EXCEPT !.consumed = TRUE]]
    BY DEF PhoneAccepted
  <2>3. [approval[i] EXCEPT !.consumed = TRUE] \in Approval
    BY <2>1 DEF Approval
  <2>4. ASSUME NEW j \in ApprovalIds
        PROVE  /\ approval'[j].state = approval[j].state
               /\ approval'[j].uid = approval[j].uid
               /\ approval'[j].account = approval[j].account
    BY <2>1, <2>2 DEF Approval, IInv, TypeOK
  <2> QED
    BY <2>2, <2>3, <2>4 DEF IInv, TypeOK, ApprovalsOK
<1> QED
  BY <1>4, <1>5, <1>8, <1>9, RowStep DEF PhoneAccepted, IInv, TypeOK

\* POST passkey/begin and passkey/finish.
LEMMA PasskeyStep ==
    ASSUME IInv, NEW r \in Requests,
           \/ PasskeyBegin(r)
           \/ PasskeyRecall(r)
           \/ \E b \in Accounts : PasskeyAccepted(r, b) \/ PasskeySuspended(r, b)
    PROVE  IInv'
<1> DEFINE s == req[r].seen
           u == req[r].uid
<1>1. ASSUME PasskeyBegin(r) PROVE IInv'
  <2>1. s.identity.accountId \in Accounts \cup {Nobody}
    BY DEF IInv, TypeOK, Request, LoginState, Identity
  <2>2. challenge' \in [Uids -> Accounts \cup {Nobody, NoChallenge}]
    BY <1>1, <2>1 DEF PasskeyBegin, IInv, TypeOK
  <2>3. req' \in [Requests -> Request] /\ RequestsOK' /\ ApprovalsOK'
    BY <1>1, DoneStep, Kept DEF PasskeyBegin, history
  <2> QED
    BY <1>1, <2>2, <2>3, RowStep DEF PasskeyBegin, history, IInv, TypeOK
<1>2. ASSUME PasskeyRecall(r) PROVE IInv'
  <2> DEFINE q == [req[r] EXCEPT !.pc = "recalled", !.recalled = challenge[u]]
  <2>1. req[r] \in Request /\ RequestOK(req[r], proven, excused) /\ Active(r)
    BY <1>2 DEF PasskeyRecall, At, Active, IInv, TypeOK, RequestsOK
  <2>2. u \in Uids
    BY <2>1 DEF RequestOK, Active
  <2>3. challenge[u] \in Accounts \cup {Nobody, NoChallenge}
    BY <2>2 DEF IInv, TypeOK
  <2>4. q \in Request
    BY <2>1, <2>3 DEF Request
  <2>5. q.pc = "recalled" /\ q.uid = u /\ q.op = req[r].op /\ q.seen = s /\ q.next = req[r].next
    BY <2>1 DEF Request
  <2>6. RequestOK(q, proven', excused')
    BY <1>2, <2>1, <2>5 DEF RequestOK, Active, PasskeyRecall, history
  <2>7. req' = [req EXCEPT ![r] = q]
    BY <1>2 DEF PasskeyRecall, IInv, TypeOK
  <2>8. proven' = proven /\ excused' = excused
    BY <1>2 DEF PasskeyRecall, history
  <2>9. req' \in [Requests -> Request] /\ RequestsOK'
    BY <2>4, <2>6, <2>7, <2>8, OneRequest
  <2> QED
    BY <1>2, <2>9, HistoryStep DEF PasskeyRecall, history, IInv, TypeOK
<1>3. ASSUME NEW b \in Accounts, PasskeyAccepted(r, b) PROVE IInv'
  <2>1. Active(r)
    BY <1>3 DEF PasskeyAccepted, At, Active
  <2>2. s \in LoginState /\ StateOK(u, s, proven, excused)
    BY DEF IInv, TypeOK, Request, RequestsOK, RequestOK
  <2>3. /\ proven' \subseteq Proof /\ proven \subseteq proven'
        /\ ProofIn(proven', u, b, "passkey") /\ FactorIn(proven', u)
    BY <1>3, <2>1, ProveStep DEF PasskeyAccepted, FactorKind, FactorIn, ProofIn
  <2>4. excused' = excused
    BY <1>3 DEF PasskeyAccepted
  <2>5. req' \in [Requests -> Request] /\ RequestsOK'
    <3>1. CASE s.name = "awaiting_factor"
      <4>1. StateOK(u, factorVerified(s, "passkey"), proven', excused')
        BY <2>2, <2>3, <2>4, <3>1, StateKept, FactorVerifiedOK DEF FactorKind
      <4>2. factorVerified(s, "passkey") \in LoginState
        BY <2>2, AdvanceType DEF FactorKind
      <4> QED
        BY <1>3, <2>1, <2>3, <2>4, <3>1, <4>1, <4>2, SaveOrFinishStep DEF PasskeyAccepted
    <3>2. CASE s.name # "awaiting_factor"
      <4>1. /\ StateOK(u, passkeyAuthenticated(b), proven', excused')
            /\ passkeyAuthenticated(b) \in LoginState
        BY <2>3, FreshStateOK, IdentifyType
      <4> QED
        BY <1>3, <2>1, <2>3, <2>4, <3>2, <4>1, SaveOrFinishStep DEF PasskeyAccepted
    <3> QED
      BY <3>1, <3>2
  <2>6. challenge' \in [Uids -> Accounts \cup {Nobody, NoChallenge}]
    BY <1>3 DEF PasskeyAccepted, IInv, TypeOK
  <2>7. ApprovalsOK'
    BY <1>3, <2>3, <2>4, Kept DEF PasskeyAccepted
  <2> QED
    BY <1>3, <2>3, <2>4, <2>5, <2>6, <2>7, RowStep DEF PasskeyAccepted, IInv, TypeOK
<1>4. ASSUME NEW b \in Accounts, PasskeySuspended(r, b) PROVE IInv'
  <2>1. challenge' \in [Uids -> Accounts \cup {Nobody, NoChallenge}]
    BY <1>4 DEF PasskeySuspended, IInv, TypeOK
  <2>2. req' \in [Requests -> Request] /\ RequestsOK' /\ ApprovalsOK'
    BY <1>4, DoneStep, Kept DEF PasskeySuspended, history
  <2> QED
    BY <1>4, <2>1, <2>2, RowStep DEF PasskeySuspended, history, IInv, TypeOK
<1> QED
  BY <1>1, <1>2, <1>3, <1>4

\* POST trust.
LEMMA AnswerTrustStep ==
    ASSUME IInv, NEW r \in Requests, NEW trust \in BOOLEAN, AnswerTrust(r, trust)
    PROVE  IInv'
<1> DEFINE s == req[r].seen
           t == trustedDeviceAnswered(s, trust)
           u == req[r].uid
<1>1. Active(r) /\ s.name = "awaiting_trusted_device"
  BY DEF AnswerTrust, At, Active, IInv, RequestsOK, RequestOK, InStep
<1>2. s \in LoginState /\ StateOK(u, s, proven, excused)
  BY DEF IInv, TypeOK, Request, RequestsOK, RequestOK
<1>3. /\ t.name = "complete" /\ t.identity = s.identity /\ t.amr = s.amr
      /\ t.trustDevice = trust
  BY <1>2 DEF trustedDeviceAnswered, LoginState
<1>4. t \in LoginState
  BY <1>2, AdvanceType
<1>5. StateOK(u, t, proven, excused)
  BY <1>1, <1>2, <1>3 DEF StateOK
<1>6. Goto(r, "finish", t) /\ proven' = proven /\ excused' = excused
  BY DEF AnswerTrust, history
<1>7. req' \in [Requests -> Request] /\ RequestsOK'
  BY <1>1, <1>3, <1>4, <1>5, <1>6, GotoStep
<1> QED
  BY <1>6, <1>7, HistoryStep DEF AnswerTrust, history, IInv, TypeOK

\* A saved flow is true of its interaction, however stale.
LEMMA SaveStep ==
    ASSUME IInv, NEW r \in Requests, Save(r)
    PROVE  IInv'
<1> DEFINE u == req[r].uid
<1>1. req[r].next \in LoginState /\ StateOK(u, req[r].next, proven, excused)
  BY DEF IInv, TypeOK, Request, RequestsOK, RequestOK
<1>2. flow' = [flow EXCEPT ![u] = req[r].next] /\ proven' = proven /\ excused' = excused
  BY DEF Save, history
<1>3. flow' \in [Uids -> LoginState] /\ FlowOK'
  BY <1>1, <1>2 DEF IInv, TypeOK, FlowOK
<1>4. req' \in [Requests -> Request] /\ RequestsOK'
  BY <1>2, DoneStep DEF Save
<1>5. ApprovalsOK' /\ Earned'
  BY <1>2, Kept DEF Save, accountVars, Earned
<1>6. TypeOK'
  BY <1>2, <1>3, <1>4 DEF Save, IInv, TypeOK, accountVars, history, bounds
<1> QED
  BY <1>3, <1>4, <1>5, <1>6 DEF IInv

-----------------------------------------------------------------------------
(* finish(), and the answers that end an interaction. *)

\* Handing a result over moves the request on, or fails it.
LEMMA HandOverStep ==
    ASSUME IInv, NEW r \in Requests, Active(r), NEW result \in Outcome,
           NEW then \in {"tidy", "clear"}, HandOver(r, result, then),
           proven' = proven, excused' = excused
    PROVE  /\ req' \in [Requests -> Request] /\ RequestsOK'
           /\ \/ outcome' = outcome
              \/ outcome' = [outcome EXCEPT ![req[r].uid] = result]
           /\ outcome' \in [Uids -> Outcome]
<1>1. /\ req[r].next \in LoginState /\ req[r].uid \in Uids
      /\ StateOK(req[r].uid, req[r].next, proven', excused')
  BY DEF IInv, TypeOK, Request, RequestsOK, RequestOK, Active
<1>2. CASE req[r].uid \in resumed
  BY <1>2, FailStep DEF HandOver, IInv, TypeOK
<1>3. CASE req[r].uid \notin resumed
  BY <1>1, <1>3, GotoStep DEF HandOver, IInv, TypeOK
<1> QED
  BY <1>2, <1>3

\* What a finished request leaves behind, when the outcome it writes is earned.
LEMMA FinishStep ==
    ASSUME IInv, proven' = proven, excused' = excused,
           req' \in [Requests -> Request], RequestsOK',
           outcome' \in [Uids -> Outcome],
           CredentialsAreTheirOwn', FactorAskedUnlessExcused',
           uses' \in [Accounts -> SUBSET Uids], flow' \in [Uids -> LoginState], FlowOK',
           devices' \subseteq Accounts \X Uids, DeviceTrustFollowsFactor',
           armed' \subseteq armed,
           UNCHANGED <<status, password, enrolled, cutting, challenge, approval,
                       resumed, bounds>>
    PROVE  IInv'
<1>1. TypeOK'
  BY DEF IInv, TypeOK, bounds
<1>2. ApprovalsOK'
  BY Kept
<1> QED
  BY <1>1, <1>2 DEF IInv, Earned

\* denyWithoutGrant and POST abort.
LEMMA DeniedStep ==
    ASSUME IInv, NEW r \in Requests, FinishDenied(r) \/ Abort(r)
    PROVE  IInv'
<1>1. Active(r) /\ HandOver(r, Denied, "clear") /\ Denied \in Outcome
  BY DEF FinishDenied, Abort, At, Active, Denied, Outcome
<1>2. proven' = proven /\ excused' = excused
  BY DEF FinishDenied, Abort, history
<1>3. /\ req' \in [Requests -> Request] /\ RequestsOK'
      /\ \/ outcome' = outcome
         \/ outcome' = [outcome EXCEPT ![req[r].uid] = Denied]
      /\ outcome' \in [Uids -> Outcome]
  BY <1>1, <1>2, HandOverStep
<1>4. \A u \in Uids : outcome'[u] = outcome[u] \/ outcome'[u].kind = "denied"
  BY <1>3 DEF Denied, IInv, TypeOK
<1>5. CredentialsAreTheirOwn'
  BY <1>2, <1>4 DEF IInv, Earned, CredentialsAreTheirOwn, Proved
<1>6. FactorAskedUnlessExcused'
  BY <1>2, <1>4 DEF IInv, Earned, FactorAskedUnlessExcused
<1>7. FlowOK' /\ DeviceTrustFollowsFactor'
  BY <1>2, Kept DEF FinishDenied, Abort, accountVars
<1> QED
  BY <1>2, <1>3, <1>5, <1>6, <1>7, FinishStep
     DEF FinishDenied, Abort, accountVars, history, IInv, TypeOK

\* finish(), the grant checked.
LEMMA FinishAllowedStep ==
    ASSUME IInv, NEW r \in Requests, FinishAllowed(r)
    PROVE  IInv'
<1> DEFINE s == req[r].next
           pc == IF s.trustDevice /\ status[s.identity.accountId] = "active"
                   THEN "issue" ELSE "result"
<1>1. Active(r) /\ Goto(r, pc, s) /\ proven' = proven /\ excused' = excused
  BY DEF FinishAllowed, Active, history
<1>2. /\ s \in LoginState /\ s.name = "complete"
      /\ StateOK(req[r].uid, s, proven, excused)
  BY DEF FinishAllowed, IInv, TypeOK, Request, RequestsOK, RequestOK
<1>3. req' \in [Requests -> Request] /\ RequestsOK'
  <2>1. CASE pc = "issue"
    BY <1>1, <1>2, <2>1, GotoStep
  <2>2. CASE pc = "result"
    BY <1>1, <1>2, <2>2, GotoStep
  <2> QED
    BY <2>1, <2>2
<1> QED
  BY <1>1, <1>3, HistoryStep DEF FinishAllowed, history, IInv, TypeOK

\* The device issued is trusted after a password and a factor.
LEMMA IssueDeviceStep ==
    ASSUME IInv, NEW r \in Requests, IssueDevice(r)
    PROVE  IInv'
<1> DEFINE s == req[r].next
           u == req[r].uid
           d == <<s.identity.accountId, u>>
<1>1. Active(r) /\ Goto(r, "result", s) /\ proven' = proven /\ excused' = excused
  BY DEF IssueDevice, Active, history
<1>2. /\ s \in LoginState /\ s.name = "complete" /\ s.trustDevice /\ u \in Uids
      /\ StateOK(u, s, proven, excused)
  BY DEF IssueDevice, IInv, TypeOK, Request, RequestsOK, RequestOK, Op
<1>3. /\ s.identity.accountId \in Accounts
      /\ ProofIn(proven, u, s.identity.accountId, "pwd")
      /\ FactorIn(proven, u)
  BY <1>2 DEF StateOK
<1>4. req' \in [Requests -> Request] /\ RequestsOK'
  BY <1>1, <1>2, GotoStep
<1>5. devices' = devices \cup {d}
  BY DEF IssueDevice
<1>6. devices' \subseteq Accounts \X Uids
  BY <1>2, <1>3, <1>5 DEF IInv, TypeOK
<1>7. DeviceTrustFollowsFactor'
  BY <1>1, <1>3, <1>5
     DEF IInv, Earned, DeviceTrustFollowsFactor, Proved, ProofIn, FactorIn
<1>8. FlowOK' /\ CredentialsAreTheirOwn' /\ FactorAskedUnlessExcused'
  BY <1>1, Kept DEF IssueDevice
<1> QED
  BY <1>1, <1>4, <1>6, <1>7, <1>8, FinishStep DEF IssueDevice, history, IInv, TypeOK

\* The login handed to the provider is earned.
LEMMA RecordLoginStep ==
    ASSUME IInv, NEW r \in Requests, RecordLogin(r)
    PROVE  IInv'
<1> DEFINE s == req[r].next
           u == req[r].uid
           a == s.identity.accountId
<1>1. Active(r) /\ HandOver(r, Login(s), "tidy") /\ proven' = proven /\ excused' = excused
  BY DEF RecordLogin, Active
<1>2. /\ s \in LoginState /\ s.name = "complete" /\ u \in Uids
      /\ StateOK(u, s, proven, excused)
  BY DEF RecordLogin, IInv, TypeOK, Request, RequestsOK, RequestOK
<1>3. a \in Accounts /\ Login(s) \in Outcome
  BY <1>2 DEF StateOK, Login, Outcome, LoginState
<1>4. /\ req' \in [Requests -> Request] /\ RequestsOK'
      /\ \/ outcome' = outcome
         \/ outcome' = [outcome EXCEPT ![u] = Login(s)]
      /\ outcome' \in [Uids -> Outcome]
  BY <1>1, <1>3, HandOverStep
<1>5. \A v \in Uids : \/ outcome'[v] = outcome[v]
                      \/ v = u /\ outcome'[v].account = a /\ outcome'[v].amr = s.amr
  BY <1>4 DEF Login, IInv, TypeOK
<1>6. CredentialsAreTheirOwn'
  <2> SUFFICES ASSUME NEW v \in Uids, outcome'[v].kind = "login"
               PROVE  LET b == outcome'[v].account  amr == outcome'[v].amr
                      IN  /\ b \in Accounts
                          /\ "pwd" \in amr => ProofIn(proven, v, b, "pwd")
                          /\ "pwd" \notin amr => amr = {"hwk"}
                                                 /\ ProofIn(proven, v, b, "passkey")
                          /\ "otp" \in amr => ProofIn(proven, v, b, "totp")
    BY <1>1 DEF CredentialsAreTheirOwn, Proved, ProofIn
  <2>1. CASE outcome'[v] = outcome[v]
    BY <2>1 DEF IInv, Earned, CredentialsAreTheirOwn, Proved, ProofIn
  <2>2. CASE v = u /\ outcome'[v].account = a /\ outcome'[v].amr = s.amr
    BY <1>2, <2>2 DEF StateOK
  <2> QED
    BY <1>5, <2>1, <2>2
<1>7. FactorAskedUnlessExcused'
  BY <1>1, <1>2, <1>5
     DEF IInv, Earned, FactorAskedUnlessExcused, StateOK, SecondFactors
<1>8. uses' \in [Accounts -> SUBSET Uids]
  BY <1>2 DEF RecordLogin, IInv, TypeOK
<1>9. FlowOK' /\ DeviceTrustFollowsFactor'
  BY <1>1, Kept DEF RecordLogin, accountVars
<1> QED
  BY <1>1, <1>4, <1>6, <1>7, <1>8, <1>9, FinishStep
     DEF RecordLogin, accountVars, IInv, TypeOK

\* The flow cleared.
LEMMA ClearFlowStep ==
    ASSUME IInv, NEW r \in Requests, ClearFlow(r)
    PROVE  IInv'
<1>1. Active(r) /\ proven' = proven /\ excused' = excused
  BY DEF ClearFlow, Active, history
<1>2. /\ req[r].next \in LoginState
      /\ StateOK(req[r].uid, req[r].next, proven', excused')
  BY <1>1 DEF IInv, TypeOK, Request, RequestsOK, RequestOK
<1>3. req' \in [Requests -> Request] /\ RequestsOK'
  BY <1>1, <1>2, DoneStep, GotoStep DEF ClearFlow
<1>4. flow' \in [Uids -> LoginState] /\ FlowOK'
  BY <1>1, StartType, FreshStateOK DEF ClearFlow, IInv, TypeOK, FlowOK
<1>5. /\ DeviceTrustFollowsFactor' /\ CredentialsAreTheirOwn'
      /\ FactorAskedUnlessExcused'
  BY <1>1, Kept DEF ClearFlow, accountVars
<1> QED
  BY <1>1, <1>3, <1>4, <1>5, FinishStep DEF ClearFlow, accountVars, history, IInv, TypeOK

\* The window spent.
LEMMA SpendStep ==
    ASSUME IInv, NEW r \in Requests, Spend(r)
    PROVE  IInv'
<1>1. proven' = proven /\ excused' = excused
  BY DEF Spend, history
<1>2. req' \in [Requests -> Request] /\ RequestsOK'
  BY <1>1, DoneStep DEF Spend
<1>3. /\ FlowOK' /\ DeviceTrustFollowsFactor' /\ CredentialsAreTheirOwn'
      /\ FactorAskedUnlessExcused'
  BY <1>1, Kept DEF Spend
<1>4. armed' \subseteq armed
  BY DEF Spend
<1> QED
  BY <1>1, <1>2, <1>3, <1>4, FinishStep DEF Spend, history, IInv, TypeOK

-----------------------------------------------------------------------------
(* Around the requests, and the account changes. *)

\* The phone answers, or time does.
LEMMA SettleApprovalStep ==
    ASSUME IInv, NEW i \in ApprovalIds, NEW verdict \in {"approved", "denied", "expired"},
           SettleApproval(i, verdict)
    PROVE  IInv'
<1>1. approval[i] \in Approval
  BY DEF IInv, TypeOK
<1>2. approval' = [approval EXCEPT ![i] = [approval[i] EXCEPT !.state = verdict]]
  BY DEF SettleApproval
<1>3. [approval[i] EXCEPT !.state = verdict] \in Approval
  BY <1>1 DEF Approval
<1>4. \A j \in ApprovalIds : /\ approval'[j].uid = approval[j].uid
                             /\ approval'[j].account = approval[j].account
                             /\ j # i => approval'[j].state = approval[j].state
  BY <1>1, <1>2 DEF Approval, IInv, TypeOK
<1>5. approval' \in [ApprovalIds -> Approval] /\ ApprovalsOK'
  BY <1>2, <1>3, <1>4 DEF SettleApproval, IInv, TypeOK, ApprovalsOK
<1>6. req' \in [Requests -> Request] /\ RequestsOK'
  BY DEF SettleApproval, history, IInv, TypeOK, RequestsOK
<1> QED
  BY <1>5, <1>6, RowStep DEF SettleApproval, history, IInv, TypeOK

\* The provider consumes an interaction.
LEMMA ResumeStep ==
    ASSUME IInv, NEW u \in Uids, Resume(u)
    PROVE  IInv'
<1>1. RequestsOK' /\ proven' = proven /\ excused' = excused
  BY DEF Resume, history, IInv, RequestsOK
<1>2. FlowOK' /\ ApprovalsOK' /\ Earned'
  BY <1>1, Kept DEF Resume, accountVars, Earned
<1>3. TypeOK'
  BY DEF Resume, IInv, TypeOK, accountVars, history, bounds
<1> QED
  BY <1>1, <1>2, <1>3 DEF IInv

\* A restart forgets the requests and keeps the rows.
LEMMA CrashStep ==
    ASSUME IInv, Crash
    PROVE  IInv'
<1>1. Idle \in Request
  BY StartType DEF Idle, Request
<1>2. RequestOK(Idle, proven', excused')
  BY DEF RequestOK, Idle, StateOK, Absent, State, NoIdentity
<1>3. req' \in [Requests -> Request] /\ RequestsOK'
  BY <1>1, <1>2 DEF Crash, RequestsOK
<1> QED
  BY <1>3, HistoryStep DEF Crash, history, IInv, TypeOK

\* What other handlers do to an account takes nothing back from a sign-in's history.
LEMMA AccountChangeStep ==
    ASSUME IInv, NEW a \in Accounts, AccountChange(a)
    PROVE  IInv'
<1>1. OthersUnchanged /\ devices' \subseteq devices
  BY DEF AccountChange, Suspend, Reactivate, Reset, SetPassword, ChangeFactor, OpenLink,
         RevokeDevices, Arm, Disarm
<1>2. FlowOK' /\ ApprovalsOK' /\ Earned'
  BY <1>1, Kept DEF OthersUnchanged, Earned
<1>3. RequestsOK'
  BY <1>1 DEF OthersUnchanged, IInv, RequestsOK
<1>4. TypeOK'
  <2>1. CASE Suspend(a) \/ Reactivate(a)
    BY <2>1 DEF Suspend, Reactivate, OthersUnchanged, Change, IInv, TypeOK
  <2>2. CASE Reset(a) \/ SetPassword(a)
    <3>1. password' \in [Accounts -> BOOLEAN]
      BY <2>2, Zenon DEF Reset, SetPassword, IInv, TypeOK
    <3>2. enrolled' \in [Accounts -> SUBSET {"totp", "passkey"}]
          /\ cutting' \in [Accounts -> {"no", "revoke", "revokeThenArm", "arm"}]
      BY <2>2 DEF Reset, SetPassword, IInv, TypeOK
    <3> QED
      BY <2>2, <3>1, <3>2 DEF Reset, SetPassword, OthersUnchanged, Change, IInv, TypeOK
  <2>3. ASSUME NEW f \in {"totp", "passkey"}, ChangeFactor(a, f) PROVE TypeOK'
    BY <2>3 DEF ChangeFactor, OthersUnchanged, Change, IInv, TypeOK
  <2>4. CASE OpenLink(a)
    BY <2>4 DEF OpenLink, OthersUnchanged, Change, IInv, TypeOK
  <2>5. CASE RevokeDevices(a)
    BY <2>5 DEF RevokeDevices, OthersUnchanged, IInv, TypeOK
  <2>6. CASE Arm(a) \/ Disarm(a)
    BY <2>6 DEF Arm, Disarm, OthersUnchanged, IInv, TypeOK
  <2> QED
    BY <2>1, <2>2, <2>3, <2>4, <2>5, <2>6 DEF AccountChange
<1> QED
  BY <1>2, <1>3, <1>4 DEF IInv

\* Every step keeps the inductive invariant.
THEOREM NextIInv == IInv /\ [Next]_vars => IInv'
<1> SUFFICES ASSUME IInv, [Next]_vars PROVE IInv'
  OBVIOUS
<1>1. ASSUME NEW r \in Requests, Handler(r) PROVE IInv'
  BY <1>1, LoadStep, IdentifyStep, PasswordStep, TotpStep, RefusedStep, AskPhoneStep,
     CreateApprovalStep, PhoneStep, PasskeyStep, AnswerTrustStep, SaveStep, DeniedStep,
     FinishAllowedStep, IssueDeviceStep, RecordLoginStep, ClearFlowStep,
     SpendStep DEF Handler
<1>2. CASE UNCHANGED vars
  <2>1. TypeOK'
    BY <1>2 DEF vars, accountVars, history, bounds, IInv, TypeOK
  <2>2. FlowOK' /\ ApprovalsOK' /\ Earned'
    BY <1>2, Kept DEF vars, accountVars, history, Earned
  <2>3. RequestsOK'
    BY <1>2 DEF vars, history, IInv, RequestsOK
  <2> QED
    BY <2>1, <2>2, <2>3 DEF IInv
<1> QED
  BY <1>1, <1>2, SettleApprovalStep, ResumeStep, CrashStep, AccountChangeStep DEF Next

\* The inductive invariant holds of every reachable state.
THEOREM InductiveInvariant == Spec => []IInv
BY InitIInv, NextIInv, PTL DEF Spec

\* The state keeps its type, whatever the accounts, interactions and requests.
THEOREM TypeCorrect == Spec => []TypeOK
<1>1. IInv => TypeOK
  BY DEF IInv
<1> QED
  BY <1>1, InductiveInvariant, PTL

\* Nobody is signed in on somebody else's credentials (finish in routes.ts).
THEOREM SignInEarned == Spec => []CredentialsAreTheirOwn
<1>1. IInv => CredentialsAreTheirOwn
  BY DEF IInv, Earned
<1> QED
  BY <1>1, InductiveInvariant, PTL

\* No interleaving of handlers skips the second factor (machine.ts).
THEOREM SecondFactorAsked == Spec => []FactorAskedUnlessExcused
<1>1. IInv => FactorAskedUnlessExcused
  BY DEF IInv, Earned
<1> QED
  BY <1>1, InductiveInvariant, PTL

\* A browser is trusted only once a second factor has been answered in it
\* (rememberDevice in routes.ts).
THEOREM TrustFollowsFactor == Spec => []DeviceTrustFollowsFactor
<1>1. IInv => DeviceTrustFollowsFactor
  BY DEF IInv, Earned
<1> QED
  BY <1>1, InductiveInvariant, PTL

-----------------------------------------------------------------------------
(* The phone.  A state that claims it has spent an approval of its interaction,
   and an approval that is spent stays approved. *)

PhoneIn(A, u) ==
    \E i \in ApprovalIds : A[i].uid = u /\ A[i].state = "approved" /\ A[i].consumed

Backed(A, u, s) == "pop" \in s.amr => PhoneIn(A, u)

FlowsBacked == \A u \in Uids : Backed(approval, u, flow[u])

RequestsBacked ==
    \A r \in Requests : /\ Backed(approval, req[r].uid, req[r].seen)
                        /\ Backed(approval, req[r].uid, req[r].next)

PhoneInv == FlowsBacked /\ RequestsBacked /\ PhoneApprovedLogin

\* No approval that counts is taken back.
Grown == \A u : PhoneIn(approval, u) => PhoneIn(approval', u)

LEMMA ApprovalsGrow == ASSUME TypeOK, [Next]_vars PROVE Grown
<1>1. CASE approval' = approval
  BY <1>1 DEF Grown
<1>2. ASSUME NEW r \in Requests, NEW i \in ApprovalIds, CreateApproval(r, i) PROVE Grown
  BY <1>2 DEF CreateApproval, Unborn, Grown, PhoneIn, TypeOK
<1>3. ASSUME NEW r \in Requests, NEW i \in ApprovalIds, PhoneAccepted(r, i) PROVE Grown
  BY <1>3 DEF PhoneAccepted, Grown, PhoneIn, TypeOK, Approval
<1>4. ASSUME NEW i \in ApprovalIds, NEW verdict, SettleApproval(i, verdict) PROVE Grown
  BY <1>4 DEF SettleApproval, Grown, PhoneIn, TypeOK, Approval
<1>5. ASSUME NEW r \in Requests, Handler(r) PROVE Grown
  BY <1>1, <1>2, <1>3, <1>5 DEF Handler, Load, IdentifyKnown, IdentifyUnknown, PasswordAccepted,
     TotpAccepted, Refused, AskPhone, PasskeyBegin, PasskeyRecall, PasskeyAccepted,
     PasskeySuspended, AnswerTrust, Save, FinishDenied, FinishAllowed, IssueDevice, RecordLogin,
     ClearFlow, Spend, Abort
<1>6. ASSUME NEW a \in Accounts, AccountChange(a) PROVE Grown
  BY <1>1, <1>6 DEF AccountChange, Suspend, Reactivate, Reset, SetPassword, ChangeFactor, OpenLink,
     RevokeDevices, Arm, Disarm, OthersUnchanged
<1> QED BY <1>1, <1>4, <1>5, <1>6 DEF Next, Resume, Crash, vars

\* One request moves on, with states that are backed.
LEMMA OneBacked ==
    ASSUME TypeOK, RequestsBacked, Grown, NEW r \in Requests, NEW q, req' = [req EXCEPT ![r] = q],
           Backed(approval', q.uid, q.seen), Backed(approval', q.uid, q.next)
    PROVE  RequestsBacked'
<1>1. req'[r] = q /\ \A x \in Requests : x # r => req'[x] = req[x]
  BY DEF TypeOK
<1> QED BY <1>1 DEF RequestsBacked, Backed, Grown

LEMMA GotoBacked ==
    ASSUME TypeOK, RequestsBacked, Grown, NEW r \in Requests, NEW pc, NEW s, Goto(r, pc, s),
           Backed(approval', req[r].uid, s)
    PROVE  RequestsBacked'
<1> DEFINE q == [req[r] EXCEPT !.pc = pc, !.next = s]
<1>1. req[r] \in Request
  BY DEF TypeOK
<1>2. q.uid = req[r].uid /\ q.seen = req[r].seen /\ q.next = s
  BY <1>1 DEF Request
<1>3. req' = [req EXCEPT ![r] = q]
  BY DEF Goto, TypeOK
<1>4. Backed(approval', req[r].uid, req[r].seen)
  BY DEF RequestsBacked, Backed, Grown
<1> HIDE DEF q
<1> QED BY <1>2, <1>3, <1>4, OneBacked

LEMMA SaveOrFinishBacked ==
    ASSUME TypeOK, RequestsBacked, Grown, NEW r \in Requests, NEW s, SaveOrFinish(r, s),
           Backed(approval', req[r].uid, s)
    PROVE  RequestsBacked'
<1>1. PICK pc \in {"finish", "save"} : Goto(r, pc, s)
  BY DEF SaveOrFinish
<1> QED BY <1>1, GotoBacked

\* A request that is answered claims nothing; one that throws, or that goes on with the
\* state it has, claims what it did.
LEMMA StillBacked ==
    ASSUME TypeOK, RequestsBacked, Grown, NEW r \in Requests,
           \/ Done(r) \/ Fail(r)
           \/ \E pc : Goto(r, pc, req[r].next) \/ Goto(r, pc, req[r].seen)
    PROVE  RequestsBacked'
<1>1. CASE Done(r)
  <2>1. Idle.seen.amr = {} /\ Idle.next.amr = {}
    BY DEF Idle, Absent, State
  <2> QED BY <1>1, <2>1, OneBacked DEF Done, Backed
<1>2. /\ Backed(approval', req[r].uid, req[r].seen)
      /\ Backed(approval', req[r].uid, req[r].next)
  BY DEF RequestsBacked, Backed, Grown
<1>3. CASE Fail(r)
  <2> DEFINE q == [req[r] EXCEPT !.pc = "failed"]
  <2>1. q.uid = req[r].uid /\ q.seen = req[r].seen /\ q.next = req[r].next
    BY DEF TypeOK, Request
  <2>2. req' = [req EXCEPT ![r] = q]
    BY <1>3 DEF Fail, TypeOK
  <2> HIDE DEF q
  <2> QED BY <1>2, <2>1, <2>2, OneBacked
<1> QED BY <1>1, <1>2, <1>3, GotoBacked

\* Only the phone's factor adds the phone's claim.
LEMMA ClaimsPhone ==
    /\ \A id : "pop" \notin identified(id).amr
    /\ \A s : "pop" \notin passwordVerified(s).amr
    /\ \A s : "pop" \in factorVerified(s, "totp").amr => "pop" \in s.amr
    /\ \A s : "pop" \in factorVerified(s, "passkey").amr => "pop" \in s.amr
    /\ \A a : "pop" \notin passkeyAuthenticated(a).amr
    /\ Absent.amr = {} /\ start.amr = {}
BY DEF identified, passwordVerified, factorVerified, passkeyAuthenticated, afterCredential, State,
       AMR_FOR_FACTOR, Absent, start

\* The handlers that only compute: the flow, the outcome and the approvals stay.
LEMMA ComputingBacked ==
    ASSUME TypeOK, RequestsBacked, Grown, NEW r \in Requests,
           \/ \E a \in Accounts, cookie \in BOOLEAN : IdentifyKnown(r, a, cookie)
           \/ IdentifyUnknown(r) \/ PasswordAccepted(r) \/ TotpAccepted(r) \/ Refused(r)
           \/ AskPhone(r)
           \/ \E i \in ApprovalIds : CreateApproval(r, i) \/ PhoneAccepted(r, i)
           \/ PasskeyBegin(r) \/ PasskeyRecall(r)
           \/ \E b \in Accounts : PasskeyAccepted(r, b) \/ PasskeySuspended(r, b)
           \/ \E trust \in BOOLEAN : AnswerTrust(r, trust)
    PROVE  RequestsBacked' /\ flow' = flow /\ outcome' = outcome
<1>1. flow' = flow /\ outcome' = outcome
  BY DEF IdentifyKnown, IdentifyUnknown, PasswordAccepted, TotpAccepted, Refused, AskPhone,
         CreateApproval, PhoneAccepted, PasskeyBegin, PasskeyRecall, PasskeyAccepted,
         PasskeySuspended, AnswerTrust
<1>2. Backed(approval', req[r].uid, req[r].seen)
  BY DEF RequestsBacked, Backed, Grown
<1>3. ASSUME NEW a \in Accounts, NEW cookie \in BOOLEAN, IdentifyKnown(r, a, cookie)
      PROVE  RequestsBacked'
  <2>1. Fail(r) \/ Goto(r, "save", identified(identityOf(a, cookie)))
    BY <1>3 DEF IdentifyKnown
  <2> QED BY <2>1, ClaimsPhone, StillBacked, GotoBacked DEF Backed
<1>4. CASE IdentifyUnknown(r)
  <2>1. State("awaiting_password", NoIdentity, {}).amr = {}
    BY DEF State
  <2> QED BY <1>4, <2>1, GotoBacked DEF IdentifyUnknown, Backed
<1>5. CASE PasswordAccepted(r)
  BY <1>5, ClaimsPhone, SaveOrFinishBacked DEF PasswordAccepted, Backed
<1>6. CASE TotpAccepted(r)
  BY <1>2, <1>6, ClaimsPhone, SaveOrFinishBacked DEF TotpAccepted, Backed
<1>7. CASE Refused(r) \/ PasskeyBegin(r)
  BY <1>7, StillBacked DEF Refused, PasskeyBegin
<1>8. CASE AskPhone(r)
  BY <1>8, StillBacked DEF AskPhone
<1>9. ASSUME NEW i \in ApprovalIds, CreateApproval(r, i) PROVE RequestsBacked'
  BY <1>9, StillBacked DEF CreateApproval
<1>10. ASSUME NEW i \in ApprovalIds, PhoneAccepted(r, i) PROVE RequestsBacked'
  <2>1. PhoneIn(approval', req[r].uid)
    BY <1>10 DEF PhoneAccepted, PhoneIn, TypeOK, Approval
  <2> QED BY <1>10, <2>1, SaveOrFinishBacked DEF PhoneAccepted, Backed
<1>11. CASE PasskeyRecall(r)
  <2> DEFINE q == [req[r] EXCEPT !.pc = "recalled", !.recalled = challenge[req[r].uid]]
  <2>1. q.uid = req[r].uid /\ q.seen = req[r].seen /\ q.next = req[r].next
    BY DEF TypeOK, Request
  <2>2. req' = [req EXCEPT ![r] = q]
    BY <1>11 DEF PasskeyRecall, TypeOK
  <2>3. Backed(approval', req[r].uid, req[r].next)
    BY DEF RequestsBacked, Backed, Grown
  <2>4. Backed(approval', q.uid, q.seen) /\ Backed(approval', q.uid, q.next)
    BY <1>2, <2>1, <2>3
  <2> HIDE DEF q
  <2> QED BY <1>1, <2>2, <2>4, OneBacked
<1>12. ASSUME NEW b \in Accounts, PasskeyAccepted(r, b) PROVE RequestsBacked'
  <2>1. \/ SaveOrFinish(r, factorVerified(req[r].seen, "passkey"))
        \/ SaveOrFinish(r, passkeyAuthenticated(b))
    BY <1>12 DEF PasskeyAccepted
  <2> QED BY <1>2, <2>1, ClaimsPhone, SaveOrFinishBacked DEF Backed
<1>13. ASSUME NEW b \in Accounts, PasskeySuspended(r, b) PROVE RequestsBacked'
  BY <1>13, StillBacked DEF PasskeySuspended
<1>14. ASSUME NEW trust \in BOOLEAN, AnswerTrust(r, trust) PROVE RequestsBacked'
  <2>1. trustedDeviceAnswered(req[r].seen, trust).amr = req[r].seen.amr
    BY DEF trustedDeviceAnswered, TypeOK, Request, LoginState
  <2> QED BY <1>2, <1>14, <2>1, GotoBacked DEF AnswerTrust, Backed
<1> QED BY <1>1, <1>3, <1>4, <1>5, <1>6, <1>7, <1>8, <1>9, <1>10, <1>11, <1>12, <1>13, <1>14

\* The handlers that write the flow or hand an outcome over.
LEMMA WritingBacked ==
    ASSUME TypeOK, RequestsOK, PhoneInv, Grown, NEW r \in Requests,
           \/ \E op \in Op, u \in Uids : Load(r, op, u)
           \/ Save(r) \/ ClearFlow(r) \/ RecordLogin(r) \/ FinishDenied(r) \/ Abort(r)
           \/ FinishAllowed(r) \/ IssueDevice(r) \/ Spend(r)
    PROVE  PhoneInv'
<1>0. req[r] \in Request /\ RequestsBacked
  BY DEF TypeOK, PhoneInv
<1>1. outcome' = outcome => PhoneApprovedLogin'
  BY DEF PhoneInv, PhoneApprovedLogin, Grown, PhoneIn
<1>2. flow' = flow => FlowsBacked'
  BY DEF PhoneInv, FlowsBacked, Backed, Grown
<1>3. ASSUME NEW u \in Uids, NEW s, flow' = [flow EXCEPT ![u] = s], Backed(approval', u, s)
      PROVE  FlowsBacked'
  BY <1>3 DEF PhoneInv, FlowsBacked, Backed, Grown, TypeOK
<1>4. ASSUME NEW op \in Op, NEW u \in Uids, Load(r, op, u) PROVE PhoneInv'
  <2> DEFINE s == IF flow[u].name = "absent" THEN start ELSE flow[u]
             q == [pc |-> "loaded", op |-> op, uid |-> u, seen |-> s,
                   next |-> Absent, recalled |-> NoChallenge]
  <2>1. Backed(approval', u, s)
    BY ClaimsPhone DEF PhoneInv, FlowsBacked, Backed, Grown
  <2>2. flow' = [flow EXCEPT ![u] = s] /\ outcome' = outcome
    BY <1>4 DEF Load
  <2>3. Done(r) \/ req' = [req EXCEPT ![r] = q]
    BY <1>4 DEF Load
  <2>4. q.uid = u /\ q.seen = s /\ q.next = Absent
    OBVIOUS
  <2> HIDE DEF q, s
  <2>5. RequestsBacked'
    <3>1. CASE Done(r)
      BY <1>0, <3>1, StillBacked
    <3>2. CASE req' = [req EXCEPT ![r] = q]
      <4>1. Backed(approval', q.uid, q.seen) /\ Backed(approval', q.uid, q.next)
        BY <2>1, <2>4, ClaimsPhone DEF Backed
      <4> QED BY <1>0, <3>2, <4>1, OneBacked
    <3> QED BY <2>3, <3>1, <3>2
  <2> QED BY <1>1, <1>3, <2>1, <2>2, <2>5 DEF PhoneInv
<1>5. req[r].pc \notin {"idle", "failed"} => req[r].uid \in Uids
  BY DEF RequestsOK, RequestOK
<1>6. CASE Save(r)
  <2>1. Backed(approval', req[r].uid, req[r].next)
    BY <1>0 DEF RequestsBacked, Backed, Grown
  <2>2. RequestsBacked'
    BY <1>0, <1>6, StillBacked DEF Save
  <2> QED BY <1>1, <1>3, <1>5, <1>6, <2>1, <2>2 DEF Save, PhoneInv
<1>7. CASE ClearFlow(r)
  <2>1. RequestsBacked'
    BY <1>0, <1>7, StillBacked DEF ClearFlow
  <2>2. FlowsBacked'
    BY <1>3, <1>5, <1>7, ClaimsPhone DEF ClearFlow, Backed
  <2> QED BY <1>1, <1>7, <2>1, <2>2 DEF ClearFlow, PhoneInv
<1>8. CASE FinishAllowed(r) \/ IssueDevice(r) \/ Spend(r)
  <2>1. RequestsBacked'
    BY <1>0, <1>8, StillBacked DEF FinishAllowed, IssueDevice, Spend
  <2> QED BY <1>1, <1>2, <1>8, <2>1 DEF FinishAllowed, IssueDevice, Spend, PhoneInv
<1>9. CASE FinishDenied(r) \/ Abort(r)
  <2>1. HandOver(r, Denied, "clear") /\ flow' = flow
    BY <1>9 DEF FinishDenied, Abort
  <2>2. RequestsBacked'
    BY <1>0, <2>1, StillBacked DEF HandOver
  <2>3. \A u \in Uids : outcome'[u] = outcome[u] \/ outcome'[u] = Denied
    BY <2>1 DEF HandOver, TypeOK
  <2>4. PhoneApprovedLogin'
    BY <2>3 DEF PhoneInv, PhoneApprovedLogin, Grown, PhoneIn, Denied
  <2> QED BY <1>2, <2>1, <2>2, <2>4 DEF PhoneInv
<1>10. CASE RecordLogin(r)
  <2>1. HandOver(r, Login(req[r].next), "tidy") /\ flow' = flow
    BY <1>10 DEF RecordLogin
  <2>2. RequestsBacked'
    BY <1>0, <2>1, StillBacked DEF HandOver
  <2>3. ASSUME NEW u \in Uids
        PROVE  \/ outcome'[u] = outcome[u]
               \/ u = req[r].uid /\ outcome'[u].amr = req[r].next.amr
    BY <2>1 DEF HandOver, Login, TypeOK
  <2>4. Backed(approval', req[r].uid, req[r].next)
    BY <1>0 DEF RequestsBacked, Backed, Grown
  <2>5. PhoneApprovedLogin'
    BY <2>3, <2>4 DEF PhoneInv, PhoneApprovedLogin, Backed, Grown, PhoneIn
  <2> QED BY <1>2, <2>1, <2>2, <2>5 DEF PhoneInv
<1> QED BY <1>4, <1>6, <1>7, <1>8, <1>9, <1>10

LEMMA PhoneStays == ASSUME IInv, PhoneInv, [Next]_vars PROVE PhoneInv'
<1>0. Grown /\ TypeOK /\ RequestsOK /\ RequestsBacked
  BY ApprovalsGrow DEF IInv, PhoneInv
<1>1. ASSUME flow' = flow, outcome' = outcome, RequestsBacked' PROVE PhoneInv'
  BY <1>0, <1>1 DEF PhoneInv, FlowsBacked, PhoneApprovedLogin, Backed, Grown, PhoneIn
<1>2. req' = req => RequestsBacked'
  BY <1>0 DEF RequestsBacked, Backed, Grown
<1>3. ASSUME NEW r \in Requests, Handler(r) PROVE PhoneInv'
  BY <1>0, <1>1, <1>3, ComputingBacked, WritingBacked DEF Handler
<1>4. CASE Crash
  <2>1. Idle.seen.amr = {} /\ Idle.next.amr = {}
    BY DEF Idle, Absent, State
  <2>2. RequestsBacked'
    BY <1>4, <2>1 DEF Crash, RequestsBacked, Backed
  <2> QED BY <1>1, <1>4, <2>2 DEF Crash
<1>5. ASSUME NEW a \in Accounts, AccountChange(a) PROVE PhoneInv'
  BY <1>1, <1>2, <1>5 DEF AccountChange, Suspend, Reactivate, Reset, SetPassword, ChangeFactor,
     OpenLink, RevokeDevices, Arm, Disarm, OthersUnchanged
<1>6. ASSUME NEW i \in ApprovalIds, NEW verdict, SettleApproval(i, verdict) PROVE PhoneInv'
  BY <1>1, <1>2, <1>6 DEF SettleApproval
<1>7. CASE (\E u \in Uids : Resume(u)) \/ UNCHANGED vars
  BY <1>1, <1>2, <1>7 DEF Resume, vars
<1> QED BY <1>3, <1>4, <1>5, <1>6, <1>7 DEF Next

\* A login that claims the phone spent an approval of its own interaction that the phone had
\* approved, however requests overlap and flows are overwritten (approvals.ts, routes.ts).
THEOREM PhoneApprovals == Spec => []PhoneApprovedLogin
<1>1. Init => PhoneInv
  <2>1. Absent.amr = {} /\ Idle.seen.amr = {} /\ Idle.next.amr = {} /\ NoOutcome.amr = {}
    BY DEF Idle, Absent, State, NoOutcome
  <2> QED BY <2>1 DEF Init, PhoneInv, FlowsBacked, RequestsBacked, Backed, PhoneApprovedLogin
<1>2. IInv /\ PhoneInv /\ [Next]_vars => PhoneInv'
  BY PhoneStays
<1>3. PhoneInv => PhoneApprovedLogin
  BY DEF PhoneInv
<1> QED
  BY <1>1, <1>2, <1>3, InductiveInvariant, PTL DEF Spec
=============================================================================
