---------------------------- MODULE Guard_proofs ----------------------------
(***************************************************************************)
(* What holds of the proofs a person gives, for any browsers, apps and     *)
(* requests: a code is good once, a proof opens the session it was given   *)
(* in and no other, the sessions of an old password go, a held click runs  *)
(* once, and the throttle blocks nobody for longer than it may, nor lets   *)
(* the next guess in sooner.                                               *)
(*                                                                         *)
(* They are about handlers that write long after they have read.  What     *)
(* must be known is who is still to write what: a code read as new, a      *)
(* session that a change of the password has yet to list, has listed, or   *)
(* cannot see, a click that is held, sent or on its way, and how many      *)
(* requests are done, for each has counted one failure at most.            *)
(***************************************************************************)
EXTENDS Guard, FiniteSetTheorems, TLAPS

IsReq(q) == q = [pc |-> q.pc, op |-> q.op, from |-> q.from, saw |-> q.saw, when |-> q.when,
                 code |-> q.code, used |-> q.used, by |-> q.by, todo |-> q.todo]

ReqOK(q) ==
    /\ IsReq(q)
    /\ q.pc # "idle" => q.from \in Browsers
    /\ q.op \in {"signin", "factor"} => q.from \notin Native
    /\ q.todo \subseteq Browsers \ Native

Shapes ==
    /\ now \in Nat
    /\ DOMAIN req = Requests /\ \A r \in Requests : ReqOK(req[r])
    /\ DOMAIN session = Browsers /\ DOMAIN row = Browsers
    /\ \A b \in Browsers :
         /\ session[b] = [there |-> session[b].there, login |-> session[b].login,
                          by |-> session[b].by]
         /\ session[b].login \in Int
         /\ row[b] = [there |-> row[b].there, revoked |-> row[b].revoked,
                      steppedUpAt |-> row[b].steppedUpAt]
         /\ row[b].steppedUpAt \in Int
    /\ host = [pc |-> host.pc, uids |-> host.uids]
    /\ DOMAIN prompt = Browsers /\ DOMAIN proved = Browsers
    /\ DOMAIN acted = Browsers /\ DOMAIN clicked = Browsers

-----------------------------------------------------------------------------
(* The invariants. *)

\* A code on its way to be written was newer than what was read then; and as long
\* as nobody writes over what another has not read, nothing newer was accepted.
Codes ==
    /\ lastUsedStep \in Int /\ accepted \subseteq Int
    /\ \A r \in Requests : req[r].pc = "spend" =>
         req[r].code \in Int /\ req[r].used \in Int /\ req[r].used < req[r].code
    /\ (~crossed) => \A step \in accepted : step <= lastUsedStep

\* A click is with the prompt or with one request, and was not done before.
Doing(b) == {r \in Requests : req[r].pc = "act" /\ req[r].from = b}

Clicks ==
    \A b \in Browsers :
      /\ acted[b] \in Nat /\ clicked[b] \in Nat /\ acted[b] <= clicked[b]
      /\ prompt[b] # "none" => (acted[b] < clicked[b] /\ Doing(b) = {})
      /\ \A r \in Doing(b) : acted[b] < clicked[b] /\ Doing(b) = {r}

\* What the guard goes by is the last proof given in this session.
Proofs ==
    \A b \in Browsers :
      /\ proved[b] \in Int
      /\ session[b].login <= now
      /\ (session[b].there /\ (row[b].there \/ b \in Native)) => Freshest(b) = proved[b]

\* A session of an old password that is meant to go is seen by whoever is to end
\* it: a change that has yet to list, or has listed it, or the host.
Leaving(b) ==
    \E r \in Requests :
      \/ req[r].pc = "list" /\ req[r].from # b
      \/ req[r].pc = "end" /\ b \in req[r].todo

Passwords ==
    \A b \in Browsers \ Native : (session[b].there /\ b \notin missed) =>
      /\ row[b].there /\ ~row[b].revoked
      /\ host.pc = "write" => b \in host.uids
      /\ (session[b].by # password /\ b \notin kept) => Leaving(b)

-----------------------------------------------------------------------------
LEMMA ProvingShapes ==
    ASSUME Shapes, NEW r \in Requests, Proving(r) PROVE Shapes'
<1>1. /\ DOMAIN req' = Requests
      /\ \A s \in Requests : s # r => req'[s] = req[s]
  BY DEF Proving, Shapes, Check, CountRead, CountWrite, Clear, Verify, CodeRead, CodeWrite,
         To, On, Answer
<1>2. ReqOK(req'[r])
  <2>1. ReqOK(req[r])
    BY DEF Shapes
  <2>2. CASE Check(r)
    BY <2>1, <2>2 DEF Check, Answer, Shapes, ReqOK, IsReq, Idle, Going
  <2>3. CASE CountRead(r) \/ CountWrite(r)
    BY <2>1, <2>3 DEF CountRead, CountWrite, Answer, Shapes, ReqOK, IsReq, Idle, Going
  <2>4. CASE Clear(r)
    BY <2>1, <2>4 DEF Clear, To, Shapes, ReqOK, IsReq, ByCode
  <2>5. CASE Verify(r)
    BY <2>1, <2>5 DEF Verify, To, Shapes, ReqOK, IsReq, Going
  <2>6. CASE CodeRead(r)
    BY <2>1, <2>6 DEF CodeRead, To, Answer, Shapes, ReqOK, IsReq, Idle, Going
  <2>7. CASE CodeWrite(r)
    BY <2>1, <2>7 DEF CodeWrite, On, Shapes, ReqOK, IsReq, Idle, Going
  <2> QED BY <2>2, <2>4, <2>5, <2>6, <2>7, <2>3 DEF Proving
<1>3. UNCHANGED <<now, session, row, host, prompt, proved, acted, clicked>>
  BY DEF Proving, Check, CountRead, CountWrite, Clear, Verify, CodeRead, CodeWrite,
         stores, histories
<1> QED BY <1>1, <1>2, <1>3 DEF Shapes

LEMMA EffectsShapes ==
    ASSUME Shapes, NEW r \in Requests, Effects(r) PROVE Shapes'
<1>1. ReqOK(req[r])
  BY DEF Shapes
<1>2. /\ DOMAIN req' = Requests
      /\ \A s \in Requests : s # r => req'[s] = req[s]
  BY DEF Effects, Shapes, SignedIn, SteppedUp, Act, PasswordWrite, PasswordList, PasswordEnd,
         To, Answer
<1>3. ReqOK(req'[r])
  BY <1>1 DEF Effects, Shapes, SignedIn, SteppedUp, Act, PasswordWrite, PasswordList, PasswordEnd,
         To, Answer, ReqOK, IsReq, Idle, Going, Others
<1>4. now' = now /\ host' = host
  BY DEF Effects, SignedIn, SteppedUp, Act, PasswordWrite, PasswordList, PasswordEnd, stores
<1>5. /\ DOMAIN prompt' = Browsers /\ DOMAIN proved' = Browsers
      /\ DOMAIN acted' = Browsers /\ DOMAIN clicked' = Browsers
  BY DEF Effects, Shapes, SignedIn, SteppedUp, Act, PasswordWrite, PasswordList, PasswordEnd,
         stores, histories
<1>6. DOMAIN session' = Browsers /\ DOMAIN row' = Browsers
  BY DEF Effects, Shapes, SignedIn, SteppedUp, SteppedUpHere, Act, PasswordWrite, PasswordList,
         PasswordEnd, stores
<1>7. ASSUME NEW b \in Browsers
      PROVE  /\ session'[b] = [there |-> session'[b].there, login |-> session'[b].login,
                               by |-> session'[b].by]
             /\ session'[b].login \in Int
             /\ row'[b] = [there |-> row'[b].there, revoked |-> row'[b].revoked,
                           steppedUpAt |-> row'[b].steppedUpAt]
             /\ row'[b].steppedUpAt \in Int
  <2>1. CASE SignedIn(r)
    <3>1. CASE b = req[r].from
      <4>1. session'[b] = [there |-> TRUE, login |-> now, by |-> req[r].by]
        BY <2>1, <3>1 DEF Shapes, SignedIn
      <4>2. \E there \in BOOLEAN :
               row'[b] = [there |-> there, revoked |-> FALSE, steppedUpAt |-> Never]
        BY <2>1, <3>1 DEF Shapes, SignedIn
      <4> QED BY <4>1, <4>2 DEF Shapes, Never
    <3>2. CASE b # req[r].from
      <4>1. session'[b] = session[b] /\ row'[b] = row[b]
        BY <2>1, <3>2 DEF Shapes, SignedIn
      <4> QED BY <4>1 DEF Shapes
    <3> QED BY <3>1, <3>2
  <2>2. CASE SteppedUp(r)
    <3>1. session' = session
      BY <2>2 DEF SteppedUp
    <3>2. \/ row'[b] = row[b]
          \/ row'[b] = [there |-> TRUE, revoked |-> FALSE, steppedUpAt |-> now]
          \/ row'[b] = [row[b] EXCEPT !.steppedUpAt = now]
      BY <2>2 DEF Shapes, SteppedUp, SteppedUpHere
    <3> QED BY <3>1, <3>2 DEF Shapes
  <2>3. CASE PasswordEnd(r)
    <3>1. session'[b] = session[b] \/ session'[b] = NoSession
      BY <2>3 DEF Shapes, PasswordEnd
    <3>2. row'[b] = row[b] \/ row'[b] = [row[b] EXCEPT !.revoked = TRUE]
      BY <2>3 DEF Shapes, PasswordEnd
    <3> QED BY <3>1, <3>2 DEF Shapes, NoSession, Never
  <2>4. CASE Act(r) \/ PasswordWrite(r) \/ PasswordList(r)
    BY <2>4 DEF Shapes, Act, PasswordWrite, PasswordList, stores
  <2> QED BY <2>1, <2>2, <2>3, <2>4 DEF Effects
<1> QED BY <1>2, <1>3, <1>4, <1>5, <1>6, <1>7 DEF Shapes

LEMMA AskingShapes ==
    ASSUME Shapes, NEW r \in Requests, NEW b \in Browsers, Asking(r, b) PROVE Shapes'
<1>1. UNCHANGED <<now, session, row, host, proved, acted>>
  BY DEF Asking, SignIn, ChangePassword, Click, Retry, Prove, stores, histories
<1>2. DOMAIN prompt' = Browsers /\ DOMAIN clicked' = Browsers
  BY DEF Asking, SignIn, ChangePassword, Click, Retry, Prove, Ask, Held, Shapes, histories
<1>3. /\ DOMAIN req' = Requests
      /\ \A s \in Requests : s # r => req'[s] = req[s]
  BY DEF Asking, SignIn, ChangePassword, Click, Retry, Prove, Proof, Ask, Shapes
<1>4. ReqOK(req'[r])
  BY DEF Asking, SignIn, ChangePassword, Click, Retry, Prove, Proof, Ask, Shapes, ReqOK, IsReq, Idle, Going
<1> QED BY <1>1, <1>2, <1>3, <1>4 DEF Shapes

LEMMA OthersShapes ==
    ASSUME Shapes,
           \/ Tick \/ HostRead \/ HostWrite \/ HostTokens \/ UNCHANGED vars
           \/ \E b \in Browsers : TryAgain(b) \/ NotNow(b)
    PROVE  Shapes'
<1>1. CASE Tick \/ UNCHANGED vars
  BY <1>1 DEF Tick, vars, stores, histories, Shapes, ReqOK, IsReq
<1>2. CASE \E b \in Browsers : TryAgain(b) \/ NotNow(b)
  BY <1>2 DEF TryAgain, NotNow, stores, histories, Shapes, ReqOK, IsReq
<1>3. CASE HostRead \/ HostWrite \/ HostTokens
  <2>1. UNCHANGED <<now, req, prompt, proved, acted, clicked>>
    BY <1>3 DEF HostRead, HostWrite, HostTokens, histories
  <2>2. host' = [pc |-> host'.pc, uids |-> host'.uids]
    BY <1>3 DEF HostRead, HostWrite, HostTokens, Shapes
  <2>3. DOMAIN session' = Browsers /\ DOMAIN row' = Browsers
    BY <1>3 DEF HostRead, HostWrite, HostTokens, Shapes, stores
  <2>4. ASSUME NEW b \in Browsers
        PROVE  /\ session'[b] = [there |-> session'[b].there, login |-> session'[b].login,
                                 by |-> session'[b].by]
               /\ session'[b].login \in Int
               /\ row'[b] = [there |-> row'[b].there, revoked |-> row'[b].revoked,
                             steppedUpAt |-> row'[b].steppedUpAt]
               /\ row'[b].steppedUpAt \in Int
    BY <1>3 DEF HostRead, HostWrite, HostTokens, Shapes, stores, NoSession, Never
  <2> QED BY <2>1, <2>2, <2>3, <2>4 DEF Shapes, ReqOK, IsReq
<1> QED BY <1>1, <1>2, <1>3

\* The shapes of what is kept, which the rest takes for granted.
THEOREM ShapesAlways == Spec => []Shapes
<1>1. Init => Shapes
  <2> SUFFICES ASSUME Init PROVE Shapes
    OBVIOUS
  <2>1. \A r \in Requests : ReqOK(req[r])
    BY DEF Init, ReqOK, IsReq, Idle, Going
  <2>2. \A b \in Browsers :
           /\ session[b] = [there |-> session[b].there, login |-> session[b].login,
                            by |-> session[b].by]
           /\ session[b].login \in Int
    BY DEF Init, Never
  <2>3. \A b \in Browsers :
           /\ row[b] = [there |-> row[b].there, revoked |-> row[b].revoked,
                        steppedUpAt |-> row[b].steppedUpAt]
           /\ row[b].steppedUpAt \in Int
    BY DEF Init, NoRow, Never
  <2> QED BY <2>1, <2>2, <2>3 DEF Init, Shapes
<1>2. Shapes /\ [Next]_vars => Shapes'
  <2> SUFFICES ASSUME Shapes, [Next]_vars PROVE Shapes'
    OBVIOUS
  <2>1. ASSUME NEW r \in Requests, Proving(r) \/ Effects(r) \/ \E b \in Browsers : Asking(r, b)
        PROVE  Shapes'
    BY <2>1, ProvingShapes, EffectsShapes, AskingShapes
  <2>2. CASE \/ Tick \/ HostRead \/ HostWrite \/ HostTokens \/ UNCHANGED vars
             \/ \E b \in Browsers : TryAgain(b) \/ NotNow(b)
    BY <2>2, OthersShapes
  <2> QED BY <2>1, <2>2 DEF Next
<1> QED BY <1>1, <1>2, PTL DEF Spec

-----------------------------------------------------------------------------
(* Codes and clicks. *)

\* A step of one request leaves the others' alone.
LEMMA OneAtATime ==
    ASSUME Shapes, NEW r \in Requests, Proving(r) \/ Effects(r) \/ \E b \in Browsers : Asking(r, b)
    PROVE  \A s \in Requests : s # r => req'[s] = req[s]
<1>1. CASE Proving(r)
  BY <1>1 DEF Proving, Shapes, Check, CountRead, CountWrite, Clear, Verify, CodeRead, CodeWrite,
              To, On, Answer
<1>2. CASE Effects(r)
  BY <1>2 DEF Effects, Shapes, SignedIn, SteppedUp, Act, PasswordWrite, PasswordList, PasswordEnd,
              To, Answer
<1>3. CASE \E b \in Browsers : Asking(r, b)
  BY <1>3 DEF Asking, SignIn, ChangePassword, Click, Retry, Prove, Proof, Ask, Shapes
<1> QED BY <1>1, <1>2, <1>3

\* Only a code that was read as new is on its way to be written.
LEMMA ToSpend ==
    ASSUME Shapes, NEW r \in Requests, req'[r].pc = "spend", ~CodeRead(r),
           Proving(r) \/ Effects(r) \/ \E b \in Browsers : Asking(r, b)
    PROVE  FALSE
<1>1. CASE Check(r) \/ CountRead(r) \/ CountWrite(r)
  BY <1>1 DEF Check, CountRead, CountWrite, Answer, Shapes, ReqOK, IsReq, Idle, Going
<1>2. CASE Clear(r) \/ Verify(r) \/ CodeWrite(r)
  BY <1>2 DEF Clear, Verify, CodeWrite, To, On, Shapes, ReqOK, IsReq, Going
<1>3. CASE Effects(r)
  BY <1>3 DEF Effects, Shapes, ReqOK, IsReq, SignedIn, SteppedUp, Act, PasswordWrite, PasswordList, PasswordEnd,
              To, Answer, Idle, Going
<1>4. CASE \E b \in Browsers : Asking(r, b)
  BY <1>4 DEF Asking, SignIn, ChangePassword, Click, Retry, Prove, Starting, Proof, Ask, Shapes, ReqOK, IsReq, Going
<1> QED BY <1>1, <1>2, <1>3, <1>4 DEF Proving

\* Nothing else is done by a request with a code to write than to write it.
LEMMA SpendsOnly ==
    ASSUME NEW r \in Requests, req[r].pc = "spend",
           Proving(r) \/ Effects(r) \/ \E b \in Browsers : Asking(r, b)
    PROVE  CodeWrite(r)
BY DEF Proving, Check, CountRead, CountWrite, Clear, Verify, CodeRead,
       Effects, SignedIn, SteppedUp, Act, PasswordWrite, PasswordList, PasswordEnd,
       Asking, SignIn, ChangePassword, Click, Retry, Prove, Starting

SpentOnce ==
    \A r \in Requests : req[r].pc = "spend" /\ req'[r].pc # "spend" /\ ~crossed'
      => req[r].code \notin accepted

LEMMA CodesStep ==
    ASSUME Shapes, Codes, [Next]_vars PROVE Codes' /\ SpentOnce
<1>1. ASSUME NEW r \in Requests, Proving(r) \/ Effects(r) \/ \E b \in Browsers : Asking(r, b)
      PROVE  Codes' /\ SpentOnce
  <2>1. \A s \in Requests : s # r => req'[s] = req[s]
    BY <1>1, OneAtATime
  <2>2. CASE CodeWrite(r)
    <3>1. req'[r].pc # "spend"
      BY <2>2 DEF CodeWrite, On, Going, Shapes
    <3>2. lastUsedStep' = req[r].code /\ accepted' = accepted \cup {req[r].code}
      BY <2>2 DEF CodeWrite
    <3>3. ~crossed' => ~crossed /\ lastUsedStep = req[r].used
      BY <2>2 DEF CodeWrite
    <3>4. req[r].code \in Int /\ req[r].used \in Int /\ req[r].used < req[r].code
      BY <2>2 DEF CodeWrite, Codes
    <3>5. ASSUME ~crossed', NEW step \in accepted PROVE step \in Int /\ step < req[r].code
      <4>1. step \in Int /\ step <= lastUsedStep
        BY <3>3, <3>5 DEF Codes
      <4> QED BY <3>3, <3>4, <3>5, <4>1
    <3>6. \A s \in Requests : req'[s].pc = "spend" =>
             s # r /\ req[s].pc = "spend" /\ req'[s] = req[s]
      BY <2>1, <3>1
    <3>7. SpentOnce
      BY <3>5, <3>4, <2>1 DEF SpentOnce
    <3>8. Codes'
      <4>1. lastUsedStep' \in Int /\ accepted' \subseteq Int
        BY <3>2, <3>4 DEF Codes
      <4>2. ~crossed' => \A step \in accepted' : step <= lastUsedStep'
        BY <3>2, <3>4, <3>5
      <4>3. \A s \in Requests : req'[s].pc = "spend" =>
               req'[s].code \in Int /\ req'[s].used \in Int /\ req'[s].used < req'[s].code
        BY <3>6 DEF Codes
      <4> QED BY <4>1, <4>2, <4>3 DEF Codes
    <3> QED BY <3>7, <3>8
  <2>3. CASE ~CodeWrite(r)
    <3>1. UNCHANGED <<lastUsedStep, accepted, crossed>>
      BY <1>1, <2>3 DEF Proving, Check, CountRead, CountWrite, Clear, Verify, CodeRead,
             Effects, SignedIn, SteppedUp, Act, PasswordWrite, PasswordList, PasswordEnd,
             Asking, SignIn, ChangePassword, Click, Retry, Prove, stores, histories
    <3>2. req[r].pc # "spend"
      BY <1>1, <2>3, SpendsOnly
    <3>3. req'[r].pc = "spend" =>
             req'[r].code \in Int /\ req'[r].used \in Int /\ req'[r].used < req'[r].code
      <4> SUFFICES ASSUME req'[r].pc = "spend"
                   PROVE  req'[r].code \in Int /\ req'[r].used \in Int /\ req'[r].used < req'[r].code
        OBVIOUS
      <4>1. CodeRead(r)
        BY <1>1, ToSpend
      <4>2. PICK step \in 0..MaxTime :
               \/ /\ ~Replay(step)
                  /\ req' = [req EXCEPT ![r].pc = "spend", ![r].code = step, ![r].used = lastUsedStep]
               \/ To(r, "count") \/ Answer(r)
        BY <4>1 DEF CodeRead, To, Answer
      <4>3. /\ ~Replay(step)
            /\ req' = [req EXCEPT ![r].pc = "spend", ![r].code = step, ![r].used = lastUsedStep]
        BY <4>2 DEF To, Answer, Idle, Going, Shapes, ReqOK, IsReq
      <4>4. req'[r].code = step /\ req'[r].used = lastUsedStep
        BY <4>3 DEF Shapes, ReqOK, IsReq
      <4> QED BY <4>3, <4>4, GuardAssumption DEF Replay, Codes
    <3> QED BY <2>1, <3>1, <3>2, <3>3 DEF Codes, SpentOnce
  <2> QED BY <2>2, <2>3
<1>2. ASSUME UNCHANGED <<lastUsedStep, accepted, crossed, req>>
      PROVE  Codes' /\ SpentOnce
  BY <1>2 DEF Codes, SpentOnce
<1>3. CASE \/ Tick \/ HostRead \/ HostWrite \/ HostTokens \/ UNCHANGED vars
           \/ \E b \in Browsers : TryAgain(b) \/ NotNow(b)
  BY <1>2, <1>3 DEF Tick, HostRead, HostWrite, HostTokens, TryAgain, NotNow, vars, stores, histories
<1> QED BY <1>1, <1>3 DEF Next

\* CodeSpentOnce (totp.ts): with no two checks of a code overlapping, no code is
\* accepted twice, by any requests of any browsers and apps.
THEOREM CodesAreGoodOnce == Spec => CodeSpentOnce
<1>1. Init => Codes
  BY DEF Init, Codes, Idle, Going, Never
<1>2. Shapes /\ Codes /\ [Next]_vars => Codes' /\ SpentOnce
  BY CodesStep
<1> QED BY <1>1, <1>2, ShapesAlways, PTL DEF Spec, CodeSpentOnce, SpentOnce

\* Nothing is on its way to be done but what the guard has let through now.
LEMMA ToAct ==
    ASSUME Shapes, NEW r \in Requests, req'[r].pc = "act",
           Proving(r) \/ Effects(r) \/ \E b \in Browsers : SignIn(r, b) \/ ChangePassword(r, b) \/ Prove(r, b)
    PROVE  FALSE
<1>1. CASE Check(r) \/ CountRead(r) \/ CountWrite(r)
  BY <1>1 DEF Check, CountRead, CountWrite, Answer, Shapes, ReqOK, IsReq, Idle, Going
<1>2. CASE Clear(r) \/ Verify(r) \/ CodeWrite(r)
  BY <1>2 DEF Clear, Verify, CodeWrite, To, On, Shapes, ReqOK, IsReq, Going
<1>3. CASE CodeRead(r)
  BY <1>3 DEF CodeRead, To, Answer, Shapes, ReqOK, IsReq, Idle, Going
<1>4. CASE Effects(r)
  BY <1>4 DEF Effects, Shapes, ReqOK, IsReq, SignedIn, SteppedUp, Act, PasswordWrite, PasswordList,
              PasswordEnd, To, Answer, Idle, Going
<1>5. CASE \E b \in Browsers : SignIn(r, b) \/ ChangePassword(r, b) \/ Prove(r, b)
  BY <1>5 DEF SignIn, ChangePassword, Prove, Proof, Shapes, Going
<1> QED BY <1>1, <1>2, <1>3, <1>4, <1>5 DEF Proving

\* A click that is asked or asked again, where none was on its way.
LEMMA AskClicks ==
    ASSUME Shapes, NEW r \in Requests, NEW b \in Browsers, Ask(r, b), req[r].pc = "idle",
           Doing(b) = {}, acted' = acted,
           \A c \in Browsers : acted[c] \in Nat /\ clicked'[c] \in Nat /\ acted[c] <= clicked'[c],
           acted[b] < clicked'[b],
           \A c \in Browsers \ {b} :
             /\ prompt[c] # "none" => (acted[c] < clicked'[c] /\ Doing(c) = {})
             /\ \A s \in Doing(c) : acted[c] < clicked'[c] /\ Doing(c) = {s}
    PROVE  Clicks'
<1>1. \A c \in Browsers : c # b => prompt'[c] = prompt[c]
  BY DEF Ask, Held, Shapes
<1>2. \A s \in Requests : s # r => req'[s] = req[s]
  BY DEF Ask, Shapes
<1>3. \/ req' = req
      \/ req'[r].pc = "act" /\ req'[r].from = b /\ prompt'[b] = "none"
  BY DEF Ask, Shapes, Going
<1>4. ASSUME NEW c \in Browsers, c # b PROVE Doing(c)' = Doing(c)
  BY <1>2, <1>3, <1>4 DEF Doing
<1>5. \/ Doing(b)' = {}
      \/ Doing(b)' = {r} /\ prompt'[b] = "none"
  BY <1>2, <1>3 DEF Doing
<1> QED BY <1>1, <1>4, <1>5 DEF Clicks

LEMMA ClicksStep ==
    ASSUME Shapes, Clicks, [Next]_vars PROVE Clicks'
<1>1. ASSUME NEW r \in Requests, Proving(r) \/ Effects(r) \/ \E b \in Browsers : Asking(r, b)
      PROVE  Clicks'
  <2>1. \A s \in Requests : s # r => req'[s] = req[s]
    BY <1>1, OneAtATime
  <2>2. CASE Act(r)
    <3>1. PICK b \in Browsers : b = req[r].from
      BY <2>2 DEF Act, Shapes, ReqOK
    <3>2. r \in Doing(b)
      BY <2>2, <3>1 DEF Act, Doing
    <3>3. acted' = [acted EXCEPT ![b] = @ + 1] /\ clicked' = clicked /\ prompt' = prompt
      BY <2>2, <3>1 DEF Act
    <3>4. req'[r].pc # "act"
      BY <2>2 DEF Act, Answer, Idle, Going, Shapes
    <3>5. Doing(b)' = {}
      BY <2>1, <3>2, <3>4 DEF Doing, Clicks
    <3>6. \A c \in Browsers : c # b => Doing(c)' = Doing(c)
      <4>1. \A s \in Requests : s = r => req[s].from = b /\ req'[s].pc # "act"
        BY <3>1, <3>4
      <4> QED BY <2>1, <4>1 DEF Doing
    <3>7. acted[b] < clicked[b] /\ prompt[b] = "none" /\ acted'[b] = acted[b] + 1
      BY <3>2, <3>3 DEF Clicks, Shapes
    <3>8. \A c \in Browsers : c # b => acted'[c] = acted[c]
      BY <3>3 DEF Shapes
    <3>9. ASSUME NEW c \in Browsers, c # b
          PROVE  /\ acted'[c] = acted[c] /\ clicked'[c] = clicked[c] /\ prompt'[c] = prompt[c]
                 /\ Doing(c)' = Doing(c)
      BY <3>3, <3>6, <3>8, <3>9
    <3>10. acted'[b] \in Nat /\ acted'[b] <= clicked'[b] /\ clicked'[b] \in Nat /\ prompt'[b] = "none"
      BY <3>2, <3>3, <3>7 DEF Clicks
    <3> QED BY <3>2, <3>5, <3>9, <3>10 DEF Clicks
  <2>3. CASE SteppedUp(r)
    <3>1. UNCHANGED <<acted, clicked>>
      BY <2>3 DEF SteppedUp
    <3>2. \A b \in Browsers : prompt'[b] # "none" => prompt[b] # "none"
      <4> SUFFICES ASSUME NEW b \in Browsers, prompt'[b] # "none", prompt[b] = "none" PROVE FALSE
        OBVIOUS
      <4>1. CASE b = req[r].from
        BY <2>3, <4>1 DEF SteppedUp, Shapes
      <4>2. CASE b # req[r].from
        BY <2>3, <4>2 DEF SteppedUp, Shapes
      <4> QED BY <4>1, <4>2
    <3>3. req[r].pc # "act" /\ req'[r].pc # "act"
      BY <2>3 DEF SteppedUp, Answer, Idle, Going, Shapes
    <3>4. \A b \in Browsers : Doing(b)' = Doing(b)
      BY <2>1, <3>3 DEF Doing
    <3> QED BY <3>1, <3>2, <3>4 DEF Clicks
  <2>4. ASSUME NEW b \in Browsers, Click(r, b) PROVE Clicks'
    <3>1. Ask(r, b) /\ req[r].pc = "idle" /\ acted' = acted
      BY <2>4 DEF Click
    <3>2. \A c \in Browsers : clicked[c] = 0 /\ acted[c] = 0 /\ prompt[c] = "none" /\ Doing(c) = {}
      BY <2>4 DEF Click, Clicks
    <3>3. clicked'[b] = 1 /\ \A c \in Browsers : c # b => clicked'[c] = 0
      BY <2>4, <3>2 DEF Click, Shapes
    <3> QED BY <3>1, <3>2, <3>3, AskClicks
  <2>5. ASSUME NEW b \in Browsers, Retry(r, b) PROVE Clicks'
    <3>1. Ask(r, b) /\ req[r].pc = "idle" /\ UNCHANGED <<acted, clicked>>
      BY <2>5 DEF Retry, histories
    <3>2. acted[b] < clicked[b] /\ Doing(b) = {}
      BY <2>5 DEF Retry, Clicks
    <3> QED BY <3>1, <3>2, AskClicks DEF Clicks
  <2>6. ASSUME NEW b \in Browsers, Prove(r, b) PROVE Clicks'
    <3>1. UNCHANGED <<acted, clicked>>
      BY <2>6 DEF Prove, histories
    <3>2. \A c \in Browsers : prompt'[c] # "none" => prompt[c] # "none"
      BY <2>6 DEF Prove, Shapes
    <3>3. req[r].pc # "act" /\ req'[r].pc # "act"
      BY <2>6, ToAct DEF Prove, Starting
    <3>4. \A c \in Browsers : Doing(c)' = Doing(c)
      BY <2>1, <3>3 DEF Doing
    <3> QED BY <3>1, <3>2, <3>4 DEF Clicks
  <2>7. CASE ~Act(r) /\ ~SteppedUp(r)
             /\ (Proving(r) \/ Effects(r) \/ \E b \in Browsers : SignIn(r, b) \/ ChangePassword(r, b))
    <3>1. UNCHANGED <<acted, clicked, prompt>>
      BY <2>7 DEF Proving, Check, CountRead, CountWrite, Clear, Verify, CodeRead, CodeWrite,
             Effects, SignedIn, PasswordWrite, PasswordList, PasswordEnd,
             SignIn, ChangePassword, histories
    <3>2. req[r].pc # "act"
      BY <2>7 DEF Proving, Check, CountRead, CountWrite, Clear, Verify, CodeRead, CodeWrite,
             Effects, SignedIn, PasswordWrite, PasswordList, PasswordEnd,
             SignIn, ChangePassword, Starting
    <3>3. req'[r].pc # "act"
      BY <2>7, ToAct
    <3>4. \A c \in Browsers : Doing(c)' = Doing(c)
      BY <2>1, <3>2, <3>3 DEF Doing
    <3> QED BY <3>1, <3>4 DEF Clicks
  <2> QED BY <1>1, <2>2, <2>3, <2>4, <2>5, <2>6, <2>7 DEF Asking
<1>2. ASSUME NEW b \in Browsers, TryAgain(b) \/ NotNow(b) PROVE Clicks'
  <2>1. UNCHANGED <<acted, clicked, req>>
    BY <1>2 DEF TryAgain, NotNow, histories
  <2>2. \A c \in Browsers : prompt'[c] # "none" => prompt[c] # "none"
    BY <1>2 DEF TryAgain, NotNow, Shapes
  <2> QED BY <2>1, <2>2 DEF Clicks, Doing
<1>3. CASE Tick \/ HostRead \/ HostWrite \/ HostTokens \/ UNCHANGED vars
  <2>1. UNCHANGED <<acted, clicked, prompt, req>>
    BY <1>3 DEF Tick, HostRead, HostWrite, HostTokens, vars, histories
  <2> QED BY <2>1 DEF Clicks, Doing
<1> QED BY <1>1, <1>2, <1>3 DEF Next

\* DoneOnce (StepUp.tsx): a click that was held while the person proved themselves is
\* done at most as often as it was made, however the proofs and the prompt go.
THEOREM ClicksAreDoneOnce == Spec => []DoneOnce
<1>1. Init => Clicks
  BY DEF Init, Clicks, Doing, Idle, Going
<1>2. Shapes /\ Clicks /\ [Next]_vars => Clicks'
  BY ClicksStep
<1>3. Clicks => DoneOnce
  BY DEF Clicks, DoneOnce
<1> QED BY <1>1, <1>2, <1>3, ShapesAlways, PTL DEF Spec

-----------------------------------------------------------------------------
(* Proofs, and the sessions of an old password. *)

\* A row or a session that is ended keeps what a guard would go by.
LEMMA EndedFreshness ==
    ASSUME Shapes, Proofs, NEW b \in Browsers, now' = now, proved' = proved,
           session'[b] = session[b] \/ session'[b] = NoSession,
           row'[b] = row[b] \/ row'[b] = [row[b] EXCEPT !.revoked = TRUE]
    PROVE  /\ proved'[b] \in Int
           /\ session'[b].login <= now'
           /\ (session'[b].there /\ (row'[b].there \/ b \in Native)) => Freshest(b)' = proved'[b]
<1>1. proved'[b] \in Int
  BY DEF Proofs
<1>2. CASE session'[b] = NoSession
  BY <1>1, <1>2 DEF NoSession, Never, Shapes
<1>3. CASE session'[b] = session[b]
  <2>1. row'[b].there = row[b].there /\ row'[b].steppedUpAt = row[b].steppedUpAt
    BY DEF Shapes
  <2> QED BY <1>1, <1>3, <2>1 DEF Proofs, Freshest
<1> QED BY <1>2, <1>3

LEMMA ProofsStep ==
    ASSUME Shapes, Proofs, [Next]_vars PROVE Proofs'
<1>1. ASSUME NEW r \in Requests, SignedIn(r) PROVE Proofs'
  <2>1. PICK b \in Browsers : b = req[r].from
    BY <1>1 DEF SignedIn, Shapes, ReqOK
  <2>2. b \notin Native /\ now' = now
    BY <1>1, <2>1 DEF SignedIn, Shapes, ReqOK
  <2>3. session'[b] = [there |-> TRUE, login |-> now, by |-> req[r].by] /\ proved'[b] = now
    BY <1>1, <2>1 DEF SignedIn, Shapes
  <2>4. \E there \in BOOLEAN :
           row'[b] = [there |-> there, revoked |-> FALSE, steppedUpAt |-> Never]
    BY <1>1, <2>1 DEF SignedIn, Shapes
  <2>5. Freshest(b)' = now
    BY <2>2, <2>3, <2>4 DEF Freshest, Never, Shapes
  <2>6. \A c \in Browsers : c # b =>
           session'[c] = session[c] /\ row'[c] = row[c] /\ proved'[c] = proved[c]
    BY <1>1, <2>1 DEF SignedIn, Shapes
  <2>7. \A c \in Browsers : c # b => Freshest(c)' = Freshest(c)
    BY <2>6 DEF Freshest
  <2> QED BY <2>2, <2>3, <2>5, <2>6, <2>7 DEF Proofs, Shapes
<1>2. ASSUME NEW r \in Requests, SteppedUp(r) PROVE Proofs'
  <2>1. PICK b \in Browsers : b = req[r].from
    BY <1>2 DEF SteppedUp, Shapes, ReqOK
  <2>2. now' = now /\ session' = session /\ proved'[b] = now
    BY <1>2, <2>1 DEF SteppedUp, Shapes
  <2>3. \/ row'[b].there /\ row'[b].steppedUpAt = now
        \/ ~row'[b].there /\ b \notin Native
    <3>1. CASE b \in Native
      BY <1>2, <2>1, <3>1 DEF SteppedUp, SteppedUpHere, Shapes
    <3>2. CASE b \notin Native /\ row[b].there
      BY <1>2, <2>1, <3>2 DEF SteppedUp, SteppedUpHere, Shapes
    <3>3. CASE b \notin Native /\ ~row[b].there
      BY <1>2, <2>1, <3>3 DEF SteppedUp, SteppedUpHere, Shapes
    <3> QED BY <3>1, <3>2, <3>3
  <2>4. (row'[b].there \/ b \in Native) => Freshest(b)' = now
    BY <2>2, <2>3 DEF Freshest, Never, Proofs, Shapes
  <2>5. \A c \in Browsers : c # b => row'[c] = row[c] /\ proved'[c] = proved[c]
    BY <1>2, <2>1 DEF SteppedUp, SteppedUpHere, Shapes
  <2>6. \A c \in Browsers : c # b => Freshest(c)' = Freshest(c)
    BY <2>2, <2>5 DEF Freshest
  <2> QED BY <2>2, <2>4, <2>5, <2>6 DEF Proofs, Shapes
<1>3. CASE (\E r \in Requests : PasswordEnd(r)) \/ HostWrite \/ HostTokens
  <2>1. now' = now /\ proved' = proved
    BY <1>3 DEF PasswordEnd, HostWrite, HostTokens, histories
  <2>2. ASSUME NEW b \in Browsers
        PROVE  /\ session'[b] = session[b] \/ session'[b] = NoSession
               /\ row'[b] = row[b] \/ row'[b] = [row[b] EXCEPT !.revoked = TRUE]
    BY <1>3 DEF PasswordEnd, HostWrite, HostTokens, Shapes
  <2> QED BY <2>1, <2>2, EndedFreshness DEF Proofs
<1>4. CASE Tick
  <2>1. UNCHANGED <<session, row, proved>> /\ now' = now + 1
    BY <1>4 DEF Tick, stores, histories
  <2> QED BY <2>1 DEF Proofs, Freshest, Shapes
<1>5. ASSUME UNCHANGED <<now, session, row, proved>> PROVE Proofs'
  BY <1>5 DEF Proofs, Freshest
<1>6. ASSUME NEW r \in Requests,
             Proving(r) \/ Act(r) \/ PasswordWrite(r) \/ PasswordList(r)
               \/ \E b \in Browsers : Asking(r, b)
      PROVE  UNCHANGED <<now, session, row, proved>>
  BY <1>6 DEF Proving, Check, CountRead, CountWrite, Clear, Verify, CodeRead, CodeWrite,
         Act, PasswordWrite, PasswordList, Asking, SignIn, ChangePassword, Click, Retry, Prove,
         stores, histories
<1>7. CASE HostRead \/ UNCHANGED vars \/ \E b \in Browsers : TryAgain(b) \/ NotNow(b)
  BY <1>5, <1>7 DEF HostRead, TryAgain, NotNow, vars, stores, histories
<1> QED BY <1>1, <1>2, <1>3, <1>4, <1>5, <1>6, <1>7 DEF Next, Effects

\* FreshIffProved (console/auth.ts): the guard lets a session through exactly while the
\* last proof given in it is recent enough: no proof of another session counts.
THEOREM ProofsStayHome == Spec => []FreshIffProved
<1>1. Init => Proofs
  <2> SUFFICES ASSUME Init, NEW b \in Browsers
               PROVE  /\ proved[b] \in Int
                      /\ session[b].login <= now
                      /\ (session[b].there /\ (row[b].there \/ b \in Native)) => Freshest(b) = proved[b]
    BY DEF Proofs
  <2>1. session[b].there = (b \in Native) /\ session[b].login = Never /\ proved[b] = Never /\ now = 0
    BY DEF Init
  <2>2. row[b].there = FALSE
    BY DEF Init, NoRow
  <2> QED BY <2>1, <2>2 DEF Freshest, Never
<1>2. Shapes /\ Proofs /\ [Next]_vars => Proofs'
  BY ProofsStep
<1>3. Proofs => FreshIffProved
  BY DEF Proofs, FreshIffProved, Fresh
<1> QED BY <1>1, <1>2, <1>3, ShapesAlways, PTL DEF Spec

\* Who is to end a session goes on being there while nobody lists or ends.
LEMMA LeavingStays ==
    ASSUME NEW r \in Requests, \A s \in Requests : s # r => req'[s] = req[s],
           req[r].pc \notin {"list", "end"}, NEW b \in Browsers, Leaving(b)
    PROVE  Leaving(b)'
BY DEF Leaving

LEMMA PasswordsStep ==
    ASSUME Shapes, Passwords, [Next]_vars PROVE Passwords'
<1>1. ASSUME NEW r \in Requests, SignedIn(r) PROVE Passwords'
  <2>1. PICK b \in Browsers : b = req[r].from /\ b \notin Native
    BY <1>1 DEF SignedIn, Shapes, ReqOK
  <2>2. UNCHANGED <<password, host>> /\ kept' = kept \ {b}
    BY <1>1, <2>1 DEF SignedIn
  <2>3. PICK there \in BOOLEAN :
           /\ row'[b] = [there |-> there, revoked |-> FALSE, steppedUpAt |-> Never]
           /\ missed' = IF there /\ req[r].by = password /\ host.pc # "write" THEN missed \ {b}
                        ELSE missed \cup {b}
    BY <1>1, <2>1 DEF SignedIn, Shapes
  <2>4. session'[b] = [there |-> TRUE, login |-> now, by |-> req[r].by]
    BY <1>1, <2>1 DEF SignedIn, Shapes
  <2>5. \A c \in Browsers : c # b => session'[c] = session[c] /\ row'[c] = row[c]
    BY <1>1, <2>1 DEF SignedIn, Shapes
  <2>6. \A c \in Browsers : Leaving(c) => Leaving(c)'
    BY <1>1, OneAtATime, LeavingStays DEF SignedIn, Effects
  <2>7. b \notin missed' => row'[b].there /\ ~row'[b].revoked /\ host'.pc # "write" /\ session'[b].by = password'
    BY <2>2, <2>3, <2>4
  <2>8. \A c \in Browsers : c # b => (c \in missed' <=> c \in missed) /\ (c \in kept' <=> c \in kept)
    BY <2>2, <2>3
  <2> QED BY <2>2, <2>5, <2>6, <2>7, <2>8 DEF Passwords
<1>2. ASSUME NEW r \in Requests, SteppedUp(r) PROVE Passwords'
  <2>1. UNCHANGED <<password, host, session, kept, missed>>
    BY <1>2 DEF SteppedUp
  <2>2. ASSUME NEW c \in Browsers \ Native
        PROVE  row'[c].there = row[c].there /\ row'[c].revoked = row[c].revoked
    <3>1. CASE c = req[r].from /\ row[c].there
      <4>1. row' = [row EXCEPT ![c].steppedUpAt = now]
        BY <1>2, <3>1 DEF SteppedUp, SteppedUpHere
      <4> QED BY <4>1 DEF Shapes
    <3>2. CASE c # req[r].from \/ ~row[c].there
      <4>1. row'[c] = row[c]
        BY <1>2, <3>2 DEF SteppedUp, SteppedUpHere, Shapes
      <4> QED BY <4>1
    <3> QED BY <3>1, <3>2
  <2>3. \A c \in Browsers : Leaving(c) => Leaving(c)'
    BY <1>2, OneAtATime, LeavingStays DEF SteppedUp, Effects
  <2> QED BY <2>1, <2>2, <2>3 DEF Passwords
<1>3. ASSUME NEW r \in Requests, PasswordWrite(r) PROVE Passwords'
  <2>1. PICK b \in Browsers : b = req[r].from
    BY <1>3 DEF PasswordWrite, Shapes, ReqOK
  <2>2. UNCHANGED <<host, session, row, missed>>
    BY <1>3 DEF PasswordWrite
  <2>3. b \notin Native => b \in kept'
    BY <1>3, <2>1 DEF PasswordWrite
  <2>4. req'[r].pc = "list" /\ req'[r].from = b
    BY <1>3, <2>1 DEF PasswordWrite, To, Shapes, ReqOK, IsReq
  <2>5. \A c \in Browsers : c # b => Leaving(c)'
    BY <2>4 DEF Leaving
  <2> QED BY <2>2, <2>3, <2>5 DEF Passwords
<1>4. ASSUME NEW r \in Requests, PasswordList(r) PROVE Passwords'
  <2>1. UNCHANGED <<password, host, session, row, kept, missed>>
    BY <1>4 DEF PasswordList, stores, histories
  <2>2. req'[r].pc = "end" /\ req'[r].todo = Others(req[r].from) /\ req[r].pc = "list"
    BY <1>4 DEF PasswordList, Shapes, ReqOK, IsReq
  <2>3. \A s \in Requests : s # r => req'[s] = req[s]
    BY <1>4, OneAtATime DEF Effects
  <2>4. ASSUME NEW c \in Browsers \ Native, Leaving(c), row[c].there, ~row[c].revoked
        PROVE  Leaving(c)'
    <3>1. PICK s \in Requests : \/ req[s].pc = "list" /\ req[s].from # c
                                \/ req[s].pc = "end" /\ c \in req[s].todo
      BY <2>4 DEF Leaving
    <3>2. CASE s # r
      BY <2>3, <3>1, <3>2 DEF Leaving
    <3>3. CASE s = r
      <4>1. c \in req'[r].todo
        BY <2>2, <2>4, <3>1, <3>3 DEF Others
      <4> QED BY <2>2, <4>1 DEF Leaving
    <3> QED BY <3>2, <3>3
  <2> QED BY <2>1, <2>4 DEF Passwords
<1>5. ASSUME NEW r \in Requests, PasswordEnd(r) PROVE Passwords'
  <2>1. UNCHANGED <<password, host, kept, missed>>
    BY <1>5 DEF PasswordEnd, histories
  <2>2. \A s \in Requests : s # r => req'[s] = req[s]
    BY <1>5, OneAtATime DEF Effects
  <2>3. ASSUME NEW c \in Browsers \ Native, session'[c].there
        PROVE  session'[c] = session[c] /\ row'[c] = row[c] /\ c \notin req[r].todo
    BY <1>5, <2>3 DEF PasswordEnd, NoSession, Shapes
  <2>4. ASSUME NEW c \in Browsers, Leaving(c), c \notin req[r].todo PROVE Leaving(c)'
    <3>1. PICK s \in Requests : \/ req[s].pc = "list" /\ req[s].from # c
                                \/ req[s].pc = "end" /\ c \in req[s].todo
      BY <2>4 DEF Leaving
    <3>2. s # r
      BY <1>5, <2>4, <3>1 DEF PasswordEnd
    <3> QED BY <2>2, <3>1, <3>2 DEF Leaving
  <2> QED BY <2>1, <2>3, <2>4 DEF Passwords
<1>6. CASE HostRead
  <2>1. UNCHANGED <<password, req, session, row, kept, missed>>
    BY <1>6 DEF HostRead, stores, histories
  <2>2. host'.uids = {b \in Browsers \ Native : row[b].there /\ ~row[b].revoked}
    BY <1>6 DEF HostRead
  <2> QED BY <2>1, <2>2 DEF Passwords, Leaving
<1>7. CASE HostWrite
  <2>1. ASSUME NEW c \in Browsers \ Native, session'[c].there, c \notin missed' PROVE FALSE
    <3>1. c \notin host.uids /\ session'[c] = session[c] /\ missed' = missed /\ host.pc = "write"
      BY <1>7, <2>1 DEF HostWrite, NoSession
    <3> QED BY <2>1, <3>1 DEF Passwords
  <2> QED BY <2>1 DEF Passwords
<1>8. CASE HostTokens
  <2>1. UNCHANGED <<password, req, row, kept, missed>>
    BY <1>8 DEF HostTokens, histories
  <2>2. \A c \in Browsers \ Native : session'[c] = session[c]
    BY <1>8 DEF HostTokens
  <2>3. host.pc # "write" /\ host'.pc # "write"
    BY <1>8 DEF HostTokens, Shapes
  <2> QED BY <2>1, <2>2, <2>3 DEF Passwords, Leaving
<1>9. ASSUME UNCHANGED <<password, host, session, row, kept, missed>>,
             \A c \in Browsers : Leaving(c) => Leaving(c)'
      PROVE  Passwords'
  BY <1>9 DEF Passwords
<1>10. ASSUME NEW r \in Requests, Proving(r) \/ Act(r) \/ \E b \in Browsers : Asking(r, b)
       PROVE  Passwords'
  <2>1. UNCHANGED <<password, host, session, row, kept, missed>>
    BY <1>10 DEF Proving, Check, CountRead, CountWrite, Clear, Verify, CodeRead, CodeWrite,
           Act, Asking, SignIn, ChangePassword, Click, Retry, Prove, stores, histories
  <2>2. req[r].pc \notin {"list", "end"}
    BY <1>10 DEF Proving, Check, CountRead, CountWrite, Clear, Verify, CodeRead, CodeWrite,
           Act, Asking, SignIn, ChangePassword, Click, Retry, Prove, Starting
  <2>3. \A s \in Requests : s # r => req'[s] = req[s]
    BY <1>10, OneAtATime DEF Effects
  <2> QED BY <1>9, <2>1, <2>2, <2>3, LeavingStays
<1>11. CASE Tick \/ UNCHANGED vars \/ \E b \in Browsers : TryAgain(b) \/ NotNow(b)
  <2>1. UNCHANGED <<password, host, session, row, kept, missed, req>>
    BY <1>11 DEF Tick, TryAgain, NotNow, vars, stores, histories
  <2> QED BY <1>9, <2>1 DEF Leaving
<1> QED BY <1>1, <1>2, <1>3, <1>4, <1>5, <1>6, <1>7, <1>8, <1>10, <1>11 DEF Next, Effects

\* OldPasswordOut (account/routes.ts, owner-password.ts): a session of a browser that was
\* begun with an old password is gone when no change is under way, but for the one
\* that made the change and those a change cannot see.
THEOREM OldPasswordsEnd == Spec => []OldPasswordOut
<1>1. Init => Passwords
  <2> SUFFICES ASSUME Init, NEW b \in Browsers \ Native PROVE ~session[b].there
    BY DEF Passwords
  <2>1. session[b].there = (b \in Native)
    BY DEF Init
  <2> QED BY <2>1
<1>2. Shapes /\ Passwords /\ [Next]_vars => Passwords'
  BY PasswordsStep
<1>3. Passwords => OldPasswordOut
  BY DEF Passwords, OldPasswordOut, Quiet, Leaving
<1> QED BY <1>1, <1>2, <1>3, ShapesAlways, PTL DEF Spec

-----------------------------------------------------------------------------
(* The throttle: what is kept of it, and what a request knows of it. *)

\* A power of two is a number: the subsets of n things are as many.
LEMMA PowerOfTwo == ASSUME NEW n \in Nat PROVE 2^n \in Nat
<1>1. IsFiniteSet(1..n) /\ Cardinality(1..n) = n
  BY FS_Interval
<1>2. IsFiniteSet(SUBSET (1..n)) /\ Cardinality(SUBSET (1..n)) = 2^n
  BY <1>1, FS_SUBSET
<1> QED BY <1>2, FS_CardinalityType

\* What delayAfter makes of any number of failures is a delay, and no longer than the greatest.
LEMMA DelayBounded ==
    ASSUME NEW k \in Nat PROVE DelayAfter(k) \in 0..maxDelay
<1>1. freeAttempts \in Nat /\ baseDelay \in Nat /\ maxDelay \in Nat
  BY GuardAssumption
<1>2. CASE k - freeAttempts <= 0
  BY <1>1, <1>2 DEF DelayAfter
<1>3. CASE k - freeAttempts > 0
  <2>1. PICK n \in Nat : n = k - freeAttempts - 1
    BY <1>1, <1>3
  <2>2. PICK p \in Nat : p = 2^n
    BY PowerOfTwo
  <2>3. PICK d \in Nat : d = baseDelay * p
    BY <1>1
  <2>4. DelayAfter(k) = IF d < maxDelay THEN d ELSE maxDelay
    BY <1>1, <1>3, <2>1, <2>2, <2>3 DEF DelayAfter
  <2> QED BY <1>1, <2>4
<1> QED BY <1>1, <1>2, <1>3

\* A row of the throttle blocks for as long as its failures make it.
CounterOK(c) ==
    /\ c \in Counter /\ c.at <= now /\ c.until <= now + maxDelay
    /\ DelayAfter(c.failures) > 0 => c.until = c.at + DelayAfter(c.failures)

\* Who has been let past the throttle saw a row that blocked no more.
InTime(q) ==
    /\ CounterOK(q.saw) /\ q.saw.until <= now /\ q.when <= now
    /\ q.pc = "counted" => q.saw.at <= q.when /\ q.saw.until <= q.when
    /\ q.op = "act" <=> q.pc = "act"
    /\ q.op = "none" <=> q.pc = "idle"

\* Requests that may still count a failure; each counts one at most.
Live == {r \in Requests : req[r].op \notin {"none", "act"}}

Done == requests - Cardinality(Live)

Counting ==
    /\ IsFiniteSet(Live)
    /\ counter.failures <= Done
    /\ \A r \in Requests : req[r].pc = "counted" => req[r].used \in Nat /\ req[r].used <= Done

Typed ==
    /\ now \in Nat /\ requests \in 0..MaxRequests /\ lastUsedStep \in Int
    /\ password \in 0..MaxPasswords
    /\ session \in [Browsers -> Session] /\ row \in [Browsers -> Row]
    /\ req \in [Requests -> Request] /\ host \in Host
    /\ prompt \in [Browsers -> {"none", "held", "proving", "away", "retry"}]

Throttled == CounterOK(counter) /\ \A r \in Requests : InTime(req[r])

\* The bounds are numbers, and Never is before the first instant.
LEMMA Bounds ==
    /\ maxDelay \in Nat /\ MaxTime \in Nat /\ MaxRequests \in Nat /\ MaxPasswords \in Nat
    /\ Never \in Int /\ Never < 0
BY GuardAssumption DEF Never

\* A row without failures blocks nobody.
LEMMA NoneOK ==
    ASSUME now \in Nat PROVE CounterOK(NoFailures) /\ NoFailures.until <= now /\ NoFailures.failures = 0
<1>1. NoFailures \in Counter /\ NoFailures.at = Never /\ NoFailures.until = Never
      /\ NoFailures.failures = 0
  BY Bounds DEF NoFailures, Counter
<1>2. DelayAfter(0) = 0
  <2>1. 0 - freeAttempts <= 0
    BY GuardAssumption
  <2> QED BY <2>1 DEF DelayAfter
<1> QED BY <1>1, <1>2, Bounds DEF CounterOK

-----------------------------------------------------------------------------
(* What a request can become. *)

PCs == {"idle", "check", "verify", "count", "counted", "clear", "code", "spend",
        "effect", "list", "end", "act"}

\* A request with nothing in hand but what it is for.
LEMMA GoingOn ==
    ASSUME now \in Nat, NEW pc \in PCs, NEW op \in Ops \cup {"none"},
           NEW from \in Browsers \cup {None}, NEW by \in 0..MaxPasswords,
           NEW q, q = Going(pc, op, from, by)
    PROVE  /\ q \in Request /\ q.pc = pc /\ q.op = op /\ q.from = from /\ q.by = by
           /\ q.saw = NoFailures /\ q.when = Never
<1>1. NoFailures \in Counter /\ Never \in Int
  BY NoneOK, Bounds DEF CounterOK
<1>2. /\ q.pc = pc /\ q.op = op /\ q.from = from /\ q.by = by
      /\ q.saw = NoFailures /\ q.when = Never
  BY DEF Going
<1>3. q \in Request
  <2>1. Request = [pc : PCs, op : Ops \cup {"none"}, from : Browsers \cup {None}, saw : Counter,
                   when : Int, code : Int, used : Int, by : 0..MaxPasswords, todo : SUBSET Browsers]
    BY DEF Request, PCs
  <2>2. PICK F : F = Browsers \cup {None}
    OBVIOUS
  <2>3. PICK O : O = Ops \cup {"none"}
    OBVIOUS
  <2>4. q \in [pc : PCs, op : O, from : F, saw : Counter,
                when : Int, code : Int, used : Int, by : 0..MaxPasswords, todo : SUBSET Browsers]
    BY <1>1, <2>2, <2>3 DEF Going
  <2> QED BY <2>1, <2>2, <2>3, <2>4
<1> QED BY <1>2, <1>3

\* A request that is idle.
LEMMA Idles ==
    ASSUME now \in Nat, NEW q, q = Idle
    PROVE  q \in Request /\ q.pc = "idle" /\ q.op = "none" /\ q.saw = NoFailures /\ q.when = Never
<1>1. "idle" \in PCs /\ "none" \in Ops \cup {"none"} /\ None \in Browsers \cup {None}
      /\ 0 \in 0..MaxPasswords
  BY Bounds DEF PCs
<1> QED BY <1>1, GoingOn DEF Idle

\* A request that has not looked at the throttle is on time.
LEMMA NothingSeen ==
    ASSUME now \in Nat, NEW q \in Request, q.saw = NoFailures, q.when = Never,
           q.pc # "counted", q.op = "act" <=> q.pc = "act", q.op = "none" <=> q.pc = "idle"
    PROVE  InTime(q)
  BY NoneOK, Bounds DEF InTime

\* The sets of a request's fields, some of which are only names here: the provers take
\* the record apart, and leave its fields alone.
LEMMA Shape ==
    \E F, O, B, T :
        /\ F = Browsers \cup {None} /\ O = Ops \cup {"none"} /\ B = 0..MaxPasswords /\ T = SUBSET Browsers
        /\ Request = [pc : PCs, op : O, from : F, saw : Counter, when : Int, code : Int,
                      used : Int, by : B, todo : T]
<1>1. PICK F, O, B, T : /\ F = Browsers \cup {None} /\ O = Ops \cup {"none"}
                        /\ B = 0..MaxPasswords /\ T = SUBSET Browsers
  OBVIOUS
<1>2. Request = [pc : PCs, op : O, from : F, saw : Counter, when : Int, code : Int,
                 used : Int, by : B, todo : T]
  BY <1>1 DEF Request, PCs
<1> QED BY <1>1, <1>2

\* What r is after a step of its own, and what that does to the count of requests.
Becomes(r, q) ==
    /\ q \in Request /\ InTime(q) /\ req' = [req EXCEPT ![r] = q]
    /\ q.pc = "counted" => q.used = counter.failures
    /\ \/ q.op = "none" /\ requests' = requests
       \/ q.op = "act" /\ req[r].op \in {"none", "act"} /\ requests' = requests
       \/ q.op \notin {"none", "act"} /\ req[r].op \notin {"none", "act"} /\ requests' = requests
       \/ /\ q.op \notin {"none", "act"} /\ req[r].op = "none"
          /\ requests < MaxRequests /\ requests' = requests + 1

\* A request that is answered.
LEMMA Answered ==
    ASSUME Typed, NEW r \in Requests, Answer(r), UNCHANGED requests
    PROVE  \E q : Becomes(r, q)
<1>1. PICK q : q = Idle
  OBVIOUS
<1>2. q \in Request /\ q.pc = "idle" /\ q.op = "none" /\ q.saw = NoFailures /\ q.when = Never
  BY <1>1, Idles DEF Typed
<1>3. InTime(q)
  BY <1>2, NothingSeen DEF Typed
<1> QED BY <1>1, <1>2, <1>3 DEF Becomes, Answer

\* A request that only moves on.
LEMMA MovedOn ==
    ASSUME Typed, Throttled, NEW r \in Requests, NEW pc \in PCs, To(r, pc),
           pc \notin {"idle", "act", "counted"}, req[r].pc \notin {"idle", "act"},
           UNCHANGED requests
    PROVE  \E q : Becomes(r, q)
<1>1. PICK F, O, B, T :
        /\ F = Browsers \cup {None} /\ O = Ops \cup {"none"} /\ B = 0..MaxPasswords /\ T = SUBSET Browsers
        /\ Request = [pc : PCs, op : O, from : F, saw : Counter, when : Int, code : Int,
                      used : Int, by : B, todo : T]
  BY Shape
<1>2. PICK p : p = req[r]
  OBVIOUS
<1>3. p \in Request /\ InTime(p) /\ p.pc \notin {"idle", "act"}
  BY <1>2 DEF Typed, Throttled
<1>4. PICK q : q = [p EXCEPT !.pc = pc]
  OBVIOUS
<1>5. q \in Request /\ q.pc = pc /\ q.op = p.op /\ q.saw = p.saw /\ q.when = p.when
  BY <1>3, <1>4, <1>1
<1>6. InTime(q) /\ q.op \notin {"none", "act"} /\ p.op \notin {"none", "act"}
  BY <1>3, <1>5 DEF InTime
<1>7. req' = [req EXCEPT ![r] = q]
  BY <1>2, <1>4 DEF To, Typed
<1> QED BY <1>2, <1>5, <1>6, <1>7 DEF Becomes

\* A request that goes on with nothing in hand.
LEMMA GoneOn ==
    ASSUME Typed, Throttled, NEW r \in Requests, NEW pc \in PCs, NEW by \in 0..MaxPasswords,
           pc \notin {"idle", "act", "counted"}, req[r].pc \notin {"idle", "act"},
           req' = [req EXCEPT ![r] = Going(pc, req[r].op, req[r].from, by)],
           UNCHANGED requests
    PROVE  \E q : Becomes(r, q)
<1>1. PICK p : p = req[r]
  OBVIOUS
<1>2. p \in Request /\ InTime(p) /\ p.pc \notin {"idle", "act"}
  BY <1>1 DEF Typed, Throttled
<1>3. PICK q : q = Going(pc, p.op, p.from, by)
  OBVIOUS
<1>4. PICK op \in Ops \cup {"none"}, from \in Browsers \cup {None} : op = p.op /\ from = p.from
  BY <1>2 DEF Request
<1>5. q \in Request /\ q.pc = pc /\ q.op = p.op /\ q.saw = NoFailures /\ q.when = Never
  <2>1. q = Going(pc, op, from, by) /\ now \in Nat
    BY <1>3, <1>4 DEF Typed
  <2>2. q \in Request /\ q.pc = pc /\ q.op = op /\ q.saw = NoFailures /\ q.when = Never
    BY <2>1, GoingOn
  <2> QED BY <1>4, <2>2
<1>6. q.op \notin {"none", "act"} /\ p.op \notin {"none", "act"}
  BY <1>2, <1>5 DEF InTime
<1>7. InTime(q)
  <2>1. (q.op = "act" <=> q.pc = "act") /\ (q.op = "none" <=> q.pc = "idle") /\ q.pc # "counted"
    BY <1>5, <1>6
  <2> QED BY <1>5, <2>1, NothingSeen DEF Typed
<1> QED BY <1>1, <1>3, <1>5, <1>6, <1>7 DEF Becomes

\* A step of the proof: the throttle, the password or the code.
LEMMA ProvingBecomes ==
    ASSUME Typed, Throttled, NEW r \in Requests, Proving(r)
    PROVE  \E q : Becomes(r, q)
<1>1. PICK F, O, B, T :
        /\ F = Browsers \cup {None} /\ O = Ops \cup {"none"} /\ B = 0..MaxPasswords /\ T = SUBSET Browsers
        /\ Request = [pc : PCs, op : O, from : F, saw : Counter, when : Int, code : Int,
                      used : Int, by : B, todo : T]
  BY Shape
<1>2. PICK p : p = req[r]
  OBVIOUS
<1>3. p \in Request /\ InTime(p) /\ requests' = requests
  BY <1>2 DEF Typed, Throttled, Proving, Check, CountRead, CountWrite, Clear, Verify, CodeRead, CodeWrite
<1>4. counter \in Counter /\ CounterOK(counter) /\ now \in Nat
  BY DEF Throttled, CounterOK, Typed
<1>5. /\ "check" \in PCs /\ "code" \in PCs /\ "verify" \in PCs /\ "counted" \in PCs
      /\ "effect" \in PCs /\ "count" \in PCs /\ "clear" \in PCs /\ "spend" \in PCs
  BY DEF PCs
<1>6. CASE Check(r)
  <2>1. CASE Blocked
    BY <1>3, <1>6, <2>1, Answered DEF Check
  <2>2. CASE ~Blocked
    <3>1. PICK pc \in {"code", "verify"} : req' = [req EXCEPT ![r].pc = pc, ![r].saw = counter]
      BY <1>6, <2>2 DEF Check
    <3>2. PICK q : q = [p EXCEPT !.pc = pc, !.saw = counter]
      OBVIOUS
    <3>3. q \in Request /\ q.pc = pc /\ q.op = p.op /\ q.saw = counter /\ q.when = p.when
      BY <1>3, <1>4, <1>5, <3>1, <3>2, <1>1
    <3>4. counter.until <= now
      BY <1>4, <2>2 DEF Blocked, Counter
    <3>5. p.pc = "check"
      BY <1>2, <1>6 DEF Check
    <3>6. InTime(q) /\ q.op \notin {"none", "act"} /\ p.op \notin {"none", "act"}
      BY <1>3, <1>4, <3>1, <3>3, <3>4, <3>5 DEF InTime
    <3>7. req' = [req EXCEPT ![r] = q]
      BY <1>2, <3>1, <3>2 DEF Typed
    <3> QED BY <1>2, <1>3, <3>1, <3>3, <3>6, <3>7 DEF Becomes
  <2> QED BY <2>1, <2>2
<1>7. CASE CountRead(r)
  <2>1. PICK q : q = [p EXCEPT !.pc = "counted", !.when = now, !.used = counter.failures]
    OBVIOUS
  <2>2. now \in Int /\ counter.failures \in Int
    BY <1>4, Bounds DEF Counter
  <2>3. /\ q \in Request /\ q.pc = "counted" /\ q.op = p.op /\ q.saw = p.saw /\ q.when = now
        /\ q.used = counter.failures
    BY <1>3, <1>5, <2>1, <2>2, <1>1
  <2>4. p.pc = "count" /\ req' = [req EXCEPT ![r] = q]
    BY <1>2, <1>7, <2>1 DEF CountRead, Typed
  <2>5. InTime(q) /\ q.op \notin {"none", "act"} /\ p.op \notin {"none", "act"}
    BY <1>3, <1>4, <2>3, <2>4 DEF InTime, CounterOK
  <2> QED BY <1>2, <1>3, <2>3, <2>4, <2>5 DEF Becomes
<1>8. CASE CountWrite(r)
  BY <1>3, <1>8, Answered DEF CountWrite
<1>9. CASE Clear(r)
  <2>1. p.pc = "clear"
    BY <1>2, <1>9 DEF Clear
  <2>2. CASE p.op # "signin"
    <3>1. PICK pc \in {"effect", "code"} : To(r, pc)
      BY <1>2, <1>9, <2>2 DEF Clear
    <3> QED BY <1>2, <1>3, <1>5, <2>1, <3>1, MovedOn
  <2>3. CASE p.op = "signin"
    <3>1. PICK q : q = [p EXCEPT !.pc = "check", !.op = "factor"]
      OBVIOUS
    <3>2. "factor" \in O
      BY <1>1 DEF Ops
    <3>3. q \in Request /\ q.pc = "check" /\ q.op = "factor" /\ q.saw = p.saw /\ q.when = p.when
      BY <1>3, <1>5, <3>1, <3>2, <1>1
    <3>4. req' = [req EXCEPT ![r] = q]
      BY <1>2, <1>9, <2>3, <3>1 DEF Clear, Typed
    <3>5. InTime(q)
      BY <1>3, <3>3 DEF InTime
    <3> QED BY <1>2, <1>3, <2>3, <3>3, <3>4, <3>5 DEF Becomes
  <2> QED BY <2>2, <2>3
<1>10. CASE Verify(r)
  <2>1. p.pc = "verify" /\ password \in 0..MaxPasswords
    BY <1>2, <1>10 DEF Verify, Typed
  <2>2. CASE To(r, "count")
    BY <1>2, <1>3, <1>5, <2>1, <2>2, MovedOn
  <2>3. CASE req' = [req EXCEPT ![r] = Going("clear", req[r].op, req[r].from, password)]
    BY <1>2, <1>3, <1>5, <2>1, <2>3, GoneOn
  <2> QED BY <1>10, <2>2, <2>3 DEF Verify
<1>11. CASE CodeRead(r)
  <2>1. p.pc = "code"
    BY <1>2, <1>11 DEF CodeRead
  <2>2. CASE To(r, "count")
    BY <1>2, <1>3, <1>5, <2>1, <2>2, MovedOn
  <2>3. CASE Answer(r)
    BY <1>3, <2>3, Answered
  <2>4. ASSUME NEW step \in 0..MaxTime,
               req' = [req EXCEPT ![r].pc = "spend", ![r].code = step, ![r].used = lastUsedStep]
        PROVE  \E q : Becomes(r, q)
    <3>1. PICK q : q = [p EXCEPT !.pc = "spend", !.code = step, !.used = lastUsedStep]
      OBVIOUS
    <3>2. step \in Int /\ lastUsedStep \in Int
      BY Bounds DEF Typed
    <3>3. q \in Request /\ q.pc = "spend" /\ q.op = p.op /\ q.saw = p.saw /\ q.when = p.when
      BY <1>3, <1>5, <3>1, <3>2, <1>1
    <3>4. req' = [req EXCEPT ![r] = q]
      BY <1>2, <2>4, <3>1 DEF Typed
    <3>5. InTime(q) /\ q.op \notin {"none", "act"} /\ p.op \notin {"none", "act"}
      BY <1>3, <2>1, <3>3 DEF InTime
    <3> QED BY <1>2, <1>3, <3>3, <3>4, <3>5 DEF Becomes
  <2> QED BY <1>11, <2>2, <2>3, <2>4 DEF CodeRead
<1>12. CASE CodeWrite(r)
  <2>1. PICK pc \in {"clear", "effect"} : On(r, pc)
    BY <1>12 DEF CodeWrite
  <2>2. p.pc = "spend" /\ p.by \in 0..MaxPasswords
    BY <1>2, <1>3, <1>12 DEF CodeWrite, Request
  <2> QED BY <1>2, <1>3, <1>5, <2>1, <2>2, GoneOn DEF On
<1> QED BY <1>6, <1>7, <1>8, <1>9, <1>10, <1>11, <1>12 DEF Proving

\* A step of what the proof was for.
LEMMA EffectsBecomes ==
    ASSUME Typed, Throttled, NEW r \in Requests, Effects(r)
    PROVE  \E q : Becomes(r, q)
<1>1. requests' = requests
  BY DEF Effects, SignedIn, SteppedUp, Act, PasswordWrite, PasswordList, PasswordEnd
<1>2. CASE SignedIn(r) \/ SteppedUp(r) \/ Act(r) \/ PasswordEnd(r)
  BY <1>1, <1>2, Answered DEF SignedIn, SteppedUp, Act, PasswordEnd
<1>3. CASE PasswordWrite(r)
  <2>1. "list" \in PCs /\ req[r].pc = "effect" /\ To(r, "list")
    BY <1>3 DEF PasswordWrite, PCs
  <2> QED BY <1>1, <2>1, MovedOn
<1>4. CASE PasswordList(r)
  <2>1. PICK F, O, B, T :
          /\ F = Browsers \cup {None} /\ O = Ops \cup {"none"} /\ B = 0..MaxPasswords /\ T = SUBSET Browsers
          /\ Request = [pc : PCs, op : O, from : F, saw : Counter, when : Int, code : Int,
                        used : Int, by : B, todo : T]
    BY Shape
  <2>2. PICK p : p = req[r]
    OBVIOUS
  <2>3. p \in Request /\ InTime(p) /\ p.pc = "list"
    BY <1>4, <2>2 DEF Typed, Throttled, PasswordList
  <2>4. PICK S \in T : S = Others(p.from)
    BY <2>1 DEF Others
  <2>5. PICK q : q = [p EXCEPT !.pc = "end", !.todo = S]
    OBVIOUS
  <2>6. "end" \in PCs
    BY DEF PCs
  <2>7. q \in Request /\ q.pc = "end" /\ q.op = p.op /\ q.saw = p.saw /\ q.when = p.when
    BY <2>1, <2>3, <2>5, <2>6
  <2>8. req' = [req EXCEPT ![r] = q]
    BY <1>4, <2>2, <2>4, <2>5 DEF PasswordList, Typed
  <2>9. InTime(q) /\ q.op \notin {"none", "act"} /\ p.op \notin {"none", "act"}
    BY <2>3, <2>7 DEF InTime
  <2> QED BY <1>1, <2>2, <2>7, <2>8, <2>9 DEF Becomes
<1> QED BY <1>2, <1>3, <1>4 DEF Effects

\* A request that begins; a click that is held asks the server nothing more.
LEMMA AskingBecomes ==
    ASSUME Typed, Throttled, NEW r \in Requests, NEW b \in Browsers, Asking(r, b)
    PROVE  UNCHANGED <<req, requests>> \/ \E q : Becomes(r, q)
<1>1. PICK p : p = req[r]
  OBVIOUS
<1>2. p \in Request /\ p.pc = "idle" /\ p.op = "none"
  BY <1>1 DEF Typed, Throttled, InTime, Asking, SignIn, ChangePassword, Click, Retry, Prove, Starting
<1>3. ASSUME NEW op \in Ops, op # "act", Starting(r), Proof(r, op, b)
      PROVE  \E q : Becomes(r, q)
  <2>1. PICK q : q = Going("check", op, b, 0)
    OBVIOUS
  <2>2. "check" \in PCs /\ op \in Ops \cup {"none"} /\ op # "none" /\ b \in Browsers \cup {None}
        /\ 0 \in 0..MaxPasswords
    BY Bounds DEF PCs, Ops
  <2>3. q \in Request /\ q.pc = "check" /\ q.op = op /\ q.saw = NoFailures /\ q.when = Never
    BY <2>1, <2>2, GoingOn DEF Typed
  <2>4. InTime(q)
    BY <1>3, <2>2, <2>3, NothingSeen DEF Typed
  <2>5. req' = [req EXCEPT ![r] = q] /\ requests < MaxRequests /\ requests' = requests + 1
    BY <1>3, <2>1 DEF Proof, Starting
  <2> QED BY <1>1, <1>2, <1>3, <2>2, <2>3, <2>4, <2>5 DEF Becomes
<1>4. ASSUME req' = [req EXCEPT ![r] = Going("act", "act", b, 0)], requests' = requests
      PROVE  \E q : Becomes(r, q)
  <2>1. PICK q : q = Going("act", "act", b, 0)
    OBVIOUS
  <2>2. "act" \in PCs /\ "act" \in Ops \cup {"none"} /\ b \in Browsers \cup {None}
        /\ 0 \in 0..MaxPasswords
    BY Bounds DEF PCs, Ops
  <2>3. q \in Request /\ q.pc = "act" /\ q.op = "act" /\ q.saw = NoFailures /\ q.when = Never
    BY <2>1, <2>2, GoingOn DEF Typed
  <2>4. InTime(q)
    BY <2>3, NothingSeen DEF Typed
  <2> QED BY <1>1, <1>2, <1>4, <2>1, <2>3, <2>4 DEF Becomes
<1>5. CASE Click(r, b) \/ Retry(r, b)
  BY <1>4, <1>5 DEF Click, Retry, Ask
<1>6. CASE SignIn(r, b) \/ ChangePassword(r, b) \/ Prove(r, b)
  <2>1. {"signin", "password", "stepup"} \subseteq Ops
    BY DEF Ops
  <2> QED BY <1>3, <1>6, <2>1 DEF SignIn, ChangePassword, Prove
<1> QED BY <1>5, <1>6 DEF Asking

-----------------------------------------------------------------------------
(* Failures are no more than requests. *)

\* How many requests are done, after a step of one.
LEMMA DoneGrows ==
    ASSUME Typed, Counting, NEW r \in Requests, NEW q, Becomes(r, q)
    PROVE  /\ IsFiniteSet(Live') /\ Done \in Int /\ Done' \in Int
           /\ Done <= Done' /\ Done' <= MaxRequests /\ requests' \in 0..MaxRequests
           /\ (q.op = "none" /\ r \in Live) => Done' = Done + 1
<1>1. Cardinality(Live) \in Nat /\ requests \in Int /\ requests <= MaxRequests
  BY FS_CardinalityType, Bounds DEF Typed, Counting
<1>2. req'[r] = q /\ \A s \in Requests : s # r => req'[s] = req[s]
  BY DEF Becomes, Typed
<1>3. Done = requests - Cardinality(Live) /\ Done' = requests' - Cardinality(Live')
  BY DEF Done
<1>4. IsFiniteSet(Live') => Cardinality(Live') \in Nat
  BY FS_CardinalityType
<1>5. CASE q.op = "none" /\ requests' = requests
  <2>1. Live' = Live \ {r}
    BY <1>2, <1>5 DEF Live
  <2>2. /\ IsFiniteSet(Live')
        /\ Cardinality(Live') = IF r \in Live THEN Cardinality(Live) - 1 ELSE Cardinality(Live)
    BY <2>1, FS_RemoveElement DEF Counting
  <2>3. Cardinality(Live') \in Nat /\ IsFiniteSet(Live')
    BY <1>4, <2>2
  <2> QED BY <1>1, <1>5, <1>3, <2>2, <2>3, Bounds DEF Typed
<1>6. CASE /\ requests' = requests
           /\ q.op \in {"none", "act"} <=> req[r].op \in {"none", "act"}
  <2>1. Live' = Live
    BY <1>2, <1>6 DEF Live
  <2>2. q.op = "none" => r \notin Live
    BY <1>6 DEF Live
  <2>3. IsFiniteSet(Live')
    BY <2>1 DEF Counting
  <2>4. requests \in 0..MaxRequests
    BY DEF Typed
  <2>5. requests' = requests
    BY <1>6
  <2>6. Done' = Done
    BY <1>3, <2>1, <2>5
  <2>7. Done \in Int /\ Done <= MaxRequests
    BY <1>1, <1>3, Bounds
  <2> QED BY <2>2, <2>3, <2>4, <2>5, <2>6, <2>7
<1>7. CASE /\ q.op \notin {"none", "act"} /\ req[r].op = "none"
           /\ requests < MaxRequests /\ requests' = requests + 1
  <2>1. Live' = Live \cup {r} /\ r \notin Live
    BY <1>2, <1>7 DEF Live
  <2>2. IsFiniteSet(Live') /\ Cardinality(Live') = Cardinality(Live) + 1
    BY <2>1, FS_AddElement DEF Counting
  <2>3. requests' \in 0..MaxRequests
    BY <1>7, Bounds DEF Typed
  <2>4. q.op # "none"
    BY <1>7
  <2>5. Cardinality(Live') \in Nat
    BY <1>4, <2>2
  <2>6. PICK n \in Int : n = requests /\ requests' = n + 1
    BY <1>1, <1>7
  <2>7. PICK k \in Nat : k = Cardinality(Live) /\ Cardinality(Live') = k + 1
    BY <1>1, <2>2
  <2>8. Done = n - k /\ Done' = (n + 1) - (k + 1) /\ n + 1 <= MaxRequests
    BY <1>3, <2>3, <2>6, <2>7
  <2> QED BY <2>2, <2>3, <2>4, <2>8, Bounds
<1> QED BY <1>5, <1>6, <1>7 DEF Becomes

-----------------------------------------------------------------------------
(* A step of a request. *)

\* The counter, after a step of a request.
LEMMA CounterSteps ==
    ASSUME NEW r \in Requests, Proving(r) \/ Effects(r) \/ \E b \in Browsers : Asking(r, b)
    PROVE  now' = now /\ host' = host /\ (counter' = counter \/ counter' = NoFailures \/ CountWrite(r))
BY DEF Proving, Check, CountRead, Clear, CountWrite, Verify, CodeRead, CodeWrite, Effects, SignedIn, SteppedUp,
       Act, PasswordWrite, PasswordList, PasswordEnd, Asking, SignIn, ChangePassword, Click, Retry, Prove, stores

\* What a request that counts a failure has in hand.
LEMMA Counted ==
    ASSUME Typed, Throttled, Counting, NEW r \in Requests, NEW q, Becomes(r, q), CountWrite(r)
    PROVE  \E k \in Nat, t \in Int :
             /\ k = req[r].used + 1 /\ t = req[r].when /\ t <= now
             /\ k <= Done' /\ k <= MaxRequests
             /\ counter' = [failures |-> k, at |-> t,
                            until |-> IF DelayAfter(k) > 0 THEN t + DelayAfter(k) ELSE Never]
<1>1. req[r].pc = "counted" /\ r \in Live
  BY DEF CountWrite, Throttled, InTime, Live
<1>2. req[r].used \in Nat /\ req[r].used <= Done
  BY <1>1 DEF Counting
<1>3. req[r].when \in Int /\ req[r].when <= now
  BY DEF Throttled, InTime, Typed, Request
<1>4. req'[r] = q /\ req'[r] = Idle
  BY DEF Becomes, Typed, CountWrite, Answer
<1>5. q.op = "none"
  BY <1>4 DEF Idle, Going
<1>6. Done \in Int /\ Done' = Done + 1 /\ Done' <= MaxRequests
  BY <1>1, <1>5, DoneGrows
<1>7. PICK k \in Nat : k = req[r].used + 1 /\ k <= Done' /\ k <= MaxRequests
  BY <1>2, <1>6, Bounds
<1>8. PICK t \in Int : t = req[r].when /\ t <= now
  BY <1>3
<1>9. counter' = [failures |-> k, at |-> t,
                  until |-> IF DelayAfter(k) > 0 THEN t + DelayAfter(k) ELSE Never]
  BY <1>7, <1>8 DEF CountWrite
<1> QED BY <1>7, <1>8, <1>9

\* The row of the throttle after a step of a request: when it is written, the failures are no
\* more than the requests that are done, and the delay starts from an instant that has passed.
LEMMA CounterOKStep ==
    ASSUME Typed, Throttled, Counting, NEW r \in Requests, NEW q, Becomes(r, q),
           Proving(r) \/ Effects(r) \/ \E b \in Browsers : Asking(r, b)
    PROVE  CounterOK(counter)' /\ counter'.failures \in Nat /\ counter'.failures <= Done'
<1>1. now' = now /\ (counter' = counter \/ counter' = NoFailures \/ CountWrite(r))
  BY CounterSteps
<1>2. /\ counter.failures \in Nat /\ counter.failures <= Done
      /\ Done \in Int /\ Done' \in Int /\ Done <= Done'
  BY DoneGrows, Bounds DEF Counting, Throttled, CounterOK, Counter
<1>3. CASE counter' = counter
  <2>1. CounterOK(counter)'
    BY <1>1, <1>3 DEF Throttled, CounterOK
  <2> QED BY <1>2, <1>3, <2>1
<1>4. CASE counter' = NoFailures
  <2>1. CounterOK(NoFailures) /\ NoFailures.failures = 0
    BY NoneOK DEF Typed
  <2>2. CounterOK(counter)'
    BY <1>1, <1>4, <2>1 DEF CounterOK
  <2> QED BY <1>2, <1>4, <2>1, <2>2
<1>5. CASE CountWrite(r)
  <2>1. PICK k \in Nat, t \in Int :
          /\ k = req[r].used + 1 /\ t = req[r].when /\ t <= now
          /\ k <= Done' /\ k <= MaxRequests
          /\ counter' = [failures |-> k, at |-> t,
                         until |-> IF DelayAfter(k) > 0 THEN t + DelayAfter(k) ELSE Never]
    BY <1>5, Counted
  <2>2. PICK d \in Nat : d = DelayAfter(k) /\ d <= maxDelay
    BY DelayBounded, Bounds
  <2>3. PICK c : c = counter'
    OBVIOUS
  <2>4. PICK u \in Int : u = IF d > 0 THEN t + d ELSE Never
    BY <2>2, Bounds
  <2>5. c = [failures |-> k, at |-> t, until |-> u]
    BY <2>1, <2>2, <2>3, <2>4
  <2>6. c \in Counter
    BY <2>1, <2>5, Bounds DEF Counter
  <2>7. now \in Nat
    BY DEF Typed
  <2>8. c.at <= now /\ c.until <= now + maxDelay /\ (d > 0 => c.until = c.at + d)
    BY <2>1, <2>2, <2>4, <2>5, <2>7, Bounds
  <2>9. CounterOK(c)
    BY <2>2, <2>5, <2>6, <2>8 DEF CounterOK
  <2>10. CounterOK(counter)'
    BY <1>1, <2>3, <2>9 DEF CounterOK
  <2> QED BY <2>1, <2>3, <2>5, <2>10
<1> QED BY <1>1, <1>3, <1>4, <1>5

\* The throttle, and the count, after a step of a request.
LEMMA RequestThrottled ==
    ASSUME Typed, Throttled, Counting, NEW r \in Requests,
           Proving(r) \/ Effects(r) \/ \E b \in Browsers : Asking(r, b),
           \E q : Becomes(r, q)
    PROVE  /\ Throttled' /\ Counting' /\ req' \in [Requests -> Request]
           /\ requests' \in 0..MaxRequests
<1>1. PICK q : Becomes(r, q)
  OBVIOUS
<1>2. now' = now
  BY CounterSteps
<1>3. req'[r] = q /\ (\A s \in Requests : s # r => req'[s] = req[s]) /\ req' \in [Requests -> Request]
  BY <1>1 DEF Becomes, Typed
<1>4. Throttled'
  <2>1. ASSUME NEW s \in Requests PROVE InTime(req[s])'
    <3>1. InTime(req'[s])
      BY <1>1, <1>3 DEF Becomes, Throttled
    <3> QED BY <1>2, <3>1 DEF InTime, CounterOK
  <2> QED BY <1>1, <2>1, CounterOKStep DEF Throttled
<1>5. Counting'
  <2>1. /\ IsFiniteSet(Live') /\ Done \in Int /\ Done' \in Int /\ Done <= Done'
    BY <1>1, DoneGrows
  <2>2. counter'.failures <= Done'
    BY <1>1, CounterOKStep
  <2>3. counter.failures \in Nat /\ counter.failures <= Done
    BY Bounds DEF Counting, Throttled, CounterOK, Counter
  <2>4. ASSUME NEW s \in Requests, req'[s].pc = "counted"
        PROVE  req'[s].used \in Nat /\ req'[s].used <= Done'
    <3>1. CASE s = r
      BY <1>1, <1>3, <2>1, <2>3, <2>4, <3>1 DEF Becomes
    <3>2. CASE s # r
      <4>1. req[s].used \in Nat /\ req[s].used <= Done /\ req'[s] = req[s]
        BY <1>3, <2>4, <3>2 DEF Counting
      <4> QED BY <2>1, <4>1
    <3> QED BY <3>1, <3>2
  <2> QED BY <2>1, <2>2, <2>4 DEF Counting
<1>6. requests' \in 0..MaxRequests
  BY <1>1, DoneGrows
<1> QED BY <1>3, <1>4, <1>5, <1>6

-----------------------------------------------------------------------------
(* The rows, after a step. *)

\* What is kept of sessions and of the prompt.
Rows ==
    /\ lastUsedStep \in Int /\ password \in 0..MaxPasswords
    /\ session \in [Browsers -> Session] /\ row \in [Browsers -> Row] /\ host \in Host
    /\ prompt \in [Browsers -> {"none", "held", "proving", "away", "retry"}]

\* The sessions and the password, after a step of what the proof was for.
LEMMA EffectsRows ==
    ASSUME Typed, NEW r \in Requests, Effects(r) PROVE Rows'
<1>1. /\ now \in Nat /\ password \in 0..MaxPasswords /\ session \in [Browsers -> Session]
      /\ row \in [Browsers -> Row] /\ Never \in Int /\ req[r].by \in 0..MaxPasswords
  BY Bounds DEF Typed, Request
<1>2. ASSUME UNCHANGED <<lastUsedStep, host, session, row, prompt>>, password' \in 0..MaxPasswords
      PROVE  Rows'
  BY <1>2 DEF Typed, Rows
<1>3. CASE PasswordWrite(r)
  <2>1. password + 1 \in 0..MaxPasswords
    BY <1>1, <1>3, Bounds DEF PasswordWrite
  <2> QED BY <1>2, <1>3, <2>1 DEF PasswordWrite
<1>4. CASE Act(r) \/ PasswordList(r)
  BY <1>1, <1>2, <1>4 DEF Act, PasswordList, stores
<1>5. CASE SignedIn(r)
  <2>1. PICK there \in BOOLEAN :
          row' = [row EXCEPT ![req[r].from] = [there |-> there, revoked |-> FALSE, steppedUpAt |-> Never]]
    BY <1>5 DEF SignedIn
  <2>2. [there |-> there, revoked |-> FALSE, steppedUpAt |-> Never] \in Row
    BY <1>1 DEF Row
  <2>3. row' \in [Browsers -> Row]
    BY <1>1, <2>1, <2>2
  <2>4. [there |-> TRUE, login |-> now, by |-> req[r].by] \in Session
    BY <1>1 DEF Session
  <2>5. session' \in [Browsers -> Session]
    BY <1>1, <1>5, <2>4 DEF SignedIn
  <2> QED BY <1>5, <2>3, <2>5 DEF SignedIn, Typed, Rows
<1>6. CASE SteppedUp(r)
  <2>1. PICK b : b = req[r].from
    OBVIOUS
  <2>2. row' = SteppedUpHere(b)
    BY <1>6, <2>1 DEF SteppedUp
  <2>3. [there |-> TRUE, revoked |-> FALSE, steppedUpAt |-> now] \in Row
    BY <1>1 DEF Row
  <2>4. \A x \in Row : [x EXCEPT !.steppedUpAt = now] \in Row
    BY <1>1 DEF Row
  <2>5. row' \in [Browsers -> Row]
    <3>1. CASE b \in Native
      BY <1>1, <2>2, <2>3, <3>1 DEF SteppedUpHere
    <3>2. CASE b \notin Native /\ row[b].there /\ b \in Browsers
      BY <1>1, <2>2, <2>4, <3>2 DEF SteppedUpHere
    <3>3. CASE b \notin Native /\ ~row[b].there
      BY <1>1, <2>2, <3>3 DEF SteppedUpHere
    <3>4. CASE b \notin Browsers /\ b \notin Native
      BY <1>1, <2>2, <3>4 DEF SteppedUpHere
    <3> QED BY <3>1, <3>2, <3>3, <3>4
  <2>6. prompt' \in [Browsers -> {"none", "held", "proving", "away", "retry"}]
    BY <1>6 DEF SteppedUp, Typed
  <2> QED BY <1>6, <2>5, <2>6 DEF SteppedUp, Typed, Rows
<1>7. CASE PasswordEnd(r)
  <2>1. NoSession \in Session
    BY <1>1, Bounds DEF NoSession, Session
  <2>2. session' \in [Browsers -> Session]
    BY <1>1, <1>7, <2>1 DEF PasswordEnd
  <2>3. \A x \in Row : [x EXCEPT !.revoked = TRUE] \in Row
    BY DEF Row
  <2>4. row' \in [Browsers -> Row]
    BY <1>1, <1>7, <2>3 DEF PasswordEnd
  <2> QED BY <1>7, <2>2, <2>4 DEF PasswordEnd, Typed, Rows
<1> QED BY <1>3, <1>4, <1>5, <1>6, <1>7 DEF Effects

\* The other steps of a request end no session and change no password.
LEMMA RequestRows ==
    ASSUME Typed, NEW r \in Requests, Proving(r) \/ \E b \in Browsers : Asking(r, b)
    PROVE  Rows'
<1>1. UNCHANGED <<password, session, row, host>>
  BY DEF Proving, Check, CountRead, Clear, CountWrite, Verify, CodeRead, CodeWrite,
         Asking, SignIn, ChangePassword, Click, Retry, Prove, stores
<1>2. lastUsedStep' \in Int
  <2>1. lastUsedStep \in Int /\ req[r].code \in Int
    BY DEF Typed, Request
  <2> QED BY <2>1 DEF Proving, Check, CountRead, Clear, CountWrite, Verify, CodeRead, CodeWrite,
         Asking, SignIn, ChangePassword, Click, Retry, Prove, stores
<1>3. prompt' \in [Browsers -> {"none", "held", "proving", "away", "retry"}]
  BY DEF Proving, Check, CountRead, Clear, CountWrite, Verify, CodeRead, CodeWrite, Typed,
         Asking, SignIn, ChangePassword, Click, Retry, Prove, Ask, Held
<1> QED BY <1>1, <1>2, <1>3 DEF Rows, Typed

\* The sessions and the password, after a step in a shell or of the prompt.
LEMMA HostRows ==
    ASSUME Typed, HostRead \/ HostWrite \/ HostTokens \/ \E b \in Browsers : TryAgain(b) \/ NotNow(b)
    PROVE  Rows'
<1>1. NoSession \in Session /\ (\A x \in Row : [x EXCEPT !.revoked = TRUE] \in Row)
  <2>1. 0 \in 0..MaxPasswords /\ Never \in Int
    BY Bounds
  <2> QED BY <2>1 DEF NoSession, Session, Row
<1>2. CASE \E b \in Browsers : TryAgain(b) \/ NotNow(b)
  <2>1. prompt' \in [Browsers -> {"none", "held", "proving", "away", "retry"}]
    BY <1>2 DEF TryAgain, NotNow, Typed
  <2> QED BY <1>2, <2>1 DEF TryAgain, NotNow, Typed, Rows, stores
<1>3. CASE HostRead
  <2>1. host' \in Host
    BY <1>3 DEF HostRead, Host
  <2> QED BY <1>3, <2>1 DEF HostRead, Typed, Rows, stores
<1>4. CASE HostWrite
  <2>1. session' \in [Browsers -> Session] /\ row' \in [Browsers -> Row]
    BY <1>1, <1>4 DEF HostWrite, Typed
  <2>2. host' \in Host
    BY <1>4 DEF HostWrite, Typed, Host
  <2>3. password' \in 0..MaxPasswords
    BY <1>4, Bounds DEF HostWrite, Typed
  <2> QED BY <1>4, <2>1, <2>2, <2>3 DEF HostWrite, Typed, Rows
<1>5. CASE HostTokens
  <2>1. session' \in [Browsers -> Session]
    BY <1>1, <1>5 DEF HostTokens, Typed
  <2>2. host' \in Host
    BY <1>5 DEF HostTokens, Typed, Host
  <2> QED BY <1>5, <2>1, <2>2 DEF HostTokens, Typed, Rows
<1> QED BY <1>2, <1>3, <1>4, <1>5

-----------------------------------------------------------------------------
(* The throttle blocks no longer than it may, and no shorter. *)

\* All of it, after a step that is no request's.
LEMMA OtherThrottled ==
    ASSUME Typed, Throttled, Counting,
           \/ Tick \/ HostRead \/ HostWrite \/ HostTokens \/ UNCHANGED vars
           \/ \E b \in Browsers : TryAgain(b) \/ NotNow(b)
    PROVE  Throttled' /\ Counting'
<1>1. UNCHANGED <<req, requests>>
  BY DEF Tick, HostRead, HostWrite, HostTokens, vars, TryAgain, NotNow
<1>2. Live' = Live /\ Done' = Done
  BY <1>1 DEF Live, Done
<1>3. now \in Nat /\ now' \in Nat /\ now <= now'
  BY DEF Tick, HostRead, HostWrite, HostTokens, vars, TryAgain, NotNow, Typed
<1>4. counter' = counter \/ counter' = NoFailures
  BY DEF Tick, HostRead, HostWrite, HostTokens, vars, TryAgain, NotNow, stores
<1>5. ASSUME NEW c, CounterOK(c) PROVE CounterOK(c)'
  <2>1. c \in Counter /\ c.at \in Int /\ c.until \in Int
    BY <1>5 DEF CounterOK, Counter
  <2> QED BY <1>3, <1>5, <2>1, Bounds DEF CounterOK
<1>6. CounterOK(NoFailures) /\ NoFailures.failures = 0 /\ CounterOK(counter)
  BY <1>3, NoneOK DEF Throttled
<1>7. CounterOK(counter)'
  <2>1. CASE counter' = counter
    BY <1>5, <1>6, <2>1 DEF CounterOK
  <2>2. CASE counter' = NoFailures
    <3>1. CounterOK(NoFailures)'
      BY <1>5, <1>6
    <3> QED BY <2>2, <3>1 DEF CounterOK
  <2> QED BY <1>4, <2>1, <2>2
<1>8. ASSUME NEW s \in Requests PROVE InTime(req[s])'
  <2>1. PICK q : q = req[s]
    OBVIOUS
  <2>2. InTime(q) /\ q \in Request /\ CounterOK(q.saw)
    BY <2>1 DEF Throttled, Typed, InTime
  <2>3. CounterOK(q.saw)'
    BY <1>5, <2>2
  <2>4. q.saw.until \in Int /\ q.when \in Int
    BY <2>2 DEF CounterOK, Counter, Request
  <2>5. q.saw.until <= now' /\ q.when <= now'
    BY <1>3, <2>2, <2>4 DEF InTime
  <2> QED BY <1>1, <2>1, <2>2, <2>3, <2>5 DEF InTime
<1>9. Throttled'
  BY <1>7, <1>8 DEF Throttled
<1>10. Counting'
  <2>1. counter.failures \in Nat /\ counter.failures <= Done /\ Done \in Int
    <3>1. Cardinality(Live) \in Nat /\ requests \in Int
      BY FS_CardinalityType DEF Counting, Typed
    <3> QED BY <1>6, <3>1, Bounds DEF Counting, Done, CounterOK, Counter
  <2>2. counter'.failures <= Done
    BY <1>4, <1>6, <2>1
  <2> QED BY <1>1, <1>2, <2>2 DEF Counting
<1> QED BY <1>9, <1>10

\* All of it, always.
THEOREM ThrottleInvariant == Spec => [](Typed /\ Throttled /\ Counting)
<1>1. Init => Typed /\ Throttled /\ Counting
  <2> SUFFICES ASSUME Init PROVE Typed /\ Throttled /\ Counting
    OBVIOUS
  <2>1. now = 0 /\ requests = 0 /\ counter = NoFailures
    BY DEF Init
  <2>2. CounterOK(NoFailures) /\ NoFailures.failures = 0
    BY <2>1, NoneOK
  <2>3. ASSUME NEW r \in Requests
        PROVE  req[r] \in Request /\ InTime(req[r]) /\ req[r].op = "none" /\ req[r].pc = "idle"
    <3>1. PICK q : q = Idle
      OBVIOUS
    <3>2. q \in Request /\ q.pc = "idle" /\ q.op = "none" /\ q.saw = NoFailures /\ q.when = Never
      BY <2>1, <3>1, Idles
    <3>3. InTime(q)
      BY <2>1, <3>2, NothingSeen
    <3>4. req[r] = q
      BY <3>1 DEF Init
    <3> QED BY <3>2, <3>3, <3>4
  <2>4. Throttled
    BY <2>1, <2>2, <2>3 DEF Throttled
  <2>5. Counting
    <3>1. Live = {}
      BY <2>3 DEF Live
    <3>2. IsFiniteSet(Live) /\ Cardinality(Live) = 0
      BY <3>1, FS_EmptySet
    <3>3. Done = 0
      BY <2>1, <3>2 DEF Done
    <3> QED BY <2>1, <2>2, <2>3, <3>2, <3>3 DEF Counting
  <2>6. Typed
    <3>1. req \in [Requests -> Request]
      BY <2>3 DEF Init
    <3>2. session \in [Browsers -> Session] /\ row \in [Browsers -> Row]
      <4>1. NoRow \in Row
        BY Bounds DEF NoRow, Row
      <4>2. ASSUME NEW x \in BOOLEAN PROVE [there |-> x, login |-> Never, by |-> 0] \in Session
        BY Bounds DEF Session
      <4>3. ASSUME NEW b \in Browsers PROVE (b \in Native) \in BOOLEAN
        OBVIOUS
      <4>4. ASSUME NEW b \in Browsers PROVE [there |-> b \in Native, login |-> Never, by |-> 0] \in Session
        <5>1. PICK x \in BOOLEAN : x = (b \in Native)
          BY <4>3
        <5> QED BY <4>2, <5>1
      <4>5. session \in [Browsers -> Session]
        BY <4>4 DEF Init
      <4>6. row \in [Browsers -> Row]
        BY <4>1 DEF Init
      <4> QED BY <4>5, <4>6
    <3>3. host \in Host
      BY DEF Init, Host
    <3> QED BY <2>1, <3>1, <3>2, <3>3, Bounds DEF Init, Typed
  <2> QED BY <2>4, <2>5, <2>6
<1>2. Typed /\ Throttled /\ Counting /\ [Next]_vars => (Typed /\ Throttled /\ Counting)'
  <2> SUFFICES ASSUME Typed, Throttled, Counting, [Next]_vars
               PROVE  (Typed /\ Throttled /\ Counting)'
    OBVIOUS
  <2>1. ASSUME NEW r \in Requests, Proving(r) \/ Effects(r) \/ \E b \in Browsers : Asking(r, b)
        PROVE  (Typed /\ Throttled /\ Counting)'
    <3>1. now' = now
      BY <2>1, CounterSteps
    <3>2. Rows'
      BY <2>1, EffectsRows, RequestRows
    <3>3. CASE \E q : Becomes(r, q)
      BY <2>1, <3>1, <3>2, <3>3, RequestThrottled DEF Typed, Rows
    <3>4. CASE UNCHANGED <<req, requests>> /\ \E b \in Browsers : Asking(r, b)
      <4>1. counter' = counter
        BY <3>4 DEF Asking, SignIn, ChangePassword, Click, Retry, Prove, stores
      <4>2. Live' = Live /\ Done' = Done
        BY <3>4 DEF Live, Done
      <4>3. Counting'
        BY <3>4, <4>1, <4>2 DEF Counting
      <4>4. Throttled'
        BY <3>1, <3>4, <4>1 DEF Throttled, CounterOK, InTime
      <4>5. Typed'
        BY <3>1, <3>2, <3>4 DEF Typed, Rows
      <4> QED BY <4>3, <4>4, <4>5
    <3> QED BY <2>1, <3>3, <3>4, ProvingBecomes, EffectsBecomes, AskingBecomes
  <2>2. CASE \/ Tick \/ HostRead \/ HostWrite \/ HostTokens \/ UNCHANGED vars
             \/ \E b \in Browsers : TryAgain(b) \/ NotNow(b)
    <3>1. UNCHANGED <<req, requests>> /\ now' \in Nat
      BY <2>2 DEF Tick, HostRead, HostWrite, HostTokens, vars, TryAgain, NotNow, Typed
    <3>2. Rows'
      <4>1. CASE Tick \/ UNCHANGED vars
        BY <4>1 DEF Tick, vars, stores, Typed, Rows
      <4> QED BY <2>2, <4>1, HostRows
    <3> QED BY <2>2, <3>1, <3>2, OtherThrottled DEF Typed, Rows
  <2> QED BY <2>1, <2>2 DEF Next
<1> QED BY <1>1, <1>2, PTL DEF Spec

\* TypeOK: the throttle's row above all (throttle.ts): however the failures of one
\* person race, none blocks for longer than the greatest delay from now.
THEOREM NobodyLockedOut == Spec => []TypeOK
<1>1. Typed /\ Throttled => TypeOK
  BY DEF Typed, Throttled, CounterOK, TypeOK
<1> QED BY <1>1, ThrottleInvariant, PTL

\* GuessesSpaced (throttle.ts): the throttle is read before the work and written after
\* it, and still a failure nobody raced with comes a delay after the one before.
THEOREM GuessesAreSpaced == Spec => GuessesSpaced
<1>1. Typed /\ Throttled =>
        \A r \in Requests : req[r].pc = "counted" /\ counter = req[r].saw
          => req[r].when >= counter.at + DelayAfter(counter.failures)
  <2> SUFFICES ASSUME Typed, Throttled, NEW r \in Requests, req[r].pc = "counted", counter = req[r].saw
               PROVE  req[r].when >= counter.at + DelayAfter(counter.failures)
    OBVIOUS
  <2>1. CounterOK(counter) /\ counter.at <= req[r].when /\ counter.until <= req[r].when
    BY DEF Throttled, InTime
  <2>2. counter.failures \in Nat /\ counter.at \in Int /\ req[r].when \in Int
    BY <2>1, Bounds DEF CounterOK, Counter, Typed, Request
  <2>3. PICK d \in Nat : d = DelayAfter(counter.failures)
    BY <2>2, DelayBounded, Bounds
  <2>4. d > 0 => counter.until = counter.at + d
    BY <2>1, <2>3 DEF CounterOK
  <2> QED BY <2>1, <2>2, <2>3, <2>4
<1>2. Typed /\ Throttled =>
        [\A r \in Requests : req[r].pc = "counted" /\ req'[r].pc = "idle" /\ counter = req[r].saw
           => req[r].when >= counter.at + DelayAfter(counter.failures)]_vars
  BY <1>1
<1> QED BY <1>2, ThrottleInvariant, PTL DEF GuessesSpaced

=============================================================================
