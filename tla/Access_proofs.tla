---------------------------- MODULE Access_proofs ----------------------------
(***************************************************************************)
(* Access taken away reaches the tokens, for any people, apps, groups,     *)
(* requests and handlers of admins.                                        *)
(*                                                                         *)
(* Between a write and the last token it takes back a handler is under way *)
(* over many awaits.  The invariant says which one still has each family in*)
(* hand (Pursued): the pair is ahead on its list, or its Grants are being  *)
(* looked for, or the family's id was read.  Being suspended and having no *)
(* access are kept apart: a handler that finds access passes the pair by,  *)
(* and the person may be suspended all the same.                           *)
(***************************************************************************)
EXTENDS Access, TLAPS

Types ==
    /\ active \in [Users -> BOOLEAN]
    /\ app \in [Clients -> App]
    /\ grant \in [Users -> [Clients -> Grant]]
    /\ group \in [Groups -> Group]
    /\ visited \subseteq Users \X Clients
    /\ session \in [Users -> Session]
    /\ family \in [Families -> Family]
    /\ req \in [Requests -> Request]
    /\ adm \in [Admins -> Handler]
    /\ stale \in BOOLEAN /\ cutOff \in BOOLEAN /\ changes \in Nat

\* An app that is not there declares nothing, a group not yet made has nobody.
Rows ==
    /\ \A c \in Clients : ~app[c].there => app[c].roles = {}
    /\ \A g \in Groups : group[g].state = "unborn" => group[g].members = {}
    /\ RolesDeclared

Belongs(f, u, c) == family[f].user = u /\ family[f].client = c

\* A family has an owner and an app for ever; a session knows its own.
Owned ==
    /\ \A f \in Families :
         /\ family[f].user = None =>
                ~family[f].there /\ ~family[f].code /\ family[f].held = "none"
         /\ family[f].user # None => family[f].client # None
    /\ \A u \in Users, c \in Clients :
         session[u].grants[c] # None => Belongs(session[u].grants[c], u, c)

\* What a request holds is of the person and the app it is for; an audience judged
\* before the last write is still allowed.
Authorizing == {"load", "find", "save", "code", "prompt", "asked", "consent", "mint"}

AskingOf(r) ==
    /\ req[r].pc \in Authorizing =>
         /\ req[r].user # None /\ req[r].client # None
         /\ req[r].fam # None => Belongs(req[r].fam, req[r].user, req[r].client)
    /\ req[r].pc \in {"code", "redeem", "refresh", "answer"} =>
         req[r].fam # None /\ family[req[r].fam].user # None
    /\ req[r].pc \in {"refresh", "answer"} =>
         /\ req[r].at <= changes
         /\ req[r].aud # None /\ req[r].at = changes =>
              Allowed(req[r].aud, family[req[r].fam].client, family[req[r].fam].user)

Asking == \A r \in Requests : AskingOf(r)

GroupOps == {"members", "groupSet", "groupRevoke", "groupRemove"}
AppOps == {"set", "revoke", "groupSet", "groupRevoke", "register", "update",
           "enable", "disable", "remove"}

\* What a handler was called with, and that a manifest is applied to a row there is.
HandlerOK(h) ==
    /\ h.op \in AppOps => h.client # None
    /\ h.op \in {"set", "revoke"} => h.user # None
    /\ h.op \in GroupOps => h.group # None
    /\ h.op = "disable" => h.pc \in {"write", "tokens"} /\ h.ids = {} /\ h.todo = {}
    /\ h.op = "groupRevoke" /\ h.pc = "write" => h.seenClients = {h.client}
    /\ h.pc = "sessions" => h.client = None
    /\ h.pc = "fill" =>
         /\ h.op \in {"register", "update", "remove"}
         /\ h.op # "remove" /\ ~h.lost => app[h.client].there

Handling == \A a \in Admins : HandlerOK(adm[a])

InHand(a, f) ==
    \/ adm[a].pc = "sessions" /\ adm[a].user = family[f].user
    \/ adm[a].pc = "find" /\ adm[a].user = family[f].user
                          /\ adm[a].client \in {family[f].client, None}
    \/ adm[a].pc \in {"tokens", "grants"} /\ f \in adm[a].ids

Ahead(a, f) ==
    \/ /\ adm[a].pc \in {"cut", "find", "tokens", "grants"}
       /\ <<family[f].user, family[f].client>> \in adm[a].todo
    \/ At(a, "disable", "tokens") /\ adm[a].client = family[f].client

Standing(f) == family[f].there /\ ~family[f].late

PursuedOf(f) ==
    /\ active[family[f].user] \/ \E a \in Admins : InHand(a, f)
    /\ \/ HasAccess(family[f].user, family[f].client)
       \/ \E a \in Admins : InHand(a, f) \/ Ahead(a, f)

Pursued == stale \/ cutOff \/ \A f \in Families : Standing(f) => PursuedOf(f)

IInv == Types /\ Rows /\ Owned /\ Asking /\ Handling /\ Pursued

-----------------------------------------------------------------------------
LEMMA Initially == Init => IInv
<1> SUFFICES ASSUME Init PROVE IInv
  OBVIOUS
<1> USE AccessAssumption
<1>1. Types
  <2>1. grant \in [Users -> [Clients -> Grant]]
    BY DEF Init, Grant
  <2>2. group \in [Groups -> Group]
    <3>1. PICK direct \in SUBSET Users, grouped \in BOOLEAN :
            group = [g \in Groups |->
                IF grouped
                THEN [state |-> "there", members |-> Users,
                      grants |-> [c \in Clients |->
                          [on |-> TRUE, roles |-> IF TRUE THEN Roles ELSE {}]]]
                ELSE Nothing("unborn")]
      BY DEF Init
    <3>2. Nothing("unborn") \in Group
      BY DEF Nothing, Ungranted, Group, Grant
    <3>3. [state |-> "there", members |-> Users,
           grants |-> [c \in Clients |-> [on |-> TRUE, roles |-> Roles]]] \in Group
      BY DEF Group, Grant
    <3> QED BY <3>1, <3>2, <3>3
  <2>3. session \in [Users -> Session] /\ family \in [Families -> Family]
    BY DEF Init, Session, SignedOut, Family, Unminted
  <2>4. req \in [Requests -> Request] /\ adm \in [Admins -> Handler]
    BY DEF Init, Request, Quiet, Handler, Resting
  <2>5. app \in [Clients -> App]
    BY DEF Init, App
  <2> QED BY <2>1, <2>2, <2>3, <2>4, <2>5 DEF Types, Init
<1>2. Rows
  BY DEF Rows, RolesDeclared, Init, Nothing, Ungranted
<1>3. Owned
  BY DEF Owned, Init, SignedOut, Unminted
<1>4. Asking
  BY DEF Asking, AskingOf, Authorizing, Init, Quiet
<1>5. Handling
  BY DEF Handling, HandlerOK, Init, Resting, AppOps, GroupOps
<1>6. Pursued
  BY DEF Pursued, Init, Standing, Unminted
<1> QED BY <1>1, <1>2, <1>3, <1>4, <1>5, <1>6 DEF IInv

-----------------------------------------------------------------------------
(* Requests. *)

\* A browser, and an app's server, change no grant and no handler.
LEMMA RequestsLeaveTheRest ==
    ASSUME Browsing \/ Serving
    PROVE  UNCHANGED <<active, app, grant, group, adm, history, changes>>
<1>1. CASE Browsing
  BY <1>1 DEF Browsing, Authorize, LoadAccess, FindGrant, SaveGrant, IssueCode, Prompt, Continue,
              WalkAway, Consent, SaveConsent, SignInAgain, rows, issued, history
<1>2. CASE Serving
  BY <1>2 DEF Serving, RedeemRead, RedeemSave, RefreshJudge, RefreshConsume, RefreshAnswer, Reuse,
              rows, issued, history
<1> QED BY <1>1, <1>2

\* What a step does to the families: an owner is for ever, and a family stands
\* after it that stood before it or is of somebody who may have it.
FamilyStep ==
    \A f \in Families :
        /\ family[f].user # None => /\ family'[f].user = family[f].user
                                    /\ family'[f].client = family[f].client
        /\ family'[f].there /\ ~family'[f].late =>
             \/ Standing(f)
             \/ active[family'[f].user] /\ HasAccess(family'[f].user, family'[f].client)

\* A request that took no step still holds what it held.
LEMMA AskingStays ==
    ASSUME Types, Owned, FamilyStep, NEW r \in Requests, AskingOf(r), req'[r] = req[r],
           changes' \in Nat, changes <= changes',
           changes' = changes => UNCHANGED <<app, grant, group>>
    PROVE  AskingOf(r)'
<1> DEFINE q == req[r]
<1> q \in Request /\ changes \in Nat
  BY DEF Types
<1>1. q.fam \in Families \cup {None} /\ q.at \in Nat /\ q.aud \in Clients \cup {None}
  BY DEF Request
<1>2. q.fam # None /\ family[q.fam].user # None =>
        family'[q.fam].user = family[q.fam].user /\ family'[q.fam].client = family[q.fam].client
  BY <1>1 DEF FamilyStep
<1>3. q.pc \in Authorizing =>
        /\ q.user # None /\ q.client # None
        /\ q.fam # None => family'[q.fam].user = q.user /\ family'[q.fam].client = q.client
  BY <1>2 DEF AskingOf, Belongs
<1>4. q.pc \in {"code", "redeem", "refresh", "answer"} =>
        q.fam # None /\ family'[q.fam].user # None
  BY <1>2 DEF AskingOf
<1>5. ASSUME q.pc \in {"refresh", "answer"}
      PROVE  /\ q.at <= changes'
             /\ q.aud # None /\ q.at = changes' =>
                  Allowed(q.aud, family[q.fam].client, family[q.fam].user)'
  <2>1. q.at <= changes
    BY <1>5 DEF AskingOf
  <2>2. ASSUME q.aud # None, q.at = changes'
        PROVE  Allowed(q.aud, family[q.fam].client, family[q.fam].user)'
    <3>1. changes' = changes /\ UNCHANGED <<app, grant, group>>
      BY <1>1, <2>1, <2>2
    <3>2. Allowed(q.aud, family[q.fam].client, family[q.fam].user)
      BY <1>5, <2>2, <3>1 DEF AskingOf
    <3> QED BY <1>2, <1>4, <1>5, <3>1, <3>2 DEF Allowed, Served, HasAccess, Members, AskingOf
  <2> QED BY <1>1, <2>1, <2>2
<1> QED BY <1>3, <1>4, <1>5 DEF AskingOf, Belongs

\* One request takes a step, and what it holds then is its own.
RequestMoves(r) ==
    /\ req' \in [Requests -> Request]
    /\ \A s \in Requests : s # r => req'[s] = req[s]
    /\ AskingOf(r)'

LEMMA AudiencesOfApps ==
    ASSUME NEW S \in SUBSET Clients, NEW aud \in Clients \cup {None}, NEW c, NEW u
    PROVE  WithAudience(S, aud, c, u) \subseteq Clients
BY DEF WithAudience

\* The steps that only read.
LEMMA Reading ==
    ASSUME Types, Owned, Asking, NEW r \in Requests,
           \/ Authorize(r) \/ LoadAccess(r) \/ FindGrant(r) \/ Prompt(r) \/ Continue(r)
           \/ WalkAway(r) \/ Consent(r) \/ RedeemRead(r) \/ RefreshJudge(r)
    PROVE  UNCHANGED issued /\ visited' \subseteq Users \X Clients /\ RequestMoves(r)
<1> DEFINE q == req[r]
<1> USE AccessAssumption
<1>1. /\ q \in Request /\ req \in [Requests -> Request]
      /\ visited \subseteq Users \X Clients
  BY DEF Types
<1>2. AskingOf(r)
  BY DEF Asking
<1>3. CASE Authorize(r)
  <2>1. PICK u \in Users, c \in Clients, aud \in Clients \cup {None} :
          req' = [req EXCEPT ![r] = [Quiet EXCEPT !.pc = "load", !.user = u,
                                                  !.client = c, !.aud = aud]]
    BY <1>3 DEF Authorize
  <2>2. req'[r].pc = "load" /\ req'[r].user = u /\ req'[r].client = c /\ req'[r].fam = None
    BY <1>1, <2>1 DEF Quiet
  <2>3. req' \in [Requests -> Request]
    BY <1>1, <2>1 DEF Quiet, Request
  <2>4. AskingOf(r)'
    BY <2>2 DEF AskingOf
  <2> QED BY <1>1, <1>3, <2>1, <2>3, <2>4 DEF RequestMoves, Authorize, rows
<1>4. CASE LoadAccess(r) \/ Prompt(r) \/ WalkAway(r) \/ Consent(r)
  <2>1. /\ q.pc \in Authorizing
        /\ \/ req' = [req EXCEPT ![r] = Quiet]
           \/ \E pc \in {"find", "prompt", "consent", "asked", "mint"} :
                req' = [req EXCEPT ![r].pc = pc]
    BY <1>1, <1>4 DEF LoadAccess, Prompt, WalkAway, Consent, To, Ends, Authorizing
  <2>2. UNCHANGED <<rows, issued>>
    BY <1>4 DEF LoadAccess, Prompt, WalkAway, Consent
  <2>3. CASE req' = [req EXCEPT ![r] = Quiet]
    BY <1>1, <2>2, <2>3 DEF RequestMoves, AskingOf, Authorizing, Quiet, Request, rows
  <2>4. ASSUME NEW pc \in {"find", "prompt", "consent", "asked", "mint"},
               req' = [req EXCEPT ![r].pc = pc]
        PROVE  RequestMoves(r)
    <3>1. req' \in [Requests -> Request]
      BY <1>1, <2>4 DEF Request
    <3>2. /\ req'[r].pc = pc /\ req'[r].user = q.user /\ req'[r].client = q.client
          /\ req'[r].fam = q.fam
      BY <1>1, <2>4 DEF Request
    <3>3. AskingOf(r)'
      BY <1>2, <2>1, <2>2, <3>2 DEF AskingOf, Authorizing, Belongs, issued
    <3> QED BY <1>1, <2>4, <3>1, <3>3 DEF RequestMoves
  <2> QED BY <1>1, <2>1, <2>2, <2>3, <2>4 DEF rows
<1>5. CASE Continue(r)
  <2>1. q.pc \in Authorizing /\ UNCHANGED issued
    BY <1>5 DEF Continue, Authorizing
  <2>2. CASE HasAccess(q.user, q.client)
    <3>1. visited' = visited \cup {<<q.user, q.client>>} /\ req' = [req EXCEPT ![r].pc = "consent"]
      BY <1>5, <2>2 DEF Continue, To
    <3>2. q.user \in Users /\ q.client \in Clients
      BY <1>1, <1>2, <2>1 DEF Request, AskingOf
    <3>3. req' \in [Requests -> Request]
      BY <1>1, <3>1 DEF Request
    <3>4. /\ req'[r].pc = "consent" /\ req'[r].user = q.user /\ req'[r].client = q.client
          /\ req'[r].fam = q.fam
      BY <1>1, <3>1 DEF Request
    <3>5. AskingOf(r)'
      BY <1>2, <2>1, <3>4 DEF AskingOf, Authorizing, Belongs, issued
    <3> QED BY <1>1, <2>1, <3>1, <3>2, <3>3, <3>5 DEF RequestMoves
  <2>3. CASE ~HasAccess(q.user, q.client)
    <3>1. visited' = visited /\ req' = [req EXCEPT ![r] = Quiet]
      BY <1>5, <2>3 DEF Continue, Ends
    <3> QED BY <1>1, <2>1, <3>1 DEF RequestMoves, AskingOf, Authorizing, Quiet, Request
  <2> QED BY <2>2, <2>3
<1>6. CASE FindGrant(r)
  <2> DEFINE known == IF q.fam # None THEN q.fam ELSE session[q.user].grants[q.client]
             found == known # None /\ family[known].there
             had == IF found THEN family[known].audiences ELSE {}
             fam == IF found THEN known ELSE None
             audiences == WithAudience(had, q.aud, q.client, q.user)
  <2>1. /\ q.pc = "find" /\ UNCHANGED <<rows, issued>>
        /\ req' = [req EXCEPT ![r].pc = "save", ![r].fam = fam, ![r].audiences = audiences]
    BY <1>6 DEF FindGrant
  <2>2. /\ q.user \in Users /\ q.client \in Clients
        /\ q.fam # None => Belongs(q.fam, q.user, q.client)
    BY <1>1, <1>2, <2>1 DEF Request, AskingOf, Authorizing
  <2>3. session[q.user].grants[q.client] \in Families \cup {None}
    BY <2>2 DEF Types, Session
  <2>4. known \in Families \cup {None} /\ (known # None => Belongs(known, q.user, q.client))
    BY <1>1, <2>2, <2>3 DEF Owned, Request
  <2>5. had \subseteq Clients
    BY <2>4 DEF Types, Family
  <2>6. audiences \subseteq Clients
    <3> HIDE DEF had
    <3> QED BY <1>1, <2>5, AudiencesOfApps DEF Request
  <2>7. fam \in Families \cup {None} /\ (fam # None => Belongs(fam, q.user, q.client))
    BY <2>4
  <2> HIDE DEF fam, audiences
  <2>8. req' \in [Requests -> Request]
    BY <1>1, <2>1, <2>6, <2>7 DEF Request
  <2>9. /\ req'[r].pc = "save" /\ req'[r].user = q.user /\ req'[r].client = q.client
        /\ req'[r].fam = fam
    BY <1>1, <2>1 DEF Request
  <2>10. AskingOf(r)'
    BY <2>1, <2>2, <2>7, <2>9 DEF AskingOf, Belongs, issued
  <2> QED BY <1>1, <2>1, <2>8, <2>10 DEF RequestMoves, rows
<1>7. CASE RedeemRead(r)
  <2>1. PICK f \in Families : /\ family[f].there
                              /\ req' = [req EXCEPT ![r] = [Quiet EXCEPT !.pc = "redeem", !.fam = f]]
    BY <1>7 DEF RedeemRead, Honoured
  <2>2. family[f].user # None
    BY <2>1 DEF Owned
  <2>3. req'[r].pc = "redeem" /\ req'[r].fam = f /\ req' \in [Requests -> Request]
    BY <1>1, <2>1 DEF Quiet, Request
  <2>4. AskingOf(r)'
    BY <1>7, <2>2, <2>3 DEF AskingOf, Authorizing, RedeemRead, issued
  <2> QED BY <1>1, <1>7, <2>1, <2>3, <2>4 DEF RequestMoves, RedeemRead, rows
<1>8. CASE RefreshJudge(r)
  <2>1. PICK f \in Families, aud \in Clients \cup {None} :
          /\ family[f].there /\ Judged(f, aud)
          /\ req' = [req EXCEPT ![r] = [Quiet EXCEPT !.pc = "refresh", !.fam = f, !.aud = aud,
                                                     !.at = changes]]
    BY <1>8 DEF RefreshJudge, Honoured
  <2>2. family[f].user # None /\ (aud # None => Allowed(aud, family[f].client, family[f].user))
    BY <2>1 DEF Owned, Judged
  <2>3. changes \in Nat
    BY DEF Types
  <2>4. /\ req'[r].pc = "refresh" /\ req'[r].fam = f /\ req'[r].aud = aud
        /\ req'[r].at = changes /\ req' \in [Requests -> Request]
    BY <1>1, <2>1, <2>3 DEF Quiet, Request
  <2>5. UNCHANGED <<rows, issued, changes>>
    BY <1>8 DEF RefreshJudge
  <2>6. f # None
    OBVIOUS
  <2>7. aud # None => Allowed(aud, family[f].client, family[f].user)'
    BY <2>2, <2>5 DEF Allowed, Served, HasAccess, Members, rows, issued
  <2>8. AskingOf(r)'
    BY <2>2, <2>3, <2>4, <2>5, <2>6, <2>7 DEF AskingOf, Authorizing, issued
  <2> QED BY <1>1, <2>1, <2>4, <2>5, <2>8 DEF RequestMoves, rows
<1> QED BY <1>3, <1>4, <1>5, <1>6, <1>7, <1>8

\* What a step leaves of the families and of the sessions.
IssuedStep ==
    /\ session' \in [Users -> Session] /\ family' \in [Families -> Family]
    /\ Owned' /\ FamilyStep

LEMMA IssuedStays ==
    ASSUME Types, Owned, UNCHANGED issued
    PROVE  IssuedStep
BY DEF Types, IssuedStep, Owned, FamilyStep, Standing, Belongs, issued

\* One family changes, as its owner and its app let it.
LEMMA OneFamily ==
    ASSUME Types, Owned, UNCHANGED session, NEW f \in Families, NEW new \in Family,
           family' = [family EXCEPT ![f] = new],
           new.user # None, new.client # None,
           family[f].user # None => new.user = family[f].user /\ new.client = family[f].client,
           new.there /\ ~new.late =>
               \/ Standing(f)
               \/ active[new.user] /\ HasAccess(new.user, new.client)
    PROVE  IssuedStep
<1>1. family \in [Families -> Family] /\ session \in [Users -> Session]
  BY DEF Types
<1>2. \A g \in Families : family'[g] = IF g = f THEN new ELSE family[g]
  BY <1>1
<1>3. FamilyStep
  BY <1>2 DEF FamilyStep, Standing
<1>4. ASSUME NEW u \in Users, NEW c \in Clients, session[u].grants[c] # None
      PROVE  Belongs(session[u].grants[c], u, c)'
  <2> DEFINE g == session[u].grants[c]
  <2>1. g \in Families /\ family[g].user = u /\ family[g].client = c
    BY <1>1, <1>4 DEF Owned, Belongs, Session
  <2>2. family'[g].user = u /\ family'[g].client = c
    BY <1>2, <2>1, AccessAssumption
  <2> QED BY <2>2 DEF Belongs
<1>5. Owned'
  BY <1>2, <1>4 DEF Owned, Belongs
<1> QED BY <1>1, <1>3, <1>5 DEF IssuedStep

\* A Grant saved under a new id, late or not, is of the request's person and app.
LEMMA MintedIsOwn ==
    ASSUME Types, Owned, Asking, UNCHANGED session, NEW r \in Requests, NEW f \in Families,
           family[f].user = None, req[r].pc \in Authorizing,
           NEW S \in SUBSET Clients, Minted(f, req[r], S)
    PROVE  /\ IssuedStep
           /\ family'[f].user = req[r].user /\ family'[f].client = req[r].client
<1> DEFINE q == req[r]
           new == [Unminted EXCEPT !.user = q.user, !.client = q.client, !.there = TRUE,
                                   !.audiences = S, !.late = Late(q.user, q.client)]
<1>1. q.user \in Users /\ q.client \in Clients /\ q.user # None /\ q.client # None
  BY DEF Types, Request, Asking, AskingOf
<1>2. new \in Family
  BY <1>1 DEF Unminted, Family, Late
<1>3. family' = [family EXCEPT ![f] = new] /\ family \in [Families -> Family]
  BY DEF Minted, Types
<1>4. /\ new.user = q.user /\ new.client = q.client /\ new.there
      /\ new.late = Late(q.user, q.client)
  BY DEF Unminted
<1>5. ~new.late => active[new.user] /\ HasAccess(new.user, new.client)
  BY <1>4 DEF Late
<1>6. IssuedStep
  <2> HIDE DEF new
  <2> QED BY <1>1, <1>2, <1>3, <1>4, <1>5, OneFamily
<1>7. family'[f] = new
  BY <1>3
<1> QED BY <1>4, <1>6, <1>7

\* The steps of requests that write families.
LEMMA Saving ==
    ASSUME Types, Owned, Asking, NEW r \in Requests,
           \/ SaveGrant(r) \/ IssueCode(r) \/ SaveConsent(r) \/ RedeemSave(r)
           \/ RefreshConsume(r) \/ RefreshAnswer(r)
    PROVE  visited' = visited /\ IssuedStep /\ RequestMoves(r)
<1> DEFINE q == req[r]
<1> USE AccessAssumption
<1>1. /\ q \in Request /\ req \in [Requests -> Request]
      /\ family \in [Families -> Family] /\ session \in [Users -> Session]
  BY DEF Types
<1>2. AskingOf(r)
  BY DEF Asking
<1>3. UNCHANGED <<rows, changes>>
  BY DEF SaveGrant, IssueCode, SaveConsent, RedeemSave, RefreshConsume, RefreshAnswer
<1>4. ASSUME IssuedStep, req' = [req EXCEPT ![r] = Quiet]
      PROVE  RequestMoves(r)
  BY <1>1, <1>4 DEF RequestMoves, AskingOf, Authorizing, Quiet, Request
<1>5. CASE SaveGrant(r) /\ q.fam # None
  <2> DEFINE new == [family[q.fam] EXCEPT !.there = TRUE, !.audiences = q.audiences,
                                          !.late = @ \/ Late(q.user, q.client)]
  <2>1. q.pc = "save" /\ family' = [family EXCEPT ![q.fam] = new] /\ session' = session
    BY <1>1, <1>5 DEF SaveGrant
  <2>2. /\ q.fam \in Families /\ Belongs(q.fam, q.user, q.client) /\ q.user # None
        /\ q.client # None /\ q.audiences \subseteq Clients
    BY <1>1, <1>2, <1>5, <2>1 DEF AskingOf, Authorizing, Request
  <2>3. family[q.fam] \in Family
    BY <1>1, <2>2
  <2>4. new \in Family
    BY <2>2, <2>3 DEF Family, Late
  <2>5. /\ new.user = q.user /\ new.client = q.client
        /\ new.late = (family[q.fam].late \/ Late(q.user, q.client))
    BY <2>2, <2>3 DEF Family, Belongs
  <2>6. ~new.late => active[new.user] /\ HasAccess(new.user, new.client)
    BY <2>5 DEF Late
  <2>7. IssuedStep
    <3> HIDE DEF new
    <3> QED BY <2>1, <2>2, <2>4, <2>5, <2>6, OneFamily DEF Belongs
  <2>8. req' = [req EXCEPT ![r].pc = "code"]
    BY <1>1, <1>5 DEF SaveGrant, To
  <2>9. /\ req'[r].pc = "code" /\ req'[r].user = q.user /\ req'[r].client = q.client
        /\ req'[r].fam = q.fam /\ req' \in [Requests -> Request]
    BY <1>1, <2>8 DEF Request
  <2>10. family'[q.fam].user = q.user /\ family'[q.fam].client = q.client
    <3> HIDE DEF new
    <3> QED BY <1>1, <2>1, <2>2, <2>5
  <2>11. AskingOf(r)'
    BY <2>2, <2>9, <2>10 DEF AskingOf, Belongs
  <2> QED BY <1>3, <2>7, <2>8, <2>9, <2>11, <1>1 DEF RequestMoves, rows
<1>6. CASE SaveGrant(r) /\ q.fam = None
  <2>1. PICK f \in Families : /\ family[f].user = None /\ Minted(f, q, q.audiences)
                              /\ req' = [req EXCEPT ![r].pc = "code", ![r].fam = f]
    BY <1>6 DEF SaveGrant
  <2>2. q.pc = "save" /\ session' = session
    BY <1>6 DEF SaveGrant
  <2>3. q.audiences \subseteq Clients /\ q.pc \in Authorizing /\ q.user # None /\ q.client # None
    BY <1>1, <1>2, <2>2 DEF Request, Authorizing, AskingOf
  <2>4. IssuedStep /\ family'[f].user = q.user /\ family'[f].client = q.client
    BY <2>1, <2>2, <2>3, MintedIsOwn
  <2>5. /\ req'[r].pc = "code" /\ req'[r].user = q.user /\ req'[r].client = q.client
        /\ req'[r].fam = f /\ req' \in [Requests -> Request]
    BY <1>1, <2>1 DEF Request
  <2>6. AskingOf(r)'
    BY <2>1, <2>3, <2>4, <2>5 DEF AskingOf, Belongs, Authorizing
  <2> QED BY <1>1, <1>3, <2>1, <2>4, <2>5, <2>6 DEF RequestMoves, rows
<1>7. CASE SaveConsent(r)
  <2>1. PICK f \in Families : /\ family[f].user = None /\ Minted(f, q, {})
                              /\ req' = [req EXCEPT ![r].pc = "load", ![r].fam = f]
    BY <1>7 DEF SaveConsent
  <2>2. q.pc = "mint" /\ session' = session
    BY <1>7 DEF SaveConsent
  <2>3. q.pc \in Authorizing /\ q.user # None /\ q.client # None
    BY <1>2, <2>2 DEF Authorizing, AskingOf
  <2>4. IssuedStep /\ family'[f].user = q.user /\ family'[f].client = q.client
    BY <2>1, <2>2, <2>3, MintedIsOwn
  <2>5. /\ req'[r].pc = "load" /\ req'[r].user = q.user /\ req'[r].client = q.client
        /\ req'[r].fam = f /\ req' \in [Requests -> Request]
    BY <1>1, <2>1 DEF Request
  <2>6. AskingOf(r)'
    BY <2>1, <2>3, <2>4, <2>5 DEF AskingOf, Belongs, Authorizing
  <2> QED BY <1>1, <1>3, <2>1, <2>4, <2>5, <2>6 DEF RequestMoves, rows
<1>8. CASE IssueCode(r)
  <2> DEFINE new == [family[q.fam] EXCEPT !.code = TRUE]
  <2>1. /\ q.pc = "code" /\ family' = [family EXCEPT ![q.fam] = new]
        /\ session' = IF session[q.user].on
                      THEN [session EXCEPT ![q.user].grants[q.client] = q.fam]
                      ELSE session
        /\ req' = [req EXCEPT ![r] = Quiet]
    BY <1>1, <1>8 DEF IssueCode, Ends
  <2>2. /\ q.fam \in Families /\ Belongs(q.fam, q.user, q.client)
        /\ q.user \in Users /\ q.client \in Clients
    BY <1>1, <1>2, <2>1 DEF AskingOf, Authorizing, Request
  <2>3. /\ new \in Family /\ new.user = family[q.fam].user /\ new.client = family[q.fam].client
        /\ new.there = family[q.fam].there /\ new.late = family[q.fam].late
        /\ family[q.fam].user # None /\ family[q.fam].client # None
    <3>1. family[q.fam] \in Family
      BY <1>1, <2>2
    <3>2. family[q.fam].user # None /\ family[q.fam].client # None
      BY <2>2 DEF Belongs
    <3> QED BY <3>1, <3>2 DEF Family
  <2> HIDE DEF new
  <2>4. \A g \in Families : family'[g] = IF g = q.fam THEN new ELSE family[g]
    BY <1>1, <2>1
  <2>5. FamilyStep /\ family' \in [Families -> Family]
    BY <1>1, <2>1, <2>3, <2>4 DEF FamilyStep, Standing
  <2>6. session' \in [Users -> Session]
    BY <1>1, <2>1, <2>2 DEF Session
  <2>7. ASSUME NEW u \in Users, NEW c \in Clients, session'[u].grants[c] # None
        PROVE  Belongs(session[u].grants[c], u, c)'
    <3>1. CASE session'[u].grants[c] = session[u].grants[c]
      <4>1. session[u].grants[c] \in Families /\ Belongs(session[u].grants[c], u, c)
        BY <1>1, <2>7, <3>1 DEF Owned, Session
      <4> QED BY <2>3, <2>4, <3>1, <4>1 DEF Belongs
    <3>2. CASE session'[u].grants[c] # session[u].grants[c]
      <4>1. u = q.user /\ c = q.client /\ session'[u].grants[c] = q.fam
        BY <1>1, <2>1, <2>2, <3>2 DEF Session
      <4> QED BY <2>2, <2>3, <2>4, <4>1 DEF Belongs
    <3> QED BY <3>1, <3>2
  <2>8. Owned'
    BY <2>3, <2>4, <2>7 DEF Owned
  <2>9. IssuedStep
    BY <2>5, <2>6, <2>8 DEF IssuedStep
  <2> QED BY <1>3, <1>4, <2>1, <2>9 DEF rows
<1>9. CASE RedeemSave(r) \/ RefreshConsume(r) \/ RefreshAnswer(r)
  <2>1. q.pc \in {"redeem", "refresh", "answer"}
    BY <1>9 DEF RedeemSave, RefreshConsume, RefreshAnswer
  <2>2. q.fam \in Families /\ family[q.fam].user # None /\ family[q.fam].client # None
    BY <1>1, <1>2, <2>1 DEF AskingOf, Request, Owned
  <2>3. PICK code \in BOOLEAN, held \in {"none", "fresh", "burnt"} :
          family' = [family EXCEPT ![q.fam] = [@ EXCEPT !.code = code, !.held = held]]
    <3>1. CASE RedeemSave(r)
      BY <1>1, <2>2, <3>1 DEF RedeemSave, Family
    <3>2. CASE RefreshConsume(r)
      <4>1. family' = [family EXCEPT ![q.fam].held =
                         IF family[q.fam].held = "fresh" THEN "burnt" ELSE family[q.fam].held]
        BY <3>2 DEF RefreshConsume
      <4>2. family[q.fam] \in Family
        BY <1>1, <2>2
      <4>3. family' = [family EXCEPT ![q.fam] = [@ EXCEPT !.code = family[q.fam].code,
              !.held = IF family[q.fam].held = "fresh" THEN "burnt" ELSE family[q.fam].held]]
        BY <1>1, <2>2, <4>1, <4>2 DEF Family
      <4> QED BY <4>2, <4>3 DEF Family
    <3>3. CASE RefreshAnswer(r)
      <4>1. family[q.fam] \in Family
        BY <1>1, <2>2
      <4> DEFINE code == family[q.fam].code
                 same(held) == [family[q.fam] EXCEPT !.code = code, !.held = held]
      <4>2. same(family[q.fam].held) = family[q.fam]
        BY <4>1 DEF Family
      <4>3. same("fresh") = [family[q.fam] EXCEPT !.held = "fresh"]
        BY <4>1 DEF Family
      <4>4. family' = family \/ family' = [family EXCEPT ![q.fam] = same("fresh")]
        <5> HIDE DEF same
        <5> QED BY <1>1, <3>3, <4>3 DEF RefreshAnswer
      <4>5. PICK held \in {"fresh", family[q.fam].held} :
              family' = [family EXCEPT ![q.fam] = same(held)]
        <5>1. family = [family EXCEPT ![q.fam] = same(family[q.fam].held)]
          <6> HIDE DEF same
          <6> QED BY <1>1, <2>2, <4>2
        <5> HIDE DEF same
        <5> QED BY <4>4, <5>1
      <4>6. code \in BOOLEAN /\ held \in {"none", "fresh", "burnt"}
        BY <4>1, <4>5 DEF Family
      <4>7. family' = [family EXCEPT ![q.fam] = [@ EXCEPT !.code = code, !.held = held]]
        BY <4>5
      <4> HIDE DEF code
      <4> QED BY <4>6, <4>7
    <3> QED BY <1>9, <3>1, <3>2, <3>3
  <2> DEFINE new == [family[q.fam] EXCEPT !.code = code, !.held = held]
  <2>4. family' = [family EXCEPT ![q.fam] = new] /\ family[q.fam] \in Family
    <3>1. family[q.fam] \in Family
      BY <1>1, <2>2
    <3> QED BY <2>3, <3>1
  <2>5. /\ new \in Family /\ new.user = family[q.fam].user /\ new.client = family[q.fam].client
        /\ new.there = family[q.fam].there /\ new.late = family[q.fam].late
    BY <2>4 DEF Family
  <2>6. session' = session
    BY <1>9 DEF RedeemSave, RefreshConsume, RefreshAnswer
  <2>7. IssuedStep
    <3>1. new.there /\ ~new.late => Standing(q.fam)
      BY <2>5 DEF Standing
    <3>2. new.user # None /\ new.client # None
      BY <2>2, <2>5
    <3> HIDE DEF new
    <3> QED BY <2>2, <2>4, <2>5, <2>6, <3>1, <3>2, OneFamily
  <2>8. RequestMoves(r)
    <3>1. CASE RefreshConsume(r)
      <4>1. q.pc = "refresh" /\ req' = [req EXCEPT ![r].pc = "answer"]
        BY <3>1 DEF RefreshConsume, To
      <4>2. /\ req'[r].pc = "answer" /\ req'[r].fam = q.fam /\ req'[r].aud = q.aud
            /\ req'[r].at = q.at /\ req' \in [Requests -> Request]
        BY <1>1, <4>1 DEF Request
      <4>3. family'[q.fam].user = family[q.fam].user /\ family'[q.fam].client = family[q.fam].client
        <5> HIDE DEF new
        <5> QED BY <1>1, <2>2, <2>4, <2>5
      <4>4. UNCHANGED <<rows, changes>>
        BY <1>3
      <4>5. ASSUME NEW aud, NEW c, NEW u, Allowed(aud, c, u)
            PROVE  Allowed(aud, c, u)'
        BY <4>4, <4>5 DEF Allowed, Served, HasAccess, Members, rows
      <4>6. AskingOf(r)'
        BY <1>2, <2>2, <4>1, <4>2, <4>3, <4>4, <4>5 DEF AskingOf, Authorizing
      <4> QED BY <1>1, <4>1, <4>2, <4>6 DEF RequestMoves
    <3>2. CASE RedeemSave(r) \/ RefreshAnswer(r)
      BY <1>4, <2>7, <3>2 DEF RedeemSave, RefreshAnswer, Ends
    <3> QED BY <1>9, <3>1, <3>2
  <2> QED BY <1>3, <2>7, <2>8 DEF rows
<1> QED BY <1>5, <1>6, <1>7, <1>8, <1>9

LEMMA SignInAgainOrReuse ==
    ASSUME Types, Owned, \/ \E u \in Users : SignInAgain(u)
                         \/ \E f \in Families : Reuse(f)
    PROVE  UNCHANGED <<visited, req>> /\ IssuedStep
<1>1. family \in [Families -> Family] /\ session \in [Users -> Session]
  BY DEF Types
<1>2. ASSUME NEW u \in Users, SignInAgain(u)
      PROVE  UNCHANGED <<visited, req>> /\ IssuedStep
  <2>1. session' = [session EXCEPT ![u].on = TRUE] /\ UNCHANGED <<family, visited, req>>
    BY <1>2 DEF SignInAgain, rows
  <2>2. session' \in [Users -> Session] /\ \A v \in Users : session'[v].grants = session[v].grants
    BY <1>1, <2>1 DEF Session
  <2>3. Owned'
    BY <2>1, <2>2 DEF Owned, Belongs
  <2> QED BY <1>1, <2>1, <2>2, <2>3 DEF IssuedStep, FamilyStep, Standing
<1>3. ASSUME NEW f \in Families, Reuse(f)
      PROVE  UNCHANGED <<visited, req>> /\ IssuedStep
  <2> DEFINE new == [family[f] EXCEPT !.there = FALSE, !.code = FALSE, !.held = "none"]
  <2>1. family' = [family EXCEPT ![f] = new] /\ family[f].there /\ UNCHANGED <<session, visited, req>>
    BY <1>1, <1>3 DEF Reuse, Honoured, rows
  <2>2. family[f] \in Family /\ family[f].user # None /\ family[f].client # None
    BY <1>1, <2>1 DEF Owned
  <2>3. new \in Family /\ ~new.there /\ new.user = family[f].user /\ new.client = family[f].client
    BY <2>2 DEF Family
  <2>4. IssuedStep
    <3> HIDE DEF new
    <3> QED BY <2>1, <2>2, <2>3, OneFamily
  <2> QED BY <2>1, <2>4
<1> QED BY <1>2, <1>3

\* All that a request's step does.
LEMMA RequestsStep ==
    ASSUME Types, Owned, Asking, Browsing \/ Serving
    PROVE  /\ IssuedStep /\ visited' \subseteq Users \X Clients
           /\ req' \in [Requests -> Request] /\ Asking'
<1>1. UNCHANGED <<active, app, grant, group, adm, history, changes>>
  BY RequestsLeaveTheRest
<1>2. /\ visited \subseteq Users \X Clients /\ req \in [Requests -> Request]
      /\ changes \in Nat
  BY DEF Types
<1>3. ASSUME NEW r \in Requests, IssuedStep, RequestMoves(r)
      PROVE  req' \in [Requests -> Request] /\ Asking'
  <2>1. ASSUME NEW s \in Requests, s # r
        PROVE  AskingOf(s)'
    BY <1>1, <1>2, <1>3, <2>1, AskingStays DEF RequestMoves, IssuedStep, Asking
  <2> QED BY <1>3, <2>1 DEF RequestMoves, Asking
<1>4. CASE \E r \in Requests : \/ Authorize(r) \/ LoadAccess(r) \/ FindGrant(r) \/ Prompt(r)
                               \/ Continue(r) \/ WalkAway(r) \/ Consent(r) \/ RedeemRead(r)
                               \/ RefreshJudge(r)
  BY <1>3, <1>4, Reading, IssuedStays
<1>5. CASE \E r \in Requests : \/ SaveGrant(r) \/ IssueCode(r) \/ SaveConsent(r)
                               \/ RedeemSave(r) \/ RefreshConsume(r) \/ RefreshAnswer(r)
  BY <1>2, <1>3, <1>5, Saving
<1>6. CASE (\E u \in Users : SignInAgain(u)) \/ \E f \in Families : Reuse(f)
  <2>1. UNCHANGED <<visited, req>> /\ IssuedStep
    BY <1>6, SignInAgainOrReuse
  <2>2. ASSUME NEW s \in Requests
        PROVE  AskingOf(s)'
    BY <1>1, <1>2, <2>1, <2>2, AskingStays DEF IssuedStep, Asking
  <2> QED BY <1>2, <2>1, <2>2 DEF Asking
<1> QED BY <1>4, <1>5, <1>6 DEF Browsing, Serving

\* A handler that has a family in hand, or ahead, still has it when neither changes
\* owner.
LEMMA PursuedThroughRequests ==
    ASSUME Types, Owned, Pursued, IssuedStep,
           UNCHANGED <<active, app, grant, group, adm, history>>
    PROVE  Pursued'
<1> SUFFICES ASSUME ~stale, ~cutOff, NEW f \in Families, Standing(f)'
             PROVE  PursuedOf(f)'
  BY DEF Pursued, history
<1>1. ASSUME NEW u, NEW c
      PROVE  HasAccess(u, c)' = HasAccess(u, c)
  BY DEF HasAccess, Members
<1>2. CASE active[family'[f].user] /\ HasAccess(family'[f].user, family'[f].client)
  BY <1>1, <1>2 DEF PursuedOf
<1>3. CASE Standing(f)
  <2>1. family[f].user # None
    BY <1>3 DEF Standing, Owned
  <2>2. family'[f].user = family[f].user /\ family'[f].client = family[f].client
    BY <2>1 DEF IssuedStep, FamilyStep
  <2>3. PursuedOf(f)
    BY <1>3 DEF Pursued
  <2> QED BY <1>1, <2>2, <2>3 DEF PursuedOf, InHand, Ahead, At
<1> QED BY <1>2, <1>3 DEF IssuedStep, FamilyStep, Standing

LEMMA RequestsKeepAll == IInv /\ (Browsing \/ Serving) => IInv'
<1> SUFFICES ASSUME IInv, Browsing \/ Serving PROVE IInv'
  OBVIOUS
<1>1. Types /\ Rows /\ Owned /\ Asking /\ Handling /\ Pursued
  BY DEF IInv
<1>2. UNCHANGED <<active, app, grant, group, adm, history, changes>>
  BY RequestsLeaveTheRest
<1>3. /\ IssuedStep /\ visited' \subseteq Users \X Clients
      /\ req' \in [Requests -> Request] /\ Asking'
  BY <1>1, RequestsStep
<1>4. Types'
  BY <1>1, <1>2, <1>3 DEF Types, IssuedStep, history
<1>5. Rows' /\ Handling'
  BY <1>1, <1>2 DEF Rows, RolesDeclared, Handling, HandlerOK
<1>6. Pursued'
  BY <1>1, <1>2, <1>3, PursuedThroughRequests
<1> QED BY <1>3, <1>4, <1>5, <1>6 DEF IInv, IssuedStep

-----------------------------------------------------------------------------
(* Handlers of admins. *)

\* The handler that takes a step loses hold of no family that still stands: of whom it
\* suspends, of what it has in hand or ahead, of whom it takes access from.
KeepsHold(a, f) ==
    /\ active[family[f].user] => active'[family'[f].user] \/ InHand(a, f)'
    /\ InHand(a, f) => InHand(a, f)'
    /\ HasAccess(family[f].user, family[f].client) \/ Ahead(a, f) =>
         HasAccess(family[f].user, family[f].client)' \/ InHand(a, f)' \/ Ahead(a, f)'

RowTypes ==
    /\ active \in [Users -> BOOLEAN] /\ app \in [Clients -> App]
    /\ grant \in [Users -> [Clients -> Grant]] /\ group \in [Groups -> Group]
    /\ visited \subseteq Users \X Clients
    /\ stale \in BOOLEAN /\ cutOff \in BOOLEAN

\* A write is counted; without one the rows that give access stay.
Counted ==
    \/ changes' = changes + 1
    \/ changes' = changes /\ UNCHANGED <<app, grant, group>>

LEMMA OwnerKnown ==
    ASSUME Types, Owned, NEW f \in Families, family[f].there
    PROVE  /\ family[f].user \in Users /\ family[f].client \in Clients
           /\ family[f].user # None /\ family[f].client # None
<1>1. family[f] \in Family
  BY DEF Types
<1>2. family[f].user # None /\ family[f].client # None
  BY DEF Owned
<1> QED BY <1>1, <1>2 DEF Family

\* Nobody else's hold is lost when one handler goes on and others only lose a row.
LEMMA PursuedThroughAdmins ==
    ASSUME Types, Owned, Pursued, IssuedStep, NEW a \in Admins, NEW S, NEW h, Losing(S, a, h),
           stale => stale', cutOff => cutOff',
           \A f \in Families : Standing(f)' => Standing(f),
           ~stale' /\ ~cutOff' => \A f \in Families : Standing(f)' => KeepsHold(a, f)
    PROVE  Pursued'
<1> SUFFICES ASSUME ~stale', ~cutOff', NEW f \in Families, Standing(f)'
             PROVE  PursuedOf(f)'
  BY DEF Pursued
<1>1. Standing(f) /\ KeepsHold(a, f)
  OBVIOUS
<1>2. PursuedOf(f)
  BY <1>1 DEF Pursued
<1>3. family'[f].user = family[f].user /\ family'[f].client = family[f].client
  BY <1>1 DEF Standing, Owned, IssuedStep, FamilyStep
<1>4. ASSUME NEW b \in Admins, b # a
      PROVE  /\ InHand(b, f) => InHand(b, f)'
             /\ Ahead(b, f) => Ahead(b, f)'
  <2>1. adm[b] \in Handler
    BY DEF Types
  <2>2. adm'[b] = adm[b] \/ adm'[b] = [adm[b] EXCEPT !.lost = TRUE]
    BY <1>4 DEF Losing
  <2>3. /\ adm'[b].pc = adm[b].pc /\ adm'[b].op = adm[b].op /\ adm'[b].user = adm[b].user
        /\ adm'[b].client = adm[b].client /\ adm'[b].todo = adm[b].todo /\ adm'[b].ids = adm[b].ids
    BY <2>1, <2>2 DEF Handler
  <2> QED BY <1>3, <2>3 DEF InHand, Ahead, At
<1>5. active'[family'[f].user] \/ \E b \in Admins : InHand(b, f)'
  BY <1>1, <1>2, <1>4 DEF PursuedOf, KeepsHold
<1>6. \/ HasAccess(family[f].user, family[f].client)'
      \/ \E b \in Admins : InHand(b, f)' \/ Ahead(b, f)'
  BY <1>1, <1>2, <1>4 DEF PursuedOf, KeepsHold
<1> QED BY <1>5, <1>6 DEF PursuedOf

LEMMA OthersHandling ==
    ASSUME Types, Handling, NEW a \in Admins, NEW S, NEW h \in Handler, Losing(S, a, h),
           HandlerOK(h)',
           \A b \in Admins \ S : b # a /\ adm[b].pc = "fill" /\ adm[b].op # "remove" =>
                 (app[adm[b].client].there => app'[adm[b].client].there)
    PROVE  adm' \in [Admins -> Handler] /\ Handling'
<1>1. ASSUME NEW b \in Admins
      PROVE  adm'[b] \in Handler /\ HandlerOK(adm[b])'
  <2>1. adm[b] \in Handler /\ HandlerOK(adm[b])
    BY DEF Types, Handling
  <2>2. CASE b = a
    <3>1. adm'[b] = h
      BY <2>2 DEF Losing
    <3> QED BY <3>1 DEF HandlerOK
  <2>3. CASE b # a /\ b \in S
    <3>1. adm'[b] = [adm[b] EXCEPT !.lost = TRUE]
      BY <2>3 DEF Losing
    <3>2. adm'[b] \in Handler
      BY <2>1, <3>1 DEF Handler
    <3>3. /\ adm'[b].pc = adm[b].pc /\ adm'[b].op = adm[b].op /\ adm'[b].user = adm[b].user
          /\ adm'[b].client = adm[b].client /\ adm'[b].group = adm[b].group
          /\ adm'[b].ids = adm[b].ids /\ adm'[b].todo = adm[b].todo /\ adm'[b].lost
          /\ adm'[b].seenClients = adm[b].seenClients
      BY <2>1, <3>1 DEF Handler
    <3> QED BY <2>1, <3>2, <3>3 DEF HandlerOK
  <2>4. CASE b # a /\ b \notin S
    <3>1. adm'[b] = adm[b]
      BY <2>4 DEF Losing
    <3> QED BY <2>1, <2>4, <3>1 DEF HandlerOK
  <2> QED BY <2>2, <2>3, <2>4
<1> QED BY <1>1 DEF Handling, Losing

\* What is left to show of a handler's step.
LEMMA AdminsKeepAll ==
    ASSUME IInv, UNCHANGED req, NEW a \in Admins, NEW S, NEW h \in Handler, Losing(S, a, h),
           HandlerOK(h)',
           \A b \in Admins \ S : b # a /\ adm[b].pc = "fill" /\ adm[b].op # "remove" =>
                 (app[adm[b].client].there => app'[adm[b].client].there),
           RowTypes', Rows', IssuedStep, Counted, stale => stale', cutOff => cutOff',
           \A f \in Families : Standing(f)' => Standing(f),
           ~stale' /\ ~cutOff' => \A f \in Families : Standing(f)' => KeepsHold(a, f)
    PROVE  IInv'
<1>1. Types /\ Rows /\ Owned /\ Asking /\ Handling /\ Pursued
  BY DEF IInv
<1>2. adm' \in [Admins -> Handler] /\ Handling'
  BY <1>1, OthersHandling
<1>3. Pursued'
  BY <1>1, PursuedThroughAdmins
<1>4. changes \in Nat /\ changes' \in Nat /\ changes <= changes'
      /\ (changes' = changes => UNCHANGED <<app, grant, group>>)
  BY <1>1 DEF Types, Counted
<1>5. Types'
  BY <1>1, <1>2, <1>4 DEF Types, RowTypes, IssuedStep
<1>6. ASSUME NEW r \in Requests
      PROVE  AskingOf(r)'
  <2>1. FamilyStep /\ AskingOf(r) /\ req'[r] = req[r]
    BY <1>1 DEF IssuedStep, Asking
  <2> QED BY <1>1, <1>4, <2>1, AskingStays
<1> QED BY <1>2, <1>3, <1>5, <1>6 DEF IInv, IssuedStep, Asking

LEMMA OneHandler ==
    ASSUME Types, NEW a \in Admins, NEW h, adm' = [adm EXCEPT ![a] = h]
    PROVE  Losing({}, a, h)
<1>1. adm \in [Admins -> Handler]
  BY DEF Types
<1> QED BY <1>1 DEF Losing

\* Nobody loses access, no token changes: a handler that has taken none back yet.
LEMMA Gentle ==
    ASSUME IInv, UNCHANGED <<req, active, issued, history>>, NEW a \in Admins, NEW h \in Handler,
           adm' = [adm EXCEPT ![a] = h], HandlerOK(h)',
           adm[a].pc \in {"idle", "write", "fill"},
           \A c \in Clients : app[c].there => app'[c].there,
           RowTypes', Rows', Counted,
           \A u \in Users, c \in Clients : HasAccess(u, c) => HasAccess(u, c)'
    PROVE  IInv'
<1>1. Types /\ Owned /\ Handling /\ Losing({}, a, h)
  BY OneHandler DEF IInv
<1>2. IssuedStep /\ UNCHANGED family
  BY <1>1, IssuedStays DEF issued
<1>3. ASSUME NEW b \in Admins, adm[b].pc = "fill", adm[b].op # "remove", app[adm[b].client].there
      PROVE  app'[adm[b].client].there
  <2>1. adm[b].client \in Clients
    BY <1>1, <1>3 DEF Types, Handler, Handling, HandlerOK, AppOps
  <2> QED BY <1>3, <2>1
<1>4. ASSUME NEW f \in Families, Standing(f)'
      PROVE  Standing(f) /\ KeepsHold(a, f)
  <2>1. Standing(f) /\ family'[f] = family[f]
    BY <1>2, <1>4 DEF Standing
  <2>2. family[f].user \in Users /\ family[f].client \in Clients
    BY <1>1, <2>1, OwnerKnown DEF Standing
  <2>3. ~InHand(a, f) /\ ~Ahead(a, f)
    BY DEF InHand, Ahead, At
  <2>4. HasAccess(family[f].user, family[f].client) => HasAccess(family[f].user, family[f].client)'
    BY <1>2, <2>2
  <2> QED BY <2>1, <2>3, <2>4 DEF KeepsHold
<1> QED BY <1>1, <1>2, <1>3, <1>4, AdminsKeepAll DEF history

\* The rows as they are.
LEMMA RowsStay ==
    ASSUME IInv, UNCHANGED <<rows, changes, history>>
    PROVE  /\ RowTypes' /\ Rows' /\ Counted
           /\ \A c \in Clients : app[c].there => app'[c].there
           /\ \A u \in Users, c \in Clients : HasAccess(u, c) => HasAccess(u, c)'
BY DEF IInv, Types, RowTypes, Rows, RolesDeclared, Counted, HasAccess, Members, rows, history

LEMMA RestingOK == Resting \in Handler /\ HandlerOK(Resting)
<1>1. Resting \in Handler
  BY DEF Resting, Handler
<1> QED BY <1>1 DEF Resting, HandlerOK, AppOps, GroupOps

LEMMA RestingOKThen == HandlerOK(Resting)'
BY DEF Resting, HandlerOK, AppOps, GroupOps

\* A handler begins with what it has read.
LEMMA Beginning ==
    ASSUME IInv, NEW a \in Admins, NEW h \in Handler, Begin(a, h), HandlerOK(h)
    PROVE  IInv'
<1>1. /\ adm[a].pc = "idle" /\ adm' = [adm EXCEPT ![a] = h]
      /\ UNCHANGED <<rows, issued, req, history, changes>>
  BY DEF Begin
<1>2. HandlerOK(h)'
  BY <1>1 DEF HandlerOK, rows
<1> QED BY <1>1, <1>2, RowsStay, Gentle DEF rows

\* A handler is done and has written nothing.
LEMMA NothingDone ==
    ASSUME IInv, NEW a \in Admins, Done(a), adm[a].pc \in {"write", "fill"},
           UNCHANGED <<rows, issued, req, history, changes>>
    PROVE  IInv'
BY RowsStay, RestingOK, RestingOKThen, Gentle DEF Done, rows

LEMMA Reads ==
    ASSUME IInv, NEW a \in Admins,
           \/ SetRead(a) \/ RevokeRead(a) \/ RegisterRead(a) \/ UpdateRead(a)
           \/ \E op \in GroupOps : GroupRead(a, op)
           \/ \E op \in {"enable", "disable", "remove"} : AppRead(a, op)
    PROVE  IInv'
<1> USE AccessAssumption
<1>1. /\ \A g \in Groups : Members(g) \subseteq Users /\ ClientsOf(g) \subseteq Clients
      /\ \A c \in Clients : Declared(c) \subseteq Roles
  BY DEF IInv, Types, Group, App, Members, ClientsOf, Declared
<1>2. CASE SetRead(a)
  <2>1. PICK u \in Users, c \in Managed : \E rs \in SUBSET Declared(c) :
          Begin(a, [Resting EXCEPT !.pc = "write", !.op = "set", !.user = u, !.client = c,
                                   !.roles = rs, !.existing = grant[u][c].on])
    BY <1>2 DEF SetRead
  <2>2. PICK rs \in SUBSET Declared(c) :
          Begin(a, [Resting EXCEPT !.pc = "write", !.op = "set", !.user = u, !.client = c,
                                   !.roles = rs, !.existing = grant[u][c].on])
    BY <2>1
  <2> DEFINE h == [Resting EXCEPT !.pc = "write", !.op = "set", !.user = u, !.client = c,
                                  !.roles = rs, !.existing = grant[u][c].on]
  <2>3. grant[u][c].on \in BOOLEAN
    BY DEF IInv, Types, Grant
  <2>4. h \in Handler /\ HandlerOK(h)
    BY <1>1, <2>3 DEF Resting, Handler, HandlerOK, AppOps, GroupOps
  <2> HIDE DEF h
  <2> QED BY <2>2, <2>4, Beginning DEF h
<1>3. CASE RevokeRead(a)
  <2>1. PICK u \in Users, c \in Managed :
          Begin(a, [Resting EXCEPT !.pc = "write", !.op = "revoke", !.user = u, !.client = c])
    BY <1>3 DEF RevokeRead
  <2> DEFINE h == [Resting EXCEPT !.pc = "write", !.op = "revoke", !.user = u, !.client = c]
  <2>2. h \in Handler /\ HandlerOK(h)
    BY DEF Resting, Handler, HandlerOK, AppOps, GroupOps
  <2> QED BY <2>1, <2>2, Beginning
<1>4. CASE RegisterRead(a)
  <2>1. PICK c \in Managed, rs \in SUBSET Roles :
          Begin(a, [Resting EXCEPT !.pc = "write", !.op = "register", !.client = c, !.roles = rs])
    BY <1>4 DEF RegisterRead
  <2> DEFINE h == [Resting EXCEPT !.pc = "write", !.op = "register", !.client = c, !.roles = rs]
  <2>2. h \in Handler /\ HandlerOK(h)
    BY DEF Resting, Handler, HandlerOK, AppOps, GroupOps
  <2> QED BY <2>1, <2>2, Beginning
<1>5. CASE UpdateRead(a)
  <2>1. PICK c \in Managed, rs \in SUBSET Roles :
          /\ app[c].there
          /\ Begin(a, [Resting EXCEPT !.pc = "fill", !.op = "update", !.client = c, !.roles = rs,
                                      !.confirmed = Blocking(c, rs) # {}])
    BY <1>5 DEF UpdateRead
  <2> DEFINE h == [Resting EXCEPT !.pc = "fill", !.op = "update", !.client = c, !.roles = rs,
                                  !.confirmed = Blocking(c, rs) # {}]
  <2>2. h \in Handler /\ HandlerOK(h)
    BY <2>1 DEF Resting, Handler, HandlerOK, AppOps, GroupOps
  <2> QED BY <2>1, <2>2, Beginning
<1>6. ASSUME NEW op \in {"enable", "disable", "remove"}, AppRead(a, op)
      PROVE  IInv'
  <2>1. PICK c \in Managed :
          Begin(a, [Resting EXCEPT !.pc = "write", !.op = op, !.client = c])
    BY <1>6 DEF AppRead
  <2> DEFINE h == [Resting EXCEPT !.pc = "write", !.op = op, !.client = c]
  <2>2. h \in Handler /\ HandlerOK(h)
    BY DEF Resting, Handler, HandlerOK, AppOps, GroupOps
  <2> QED BY <2>1, <2>2, Beginning
<1>7. ASSUME NEW op \in GroupOps, GroupRead(a, op)
      PROVE  IInv'
  <2>1. PICK g \in Groups :
          \/ \E M \in SUBSET Users :
               Begin(a, [Resting EXCEPT !.pc = "write", !.op = "members", !.group = g, !.members = M,
                                        !.seenMembers = Members(g), !.seenClients = ClientsOf(g)])
          \/ \E c \in Managed : \E rs \in SUBSET Declared(c) :
               Begin(a, [Resting EXCEPT !.pc = "write", !.op = "groupSet", !.group = g,
                                        !.client = c, !.roles = rs])
          \/ \E c \in Managed :
               Begin(a, [Resting EXCEPT !.pc = "write", !.op = "groupRevoke", !.group = g, !.client = c,
                                        !.seenMembers = Members(g), !.seenClients = {c}])
          \/ Begin(a, [Resting EXCEPT !.pc = "write", !.op = "groupRemove", !.group = g,
                                      !.seenMembers = Members(g), !.seenClients = ClientsOf(g)])
    BY <1>7 DEF GroupRead
  <2>2. ASSUME NEW M \in SUBSET Users
        PROVE  LET h == [Resting EXCEPT !.pc = "write", !.op = "members", !.group = g, !.members = M,
                             !.seenMembers = Members(g), !.seenClients = ClientsOf(g)]
               IN  h \in Handler /\ HandlerOK(h)
    BY <1>1 DEF Resting, Handler, HandlerOK, AppOps, GroupOps
  <2>3. ASSUME NEW c \in Managed, NEW rs \in SUBSET Declared(c)
        PROVE  LET h == [Resting EXCEPT !.pc = "write", !.op = "groupSet", !.group = g,
                             !.client = c, !.roles = rs]
               IN  h \in Handler /\ HandlerOK(h)
    BY <1>1 DEF Resting, Handler, HandlerOK, AppOps, GroupOps
  <2>4. ASSUME NEW c \in Managed
        PROVE  LET h == [Resting EXCEPT !.pc = "write", !.op = "groupRevoke", !.group = g,
                             !.client = c, !.seenMembers = Members(g), !.seenClients = {c}]
               IN  h \in Handler /\ HandlerOK(h)
    BY <1>1 DEF Resting, Handler, HandlerOK, AppOps, GroupOps
  <2>5. LET h == [Resting EXCEPT !.pc = "write", !.op = "groupRemove", !.group = g,
                      !.seenMembers = Members(g), !.seenClients = ClientsOf(g)]
        IN  h \in Handler /\ HandlerOK(h)
    BY <1>1 DEF Resting, Handler, HandlerOK, AppOps, GroupOps
  <2> QED BY <2>1, <2>2, <2>3, <2>4, <2>5, Beginning
<1> QED BY <1>2, <1>3, <1>4, <1>5, <1>6, <1>7

\* A handler that goes on to cut off, or is done.
LEMMA CuttingOffOK ==
    ASSUME NEW h \in Handler, HandlerOK(h), h.op # "disable",
           NEW todo \in SUBSET (Users \X Clients)
    PROVE  CuttingOff(h, todo) \in Handler /\ HandlerOK(CuttingOff(h, todo))
<1>1. CASE todo = {}
  BY <1>1, RestingOK DEF CuttingOff
<1>2. CASE todo # {}
  <2> DEFINE k == [h EXCEPT !.pc = "cut", !.todo = todo]
  <2>1. CuttingOff(h, todo) = k
    BY <1>2 DEF CuttingOff
  <2>2. k \in Handler
    BY DEF Handler
  <2>3. /\ k.pc = "cut" /\ k.op = h.op /\ k.client = h.client /\ k.user = h.user
        /\ k.group = h.group
    BY DEF Handler
  <2>4. HandlerOK(k)
    BY <2>3 DEF HandlerOK
  <2> QED BY <2>1, <2>2, <2>4
<1> QED BY <1>1, <1>2

\* It needs no row of an app any more, whatever becomes of them.
LEMMA CuttingOffOKThen ==
    ASSUME NEW h \in Handler, HandlerOK(h), h.op # "disable",
           NEW todo \in SUBSET (Users \X Clients)
    PROVE  \E k \in Handler : k = CuttingOff(h, todo) /\ HandlerOK(k)'
<1>1. PICK k \in Handler : k = CuttingOff(h, todo) /\ HandlerOK(k)
  BY CuttingOffOK
<1>2. k.pc # "fill"
  BY <1>1 DEF CuttingOff, Resting, Handler
<1>3. HandlerOK(k)'
  BY <1>1, <1>2 DEF HandlerOK
<1> QED BY <1>1, <1>3

\* A grant is written, of a person or of a group: roles its app declares.
LEMMA Grants ==
    ASSUME IInv, NEW a \in Admins, SetWrite(a) \/ GroupSetWrite(a)
    PROVE  IInv'
<1> DEFINE h == adm[a]
           given == [on |-> TRUE, roles |-> h.roles]
<1> USE AccessAssumption
<1>1. /\ h \in Handler /\ HandlerOK(h) /\ h.pc = "write"
      /\ grant \in [Users -> [Clients -> Grant]] /\ group \in [Groups -> Group]
      /\ given \in Grant
  BY DEF IInv, Types, Handling, SetWrite, GroupSetWrite, At, Grant, Handler
<1>2. RowTypes /\ Rows
  BY DEF IInv, Types, RowTypes
<1>3. CASE SetWrite(a) /\ changes' # changes
  <2>1. /\ h.user \in Users /\ h.client \in Clients /\ h.roles \subseteq app[h.client].roles
        /\ grant' = [grant EXCEPT ![h.user][h.client] = given] /\ Counted
        /\ UNCHANGED <<active, app, group, visited, issued, req, history>>
        /\ adm' = [adm EXCEPT ![a] = Resting]
    BY <1>1, <1>3 DEF SetWrite, At, HandlerOK, AppOps, Handler, StillDeclared, Declared, Write,
                      Counted, Done
  <2>2. \A u \in Users, c \in Clients :
          grant'[u][c] = IF u = h.user /\ c = h.client THEN given ELSE grant[u][c]
    BY <1>1, <2>1
  <2>3. grant' \in [Users -> [Clients -> Grant]]
    BY <1>1, <2>1
  <2>4. RowTypes' /\ Rows'
    BY <1>2, <2>1, <2>2, <2>3 DEF RowTypes, Rows, RolesDeclared, history
  <2>5. \A u \in Users, c \in Clients : HasAccess(u, c) => HasAccess(u, c)'
    BY <2>1, <2>2 DEF HasAccess, Members
  <2> QED BY <1>1, <2>1, <2>4, <2>5, RestingOK, RestingOKThen, Gentle
<1>4. CASE GroupSetWrite(a) /\ changes' # changes
  <2>1. /\ h.group \in Groups /\ h.client \in Clients /\ h.roles \subseteq app[h.client].roles
        /\ group' = [group EXCEPT ![h.group].grants[h.client] = given] /\ Counted
        /\ UNCHANGED <<active, app, grant, visited, issued, req, history>>
        /\ adm' = [adm EXCEPT ![a] = CuttingOff(h, Members(h.group) \X {h.client})]
        /\ h.op = "groupSet"
    BY <1>1, <1>4 DEF GroupSetWrite, At, HandlerOK, AppOps, GroupOps, Handler, StillDeclared,
                      Declared, Write, Counted, Done
  <2>2. \A g \in Groups : /\ group'[g].state = group[g].state /\ group'[g].members = group[g].members
                           /\ \A c \in Clients : group'[g].grants[c] =
                                 IF g = h.group /\ c = h.client THEN given ELSE group[g].grants[c]
    BY <1>1, <2>1 DEF Group
  <2>3. group' \in [Groups -> Group]
    BY <1>1, <2>1 DEF Group
  <2>4. RowTypes' /\ Rows'
    BY <1>2, <2>1, <2>2, <2>3 DEF RowTypes, Rows, RolesDeclared, history
  <2>5. \A u \in Users, c \in Clients : HasAccess(u, c) => HasAccess(u, c)'
    BY <2>1, <2>2 DEF HasAccess, Members
  <2>6. Members(h.group) \X {h.client} \in SUBSET (Users \X Clients)
    BY <1>1, <2>1 DEF Members, Group
  <2>7. PICK k \in Handler :
          k = CuttingOff(h, Members(h.group) \X {h.client}) /\ HandlerOK(k)'
    BY <1>1, <2>1, <2>6, CuttingOffOKThen
  <2> QED BY <1>1, <2>1, <2>4, <2>5, <2>7, Gentle
<1>5. CASE changes' = changes
  <2>1. UNCHANGED <<rows, issued, req, history>> /\ Done(a)
    BY <1>5 DEF SetWrite, GroupSetWrite, Write, IInv, Types, rows
  <2> QED BY <1>1, <1>5, <2>1, NothingDone
<1> QED BY <1>3, <1>4, <1>5

\* An app appears with no roles, its manifest is applied, it is switched on.
LEMMA Registered ==
    ASSUME IInv, NEW a \in Admins, RegisterCreate(a)
    PROVE  IInv'
<1> DEFINE h == adm[a]
           new == [NoApp EXCEPT !.there = TRUE, !.enabled = TRUE]
<1> USE AccessAssumption
<1>1. /\ h \in Handler /\ HandlerOK(h) /\ h.pc = "write" /\ h.op = "register"
      /\ app \in [Clients -> App] /\ h.client \in Clients
  BY DEF IInv, Types, Handling, RegisterCreate, At, Handler, HandlerOK, AppOps
<1>2. RowTypes /\ Rows
  BY DEF IInv, Types, RowTypes
<1>3. new \in App /\ new.there /\ new.roles = {}
  BY DEF NoApp, App
<1>4. CASE ~app[h.client].there
  <2> HIDE DEF new
  <2>1. /\ app' = [app EXCEPT ![h.client] = new] /\ Counted
        /\ UNCHANGED <<active, grant, group, visited, issued, req, history>>
        /\ adm' = [adm EXCEPT ![a].pc = "fill", ![a].lost = FALSE]
    BY <1>4 DEF RegisterCreate, Write, Counted, new
  <2>2. PICK k : k = [h EXCEPT !.pc = "fill", !.lost = FALSE]
    OBVIOUS
  <2>3. adm' = [adm EXCEPT ![a] = k]
    BY <1>1, <2>1, <2>2 DEF IInv, Types, Handler
  <2>4. /\ k \in Handler /\ k.pc = "fill" /\ k.op = "register" /\ k.client = h.client
        /\ k.client # None
    BY <1>1, <2>2 DEF Handler
  <2>5. \A c \in Clients : app'[c] = IF c = h.client THEN new ELSE app[c]
    BY <1>1, <2>1
  <2>6. HandlerOK(k)'
    BY <1>1, <1>3, <2>4, <2>5 DEF HandlerOK, AppOps, GroupOps
  <2>7. \A c \in Clients : app[c].there => app'[c].there
    BY <1>3, <2>5
  <2>8. app[h.client].roles = {}
    BY <1>1, <1>2, <1>4 DEF Rows
  <2>9. RowTypes' /\ Rows'
    BY <1>1, <1>2, <1>3, <2>1, <2>5, <2>8 DEF RowTypes, Rows, RolesDeclared, history
  <2>10. \A u \in Users, c \in Clients : HasAccess(u, c) => HasAccess(u, c)'
    BY <1>4, <2>1, <2>5 DEF HasAccess, Members
  <2> QED BY <1>1, <2>1, <2>3, <2>4, <2>6, <2>7, <2>9, <2>10, Gentle
<1>5. CASE app[h.client].there
  <2>1. UNCHANGED <<rows, issued, req, history, changes>> /\ Done(a)
    BY <1>5 DEF RegisterCreate, rows
  <2> QED BY <1>1, <2>1, NothingDone
<1> QED BY <1>4, <1>5

LEMMA Applied ==
    ASSUME IInv, NEW a \in Admins, Apply(a)
    PROVE  IInv'
<1> DEFINE h == adm[a]
<1> USE AccessAssumption
<1>1. /\ h \in Handler /\ HandlerOK(h) /\ h.pc = "fill" /\ h.op \in {"register", "update"}
      /\ h.client \in Clients /\ h.roles \subseteq Roles /\ Done(a)
  BY DEF IInv, Types, Handling, Apply, Handler, HandlerOK, AppOps
<1>2. RowTypes /\ Rows
  BY DEF IInv, Types, RowTypes
<1>3. CASE h.lost
  <2>1. UNCHANGED <<rows, issued, req, history, changes>>
    BY <1>3 DEF Apply, rows
  <2> QED BY <1>1, <2>1, NothingDone
<1>4. CASE ~h.lost
  <2>1. /\ RolesBecome(h.client, h.roles) /\ Counted
        /\ UNCHANGED <<active, visited, issued, req, history>>
    BY <1>4 DEF Apply, Write, Counted
  <2>2. app[h.client].there
    BY <1>1, <1>4 DEF HandlerOK
  <2>3. /\ app' = [app EXCEPT ![h.client].roles = h.roles]
        /\ grant' = [u \in Users |-> [grant[u] EXCEPT ![h.client] = Keeping(@, h.roles)]]
        /\ group' = [g \in Groups |-> [group[g] EXCEPT !.grants[h.client] = Keeping(@, h.roles)]]
    BY <2>1 DEF RolesBecome
  <2>4. ASSUME NEW gr \in Grant, NEW rs
        PROVE  /\ Keeping(gr, rs) \in Grant /\ Keeping(gr, rs).on = gr.on
               /\ Keeping(gr, rs).roles = gr.roles \cap rs
    BY DEF Keeping, Grant
  <2>5. \A c \in Clients : /\ app'[c].there = app[c].there /\ app'[c].enabled = app[c].enabled
                            /\ app'[c].roles = IF c = h.client THEN h.roles ELSE app[c].roles
    BY <1>1, <1>2, <2>3 DEF RowTypes, App
  <2>6. app' \in [Clients -> App]
    BY <1>1, <1>2, <2>3 DEF RowTypes, App
  <2>7. \A u \in Users, c \in Clients :
          /\ grant[u][c] \in Grant
          /\ grant'[u][c] = IF c = h.client THEN Keeping(grant[u][c], h.roles) ELSE grant[u][c]
    BY <1>1, <1>2, <2>3 DEF RowTypes
  <2>8. grant' \in [Users -> [Clients -> Grant]]
    <3>1. ASSUME NEW u \in Users
          PROVE  grant'[u] \in [Clients -> Grant]
      <4>1. grant[u] \in [Clients -> Grant] /\ grant[u][h.client] \in Grant
        BY <1>1, <1>2 DEF RowTypes
      <4>2. Keeping(grant[u][h.client], h.roles) \in Grant
        BY <2>4, <4>1
      <4> QED BY <1>1, <2>3, <4>1, <4>2
    <3> QED BY <2>3, <3>1
  <2>9. ASSUME NEW g \in Groups
        PROVE  /\ group'[g].state = group[g].state /\ group'[g].members = group[g].members
               /\ group'[g] \in Group
               /\ \A c \in Clients :
                    /\ group[g].grants[c] \in Grant
                    /\ group'[g].grants[c] = IF c = h.client THEN Keeping(group[g].grants[c], h.roles)
                                             ELSE group[g].grants[c]
    <3>1. group[g] \in Group /\ group[g].grants[h.client] \in Grant
      BY <1>1, <1>2 DEF RowTypes, Group
    <3>2. Keeping(group[g].grants[h.client], h.roles) \in Grant
      BY <2>4, <3>1
    <3>3. group'[g] = [group[g] EXCEPT !.grants[h.client] = Keeping(group[g].grants[h.client], h.roles)]
      BY <2>3
    <3> QED BY <1>1, <3>1, <3>2, <3>3 DEF Group
  <2>10. RowTypes'
    BY <1>2, <2>1, <2>3, <2>6, <2>8, <2>9 DEF RowTypes, history
  <2>11. RolesDeclared'
    BY <1>2, <2>4, <2>5, <2>7, <2>9 DEF Rows, RolesDeclared
  <2>12. Rows'
    BY <1>2, <2>2, <2>5, <2>9, <2>11 DEF Rows
  <2>13. \A u \in Users, c \in Clients : HasAccess(u, c) => HasAccess(u, c)'
    BY <2>4, <2>5, <2>7, <2>9 DEF HasAccess, Members
  <2>14. \A c \in Clients : app[c].there => app'[c].there
    BY <2>5
  <2> QED BY <1>1, <2>1, <2>10, <2>12, <2>13, <2>14, RestingOK, RestingOKThen, Gentle DEF Done
<1> QED BY <1>3, <1>4

LEMMA Enabled ==
    ASSUME IInv, NEW a \in Admins, Enable(a)
    PROVE  IInv'
<1> DEFINE h == adm[a]
<1> USE AccessAssumption
<1>1. /\ h \in Handler /\ h.pc = "write" /\ h.client \in Clients /\ Done(a)
  BY DEF IInv, Types, Handling, Enable, At, Handler, HandlerOK, AppOps
<1>2. RowTypes /\ Rows
  BY DEF IInv, Types, RowTypes
<1>3. CASE h.lost
  <2>1. UNCHANGED <<rows, issued, req, history, changes>>
    BY <1>3 DEF Enable, rows
  <2> QED BY <1>1, <2>1, NothingDone
<1>4. CASE ~h.lost
  <2>1. /\ app' = [app EXCEPT ![h.client].enabled = TRUE] /\ Counted
        /\ UNCHANGED <<active, grant, group, visited, issued, req, history>>
    BY <1>4 DEF Enable, Write, Counted
  <2>2. /\ app' \in [Clients -> App]
        /\ \A c \in Clients : /\ app'[c].there = app[c].there /\ app'[c].roles = app[c].roles
                              /\ app[c].enabled => app'[c].enabled
    <3>1. app \in [Clients -> App] /\ app[h.client] \in App
      BY <1>1, <1>2 DEF RowTypes
    <3>2. PICK new \in App : /\ new.there = app[h.client].there /\ new.roles = app[h.client].roles
                             /\ new.enabled /\ app' = [app EXCEPT ![h.client] = new]
      <4> DEFINE new == [app[h.client] EXCEPT !.enabled = TRUE]
      <4>1. new \in App /\ new.there = app[h.client].there /\ new.roles = app[h.client].roles
            /\ new.enabled
        BY <3>1 DEF App
      <4>2. app' = [app EXCEPT ![h.client] = new]
        BY <2>1
      <4> HIDE DEF new
      <4> QED BY <4>1, <4>2
    <3> QED BY <1>1, <3>1, <3>2
  <2>3. RowTypes' /\ Rows'
    BY <1>2, <2>1, <2>2 DEF RowTypes, Rows, RolesDeclared, history
  <2>4. \A u \in Users, c \in Clients : HasAccess(u, c) => HasAccess(u, c)'
    BY <2>1, <2>2 DEF HasAccess, Members
  <2> QED BY <1>1, <2>1, <2>2, <2>3, <2>4, RestingOK, RestingOKThen, Gentle DEF Done
<1> QED BY <1>3, <1>4

\* Tokens are only taken.
Taken(f, old, new) ==
    /\ new \in Family /\ new.user = old.user /\ new.client = old.client
    /\ new.there => old.there
    /\ new.code => old.code
    /\ new.held \in {"none", old.held}
    /\ old.late => new.late

LEMMA TakingTokens ==
    ASSUME Types, Owned, UNCHANGED session, family' \in [Families -> Family],
           \A f \in Families : Taken(f, family[f], family'[f])
    PROVE  IssuedStep /\ \A f \in Families : Standing(f)' => Standing(f)
<1>1. ASSUME NEW f \in Families
      PROVE  /\ family'[f].user = family[f].user /\ family'[f].client = family[f].client
             /\ Standing(f)' => Standing(f)
             /\ family'[f].user = None =>
                   ~family'[f].there /\ ~family'[f].code /\ family'[f].held = "none"
             /\ family'[f].user # None => family'[f].client # None
  BY DEF Taken, Standing, Owned
<1>2. FamilyStep
  BY <1>1 DEF FamilyStep, Standing
<1>3. ASSUME NEW u \in Users, NEW c \in Clients, session[u].grants[c] # None
      PROVE  Belongs(session[u].grants[c], u, c)'
  <2>1. session[u].grants[c] \in Families
    BY <1>3 DEF Types, Session
  <2>2. Belongs(session[u].grants[c], u, c)
    BY <1>3 DEF Owned
  <2> QED BY <1>1, <2>1, <2>2 DEF Belongs
<1>4. Owned'
  BY <1>1, <1>3 DEF Owned
<1> QED BY <1>1, <1>2, <1>4 DEF IssuedStep, Types

\* Everything issued to one app is taken.
LEMMA TakenByClient ==
    ASSUME Types, NEW c, family' = RevokeByClient(c)
    PROVE  /\ family' \in [Families -> Family]
           /\ \A f \in Families : /\ Taken(f, family[f], family'[f])
                                  /\ family[f].client = c => ~family'[f].there
<1>1. ASSUME NEW f \in Families
      PROVE  /\ Taken(f, family[f], family'[f])
             /\ family[f].client = c => ~family'[f].there
  <2>1. family[f] \in Family
    BY DEF Types
  <2>2. CASE family[f].client = c
    <3>1. family'[f] = [family[f] EXCEPT !.there = FALSE, !.code = FALSE, !.held = "none"]
      BY <2>2 DEF RevokeByClient
    <3> QED BY <2>1, <3>1 DEF Taken, Family
  <2>3. CASE family[f].client # c
    <3>1. family'[f] = family[f]
      BY <2>3 DEF RevokeByClient
    <3> QED BY <2>1, <2>3, <3>1 DEF Taken
  <2> QED BY <2>2, <2>3
<1> QED BY <1>1 DEF RevokeByClient, Taken

LEMMA Disabled ==
    ASSUME IInv, NEW a \in Admins, Disable(a)
    PROVE  IInv'
<1> DEFINE h == adm[a]
<1> USE AccessAssumption
<1>1. /\ h \in Handler /\ HandlerOK(h) /\ h.pc = "write" /\ h.op = "disable"
      /\ h.client \in Clients
  BY DEF IInv, Types, Handling, Disable, At, Handler, HandlerOK, AppOps
<1>2. RowTypes /\ Rows /\ Types /\ Owned
  BY DEF IInv, Types, RowTypes
<1>3. CASE h.lost
  <2>1. UNCHANGED <<rows, issued, req, history, changes>> /\ Done(a)
    BY <1>3 DEF Disable, rows
  <2> QED BY <1>1, <2>1, NothingDone
<1>4. CASE ~h.lost
  <2>1. /\ app' = [app EXCEPT ![h.client].enabled = FALSE] /\ Counted
        /\ adm' = [adm EXCEPT ![a].pc = "tokens"]
        /\ UNCHANGED <<active, grant, group, visited, issued, req, history>>
    BY <1>4 DEF Disable, Write, Counted
  <2>2. PICK k : k = [h EXCEPT !.pc = "tokens"]
    OBVIOUS
  <2>3. /\ k \in Handler /\ k.pc = "tokens" /\ k.op = "disable" /\ k.client = h.client
        /\ k.ids = h.ids /\ k.todo = h.todo
    BY <1>1, <2>2 DEF Handler
  <2>4. adm' = [adm EXCEPT ![a] = k] /\ adm'[a] = k
    BY <2>1, <2>2 DEF IInv, Types
  <2>5. HandlerOK(k)'
    BY <1>1, <2>3 DEF HandlerOK, AppOps, GroupOps
  <2>6. /\ app' \in [Clients -> App]
        /\ \A c \in Clients : /\ app'[c].there = app[c].there /\ app'[c].roles = app[c].roles
                              /\ c # h.client => app'[c] = app[c]
    <3>1. app \in [Clients -> App] /\ app[h.client] \in App
      BY <1>1, <1>2 DEF RowTypes
    <3>2. PICK new \in App : /\ new.there = app[h.client].there /\ new.roles = app[h.client].roles
                             /\ app' = [app EXCEPT ![h.client] = new]
      <4> DEFINE new == [app[h.client] EXCEPT !.enabled = FALSE]
      <4>1. new \in App /\ new.there = app[h.client].there /\ new.roles = app[h.client].roles
        BY <3>1 DEF App
      <4>2. app' = [app EXCEPT ![h.client] = new]
        BY <2>1
      <4> HIDE DEF new
      <4> QED BY <4>1, <4>2
    <3> QED BY <1>1, <3>1, <3>2
  <2>7. RowTypes' /\ Rows'
    BY <1>2, <2>1, <2>6 DEF RowTypes, Rows, RolesDeclared, history
  <2>8. IssuedStep /\ UNCHANGED family
    BY <1>2, <2>1, IssuedStays DEF issued
  <2>9. ASSUME NEW f \in Families, Standing(f)'
        PROVE  Standing(f) /\ KeepsHold(a, f)
    <3>1. Standing(f) /\ family'[f] = family[f]
      BY <2>8, <2>9 DEF Standing
    <3>2. family[f].client \in Clients
      BY <1>2, <3>1, OwnerKnown DEF Standing
    <3>3. ~InHand(a, f) /\ ~Ahead(a, f)
      BY <1>1 DEF InHand, Ahead, At
    <3>4. CASE family[f].client = h.client
      <4>1. Ahead(a, f)'
        BY <2>3, <2>4, <3>1, <3>4 DEF Ahead, At
      <4> QED BY <2>1, <3>1, <3>3, <4>1 DEF KeepsHold
    <3>5. CASE family[f].client # h.client
      <4>1. HasAccess(family[f].user, family[f].client)
              => HasAccess(family[f].user, family[f].client)'
        BY <2>1, <2>6, <2>8, <3>2, <3>5 DEF HasAccess, Members
      <4> QED BY <2>1, <3>1, <3>3, <4>1 DEF KeepsHold
    <3> QED BY <3>1, <3>4, <3>5
  <2>10. Losing({}, a, k)
    BY <1>2, <2>4, OneHandler
  <2>11. ASSUME NEW b \in Admins, adm[b].pc = "fill", adm[b].op # "remove", app[adm[b].client].there
         PROVE  app'[adm[b].client].there
    <3>1. adm[b].client \in Clients
      BY <2>11 DEF IInv, Types, Handler, Handling, HandlerOK, AppOps
    <3> QED BY <2>6, <2>11, <3>1
  <2> QED BY <2>1, <2>3, <2>5, <2>7, <2>8, <2>9, <2>10, <2>11, AdminsKeepAll DEF history
<1> QED BY <1>3, <1>4

\* A step that takes tokens back, or finds what to take, and changes no row.
LEMMA RowsUntouched ==
    ASSUME IInv, UNCHANGED <<rows, req, history, changes>>, NEW a \in Admins, NEW h \in Handler,
           adm' = [adm EXCEPT ![a] = h], HandlerOK(h)', IssuedStep,
           \A f \in Families : Standing(f)' =>
               /\ Standing(f)
               /\ InHand(a, f) => InHand(a, f)'
               /\ Ahead(a, f) => \/ HasAccess(family[f].user, family[f].client)
                                 \/ InHand(a, f)' \/ Ahead(a, f)'
    PROVE  IInv'
<1>1. Types /\ Owned /\ Handling /\ Losing({}, a, h)
  BY OneHandler DEF IInv
<1>2. RowTypes' /\ Rows' /\ Counted /\ \A c \in Clients : app[c].there => app'[c].there
  BY RowsStay
<1>3. ASSUME NEW b \in Admins, adm[b].pc = "fill", adm[b].op # "remove", app[adm[b].client].there
      PROVE  app'[adm[b].client].there
  BY <1>3 DEF rows
<1>4. ASSUME NEW f \in Families, Standing(f)'
      PROVE  Standing(f) /\ KeepsHold(a, f)
  <2>1. Standing(f)
    BY <1>4
  <2>2. family'[f].user = family[f].user /\ family'[f].client = family[f].client
    BY <1>1, <2>1 DEF IssuedStep, FamilyStep, Standing, Owned
  <2>3. HasAccess(family[f].user, family[f].client) =>
          HasAccess(family[f].user, family[f].client)'
    BY <2>2 DEF HasAccess, Members, rows
  <2>4. active'[family'[f].user] = active[family[f].user]
    BY <2>2 DEF rows
  <2> QED BY <1>4, <2>1, <2>3, <2>4 DEF KeepsHold
<1> QED BY <1>1, <1>2, <1>3, <1>4, AdminsKeepAll DEF history

LEMMA AppTokens ==
    ASSUME IInv, NEW a \in Admins, DisableTokens(a) \/ RemoveTokens(a)
    PROVE  IInv'
<1> DEFINE h == adm[a]
<1> USE AccessAssumption
<1>1. /\ h \in Handler /\ HandlerOK(h) /\ h.client \in Clients
      /\ h.op \in {"disable", "remove"}
      /\ family' = RevokeByClient(h.client) /\ UNCHANGED <<rows, session, req, history, changes>>
  BY DEF IInv, Types, Handling, DisableTokens, RemoveTokens, At, Handler, HandlerOK, AppOps
<1>2. Types /\ Owned
  BY DEF IInv
<1>3. /\ IssuedStep
      /\ \A f \in Families : Standing(f)' => Standing(f) /\ family[f].client # h.client
  BY <1>1, <1>2, TakenByClient, TakingTokens DEF Standing
<1>4. CASE DisableTokens(a)
  <2>1. h.pc = "tokens" /\ h.ids = {} /\ h.todo = {}
    BY <1>1, <1>4 DEF DisableTokens, At, HandlerOK
  <2>2. \A f \in Families : Standing(f)' => ~InHand(a, f) /\ ~Ahead(a, f)
    BY <1>3, <2>1 DEF InHand, Ahead
  <2>3. adm' = [adm EXCEPT ![a] = Resting]
    BY <1>4 DEF DisableTokens, Done
  <2> QED BY <1>1, <1>3, <2>2, <2>3, RestingOK, RestingOKThen, RowsUntouched
<1>5. CASE RemoveTokens(a)
  <2>1. h.pc = "write" /\ h.op = "remove" /\ adm' = [adm EXCEPT ![a].pc = "fill"]
    BY <1>5 DEF RemoveTokens, At
  <2>2. PICK k : k = [h EXCEPT !.pc = "fill"]
    OBVIOUS
  <2>3. k \in Handler /\ k.pc = "fill" /\ k.op = "remove" /\ k.client = h.client
    BY <1>1, <2>1, <2>2 DEF Handler
  <2>4. HandlerOK(k)' /\ adm' = [adm EXCEPT ![a] = k]
    BY <1>1, <2>1, <2>2, <2>3 DEF HandlerOK, AppOps, GroupOps
  <2>5. \A f \in Families : ~InHand(a, f) /\ ~Ahead(a, f)
    BY <2>1 DEF InHand, Ahead, At
  <2> QED BY <1>1, <1>3, <2>3, <2>4, <2>5, RowsUntouched
<1> QED BY <1>4, <1>5

\* Everything that hangs on the row of an app goes with it; what stood was the
\* provider's, and is late.
LEMMA Removed ==
    ASSUME IInv, NEW a \in Admins, RemoveDelete(a)
    PROVE  IInv'
<1> DEFINE h == adm[a]
<1> USE AccessAssumption
<1>1. /\ h \in Handler /\ HandlerOK(h) /\ h.client \in Clients /\ h.pc = "fill" /\ h.op = "remove"
  BY DEF IInv, Types, Handling, RemoveDelete, At, Handler, HandlerOK, AppOps
<1>2. RowTypes /\ Rows /\ Types /\ Owned
  BY DEF IInv, Types, RowTypes
<1>3. CASE h.lost
  <2>1. UNCHANGED <<rows, issued, req, history, changes>> /\ Done(a)
    BY <1>3 DEF RemoveDelete, rows, issued
  <2> QED BY <1>1, <2>1, NothingDone
<1>4. CASE ~h.lost
  <2>1. /\ AppGone(h.client) /\ Counted /\ Losing(Holding(h.client), a, Resting)
        /\ UNCHANGED <<active, session, req, history>>
        /\ family' = [f \in Families |-> [family[f] EXCEPT
                         !.late = @ \/ (family[f].client = h.client /\ family[f].there)]]
    BY <1>4 DEF RemoveDelete, Write, Counted
  <2>2. /\ app' = [app EXCEPT ![h.client] = NoApp]
        /\ grant' = [u \in Users |-> [grant[u] EXCEPT ![h.client] = Ungranted]]
        /\ group' = [g \in Groups |-> [group[g] EXCEPT !.grants[h.client] = Ungranted]]
        /\ visited' \subseteq visited
    BY <2>1 DEF AppGone
  <2>3. Ungranted \in Grant /\ Ungranted.roles = {} /\ NoApp \in App /\ NoApp.roles = {}
    BY DEF Ungranted, Grant, NoApp, App
  <2>4. /\ app' \in [Clients -> App]
        /\ \A c \in Clients : app'[c] = IF c = h.client THEN NoApp ELSE app[c]
    BY <1>1, <1>2, <2>2, <2>3 DEF RowTypes
  <2>5. /\ grant' \in [Users -> [Clients -> Grant]]
        /\ \A u \in Users, c \in Clients :
             grant'[u][c] = IF c = h.client THEN Ungranted ELSE grant[u][c]
    BY <1>1, <1>2, <2>2, <2>3 DEF RowTypes
  <2>6. ASSUME NEW g \in Groups
        PROVE  /\ group'[g].state = group[g].state /\ group'[g].members = group[g].members
               /\ group'[g] \in Group
               /\ \A c \in Clients : group'[g].grants[c] = IF c = h.client THEN Ungranted
                                                            ELSE group[g].grants[c]
    <3>1. group[g] \in Group
      BY <1>2 DEF RowTypes
    <3>2. group'[g] = [group[g] EXCEPT !.grants[h.client] = Ungranted]
      BY <2>2
    <3> QED BY <1>1, <2>3, <3>1, <3>2 DEF Group
  <2>7. RowTypes'
    BY <1>2, <2>1, <2>2, <2>4, <2>5, <2>6 DEF RowTypes, history
  <2>8. Rows'
    BY <1>2, <2>3, <2>4, <2>5, <2>6 DEF Rows, RolesDeclared
  <2>9. ASSUME NEW f \in Families
        PROVE  /\ Taken(f, family[f], family'[f])
               /\ family[f].client = h.client /\ family[f].there => family'[f].late
    <3>1. family[f] \in Family
      BY <1>2 DEF Types
    <3>2. family'[f] = [family[f] EXCEPT
                          !.late = @ \/ (family[f].client = h.client /\ family[f].there)]
      BY <2>1
    <3> QED BY <3>1, <3>2 DEF Taken, Family
  <2>10. family' \in [Families -> Family]
    BY <2>1, <2>9 DEF Taken
  <2>11. IssuedStep /\ \A f \in Families : Standing(f)' => Standing(f)
    BY <1>2, <2>1, <2>9, <2>10, TakingTokens
  <2>12. ASSUME NEW f \in Families, Standing(f)'
         PROVE  KeepsHold(a, f)
    <3>1. Standing(f) /\ family[f].client # h.client
      BY <2>9, <2>11, <2>12 DEF Standing
    <3>2. /\ family[f].user \in Users /\ family[f].client \in Clients
          /\ family'[f].user = family[f].user /\ family'[f].client = family[f].client
      BY <1>2, <2>9, <3>1, OwnerKnown DEF Standing, Taken
    <3>3. ~InHand(a, f) /\ ~Ahead(a, f)
      BY <1>1 DEF InHand, Ahead, At
    <3>4. HasAccess(family[f].user, family[f].client) =>
            HasAccess(family[f].user, family[f].client)'
      BY <2>4, <2>5, <2>6, <3>1, <3>2 DEF HasAccess, Members
    <3> QED BY <2>1, <3>2, <3>3, <3>4 DEF KeepsHold
  <2>13. ASSUME NEW b \in Admins \ Holding(h.client), adm[b].pc = "fill", app[adm[b].client].there,
                adm[b].op # "remove"
         PROVE  app'[adm[b].client].there
    <3>1. adm[b].client \in Clients
      BY <2>13 DEF IInv, Types, Handler, Handling, HandlerOK, AppOps
    <3>2. adm[b].client # h.client
      BY <2>13 DEF Holding
    <3> QED BY <2>4, <2>13, <3>1, <3>2
  <2> QED BY <2>1, <2>7, <2>8, <2>11, <2>12, <2>13, RestingOK, RestingOKThen, AdminsKeepAll
             DEF history
<1> QED BY <1>3, <1>4

\* Who is on the list of a handler that goes on to cut off is ahead of it.
LEMMA Listed ==
    ASSUME NEW a \in Admins, NEW h \in Handler, NEW todo, adm'[a] = CuttingOff(h, todo),
           NEW f \in Families, <<family'[f].user, family'[f].client>> \in todo
    PROVE  Ahead(a, f)'
<1>1. adm'[a] = [h EXCEPT !.pc = "cut", !.todo = todo]
  BY DEF CuttingOff
<1>2. adm'[a].pc = "cut" /\ adm'[a].todo = todo
  BY <1>1 DEF Handler
<1> QED BY <1>2 DEF Ahead

\* Access is taken from somebody, and whoever it may be taken from is on the list or
\* the histories say that it was not read.
LEMMA TakingAccess ==
    ASSUME IInv, UNCHANGED <<req, active, app, visited, issued>>, NEW a \in Admins, NEW S,
           NEW todo \in SUBSET (Users \X Clients), Losing(S, a, CuttingOff(adm[a], todo)),
           adm[a].pc = "write", adm[a].op # "disable", RowTypes', Rows', Counted,
           stale => stale', cutOff' = cutOff,
           ~stale' => \A u \in Users, c \in Clients :
               HasAccess(u, c) => HasAccess(u, c)' \/ <<u, c>> \in todo
    PROVE  IInv'
<1>1. Types /\ Owned /\ adm[a] \in Handler /\ HandlerOK(adm[a])
  BY DEF IInv, Types, Handling
<1>2. PICK k \in Handler : k = CuttingOff(adm[a], todo) /\ HandlerOK(k)'
  BY <1>1, CuttingOffOKThen
<1>3. PICK h : h = adm[a]
  OBVIOUS
<1>4. Losing(S, a, k) /\ k = CuttingOff(h, todo) /\ h \in Handler
  BY <1>1, <1>2, <1>3
<1>5. IssuedStep /\ UNCHANGED family
  BY <1>1, IssuedStays DEF issued
<1>6. ASSUME NEW f \in Families, Standing(f)', ~stale'
      PROVE  KeepsHold(a, f)
  <2>1. Standing(f) /\ family'[f] = family[f]
    BY <1>5, <1>6 DEF Standing
  <2>2. family[f].user \in Users /\ family[f].client \in Clients
    BY <1>1, <2>1, OwnerKnown DEF Standing
  <2>3. ~InHand(a, f) /\ ~Ahead(a, f)
    BY DEF InHand, Ahead, At
  <2>4. adm'[a] = CuttingOff(h, todo)
    BY <1>4 DEF Losing
  <2>5. <<family'[f].user, family'[f].client>> \in todo => Ahead(a, f)'
    BY <1>4, <2>4, Listed
  <2>6. HasAccess(family[f].user, family[f].client) =>
          \/ HasAccess(family[f].user, family[f].client)'
          \/ <<family'[f].user, family'[f].client>> \in todo
    BY <1>5, <1>6, <2>1, <2>2
  <2> QED BY <2>1, <2>3, <2>5, <2>6 DEF KeepsHold
<1>7. \A f \in Families : Standing(f)' => Standing(f)
  BY <1>5 DEF Standing
<1>8. \A b \in Admins : app[adm[b].client].there => app'[adm[b].client].there
  OBVIOUS
<1> QED BY <1>2, <1>4, <1>5, <1>6, <1>7, <1>8, AdminsKeepAll

LEMMA Revoked ==
    ASSUME IInv, NEW a \in Admins, RevokeWrite(a)
    PROVE  IInv'
<1> DEFINE h == adm[a]
<1> USE AccessAssumption
<1>1. /\ h \in Handler /\ h.user \in Users /\ h.client \in Clients /\ h.pc = "write"
      /\ h.op = "revoke"
  BY DEF IInv, Types, Handling, RevokeWrite, At, Handler, HandlerOK, AppOps
<1>2. RowTypes /\ Rows
  BY DEF IInv, Types, RowTypes
<1>3. CASE h.lost \/ ~grant[h.user][h.client].on
  <2>1. UNCHANGED <<rows, issued, req, history, changes>> /\ Done(a)
    BY <1>3 DEF RevokeWrite, rows
  <2> QED BY <1>1, <2>1, NothingDone
<1>4. CASE ~(h.lost \/ ~grant[h.user][h.client].on)
  <2>1. PICK S : Losing(S, a, CuttingOff(h, {<<h.user, h.client>>}))
    BY <1>4 DEF RevokeWrite
  <2>2. /\ grant' = [grant EXCEPT ![h.user][h.client] = Ungranted] /\ Counted
        /\ UNCHANGED <<active, app, group, visited, issued, req, history>>
    BY <1>4 DEF RevokeWrite, Write, Counted
  <2>3. Ungranted \in Grant /\ Ungranted.roles = {}
    BY DEF Ungranted, Grant
  <2>4. /\ grant' \in [Users -> [Clients -> Grant]]
        /\ \A u \in Users, c \in Clients :
             grant'[u][c] = IF u = h.user /\ c = h.client THEN Ungranted ELSE grant[u][c]
    BY <1>1, <1>2, <2>2, <2>3 DEF RowTypes
  <2>5. RowTypes' /\ Rows'
    BY <1>2, <2>2, <2>3, <2>4 DEF RowTypes, Rows, RolesDeclared, history
  <2>6. ASSUME NEW u \in Users, NEW c \in Clients, HasAccess(u, c)
        PROVE  HasAccess(u, c)' \/ <<u, c>> \in {<<h.user, h.client>>}
    BY <2>2, <2>4, <2>6 DEF HasAccess, Members
  <2>7. {<<h.user, h.client>>} \in SUBSET (Users \X Clients)
    BY <1>1
  <2> QED BY <1>1, <2>1, <2>2, <2>5, <2>6, <2>7, TakingAccess DEF history
<1> QED BY <1>3, <1>4

\* Whom a change of a group takes access from is on the list, or was not read.
LEMMA GroupTakes ==
    ASSUME IInv, NEW a \in Admins, adm[a].pc = "write", adm[a].group \in Groups,
           NEW new \in Group, group' = [group EXCEPT ![adm[a].group] = new],
           UNCHANGED <<active, app, grant, visited, issued, req, cutOff>>,
           NEW clients \in SUBSET Clients, NEW told \in SUBSET Users, NEW S,
           Losing(S, a, CuttingOff(adm[a], told \X adm[a].seenClients)),
           stale' = (stale \/ Unseen(adm[a], clients, told)), changes' = changes + 1,
           adm[a].op # "disable", new.state = "unborn" => new.members = {},
           \A c \in Clients : new.grants[c].roles \subseteq app[c].roles,
           \A u \in Users, c \in Clients :
               u \in Members(adm[a].group) /\ group[adm[a].group].grants[c].on =>
                  (u \in new.members /\ new.grants[c].on) \/ c \in clients
    PROVE  IInv'
<1> DEFINE h == adm[a]
           todo == told \X h.seenClients
<1>1. RowTypes /\ Rows /\ h \in Handler /\ todo \in SUBSET (Users \X Clients)
  BY DEF IInv, Types, RowTypes, Handler
<1>2. \A g \in Groups : group'[g] = IF g = h.group THEN new ELSE group[g]
  BY <1>1 DEF RowTypes
<1>3. stale' \in BOOLEAN /\ (stale => stale')
  BY <1>1 DEF RowTypes
<1>4. RowTypes'
  BY <1>1, <1>2, <1>3 DEF RowTypes
<1>5. Rows'
  BY <1>1, <1>2 DEF Rows, RolesDeclared
<1>6. ASSUME ~stale', NEW u \in Users, NEW c \in Clients, HasAccess(u, c), ~HasAccess(u, c)'
      PROVE  <<u, c>> \in todo
  <2>1. PICK g \in Groups : u \in Members(g) /\ group[g].grants[c].on
    BY <1>6 DEF HasAccess
  <2>2. g = h.group /\ ~(u \in new.members /\ new.grants[c].on)
    BY <1>2, <1>6, <2>1 DEF HasAccess, Members
  <2>3. c \in clients /\ u \in Members(h.group)
    BY <2>1, <2>2
  <2>4. (Members(h.group) \X clients) \ todo = {}
    BY <1>6 DEF Unseen
  <2> QED BY <2>3, <2>4
<1>7. Counted
  BY DEF Counted
<1> HIDE DEF todo
<1>8. Losing(S, a, CuttingOff(adm[a], todo))
  BY DEF todo
<1> QED BY <1>1, <1>3, <1>4, <1>5, <1>6, <1>7, <1>8, TakingAccess

LEMMA GroupWrites ==
    ASSUME IInv, NEW a \in Admins,
           MembersWrite(a) \/ GroupRevokeWrite(a) \/ GroupRemoveWrite(a)
    PROVE  IInv'
<1> DEFINE h == adm[a]
           g == h.group
<1> USE AccessAssumption
<1>1. /\ h \in Handler /\ HandlerOK(h) /\ g \in Groups /\ h.pc = "write" /\ h.op \in GroupOps
      /\ h.members \subseteq Users /\ h.seenMembers \subseteq Users /\ h.seenClients \subseteq Clients
      /\ group[g] \in Group
  BY DEF IInv, Types, Handling, MembersWrite, GroupRevokeWrite, GroupRemoveWrite, At, Handler,
         HandlerOK, GroupOps
<1>2. h.op # "disable" /\ adm \in [Admins -> Handler] /\ changes \in Nat
  BY <1>1 DEF GroupOps, IInv, Types
<1>3. \A c \in Clients : group[g].grants[c] \in Grant /\ group[g].grants[c].roles \subseteq app[c].roles
  BY <1>1 DEF IInv, Rows, RolesDeclared, Group
<1>4. CASE changes' = changes
  <2>1. UNCHANGED <<rows, issued, req, history, changes>> /\ Done(a)
    BY <1>2, <1>4 DEF MembersWrite, GroupRevokeWrite, GroupRemoveWrite, Write, rows, history
  <2> QED BY <1>1, <2>1, NothingDone
<1>5. CASE MembersWrite(a) /\ changes' # changes
  <2> DEFINE told == h.seenMembers \cup h.members
  <2>1. /\ group[g].state = "there" /\ changes' = changes + 1
        /\ stale' = (stale \/ Unseen(h, ClientsOf(g), told))
        /\ group' = [group EXCEPT ![g].members = h.members]
        /\ adm' = [adm EXCEPT ![a] = CuttingOff(h, told \X h.seenClients)]
        /\ UNCHANGED <<active, app, grant, visited, issued, req, cutOff>>
    BY <1>5 DEF MembersWrite, Write
  <2>2. PICK new : new = [group[g] EXCEPT !.members = h.members]
    OBVIOUS
  <2>3. /\ new \in Group /\ new.state = "there" /\ new.grants = group[g].grants
        /\ new.members = h.members /\ group' = [group EXCEPT ![g] = new]
    BY <1>1, <2>1, <2>2 DEF Group
  <2>4. told \in SUBSET Users /\ ClientsOf(g) \in SUBSET Clients
        /\ \A c \in Clients : group[g].grants[c].on => c \in ClientsOf(g)
    BY <1>1 DEF ClientsOf
  <2>5. Losing({}, a, CuttingOff(h, told \X h.seenClients))
    BY <1>2, <2>1 DEF Losing
  <2> HIDE DEF told
  <2> QED BY <1>1, <1>2, <1>3, <2>1, <2>3, <2>4, <2>5, GroupTakes
<1>6. CASE GroupRevokeWrite(a) /\ changes' # changes
  <2>1. /\ group[g].grants[h.client].on /\ changes' = changes + 1
        /\ stale' = (stale \/ Unseen(h, {h.client}, h.seenMembers))
        /\ group' = [group EXCEPT ![g].grants[h.client] = Ungranted]
        /\ adm' = [adm EXCEPT ![a] = CuttingOff(h, h.seenMembers \X {h.client})]
        /\ UNCHANGED <<active, app, grant, visited, issued, req, cutOff>>
        /\ h.op = "groupRevoke"
    BY <1>6 DEF GroupRevokeWrite, Write, At
  <2>2. h.client \in Clients /\ h.seenClients = {h.client}
    BY <1>1, <2>1 DEF HandlerOK, AppOps, Handler
  <2>3. PICK new : new = [group[g] EXCEPT !.grants[h.client] = Ungranted]
    OBVIOUS
  <2>4. Ungranted \in Grant /\ Ungranted.roles = {}
    BY DEF Ungranted, Grant
  <2>5. /\ new \in Group /\ new.state = group[g].state /\ new.members = group[g].members
        /\ \A c \in Clients : new.grants[c] = IF c = h.client THEN Ungranted ELSE group[g].grants[c]
    BY <1>1, <2>2, <2>3, <2>4 DEF Group
  <2>6. group' = [group EXCEPT ![g] = new]
    BY <1>1, <2>1, <2>3 DEF Group
  <2>7. new.state = "unborn" => new.members = {}
    BY <1>1, <2>5 DEF IInv, Rows
  <2>8. \A c \in Clients : new.grants[c].roles \subseteq app[c].roles
    BY <1>3, <2>4, <2>5
  <2>9. \A u \in Users, c \in Clients :
          u \in Members(g) /\ group[g].grants[c].on =>
            (u \in new.members /\ new.grants[c].on) \/ c \in {h.client}
    BY <2>5 DEF Members
  <2>10. Losing({}, a, CuttingOff(h, h.seenMembers \X h.seenClients))
    BY <1>2, <2>1, <2>2 DEF Losing
  <2>11. {h.client} \in SUBSET Clients
    BY <2>2
  <2> QED BY <1>1, <1>2, <2>1, <2>5, <2>6, <2>7, <2>8, <2>9, <2>10, <2>11, GroupTakes
<1>7. CASE GroupRemoveWrite(a) /\ changes' # changes
  <2>1. /\ changes' = changes + 1
        /\ stale' = (stale \/ Unseen(h, ClientsOf(g), h.seenMembers))
        /\ group' = [group EXCEPT ![g] = Nothing("gone")]
        /\ adm' = [adm EXCEPT ![a] = CuttingOff(h, h.seenMembers \X h.seenClients)]
        /\ UNCHANGED <<active, app, grant, visited, issued, req, cutOff>>
    BY <1>7 DEF GroupRemoveWrite, Write
  <2>2. PICK new : new = Nothing("gone")
    OBVIOUS
  <2>3. /\ new \in Group /\ new.state = "gone" /\ new.members = {}
        /\ \A c \in Clients : new.grants[c].roles = {}
    BY <2>2 DEF Nothing, Ungranted, Group, Grant
  <2>4. ClientsOf(g) \in SUBSET Clients
        /\ \A c \in Clients : group[g].grants[c].on => c \in ClientsOf(g)
    BY <1>1 DEF ClientsOf
  <2>5. Losing({}, a, CuttingOff(h, h.seenMembers \X h.seenClients))
    BY <1>2, <2>1 DEF Losing
  <2> QED BY <1>1, <1>2, <2>1, <2>2, <2>3, <2>4, <2>5, GroupTakes
<1> QED BY <1>4, <1>5, <1>6, <1>7

-----------------------------------------------------------------------------
(* Taking tokens back. *)

LEMMA Decided ==
    ASSUME IInv, NEW a \in Admins, CutDecide(a)
    PROVE  IInv'
<1> DEFINE h == adm[a]
<1> USE AccessAssumption
<1>1. /\ h \in Handler /\ HandlerOK(h) /\ h.pc = "cut" /\ h.op # "disable"
      /\ h.todo \subseteq Users \X Clients
  BY DEF IInv, Types, Handling, CutDecide, HandlerOK, Handler
<1>2. Types /\ Owned
  BY DEF IInv
<1>3. UNCHANGED <<rows, issued, req, history, changes>>
  BY DEF CutDecide
<1>4. PICK p \in h.todo :
        adm' = [adm EXCEPT ![a] =
                  IF h.op = "revoke" \/ ~HasAccess(p[1], p[2])
                  THEN [h EXCEPT !.pc = "find", !.user = p[1], !.client = p[2], !.todo = h.todo \ {p}]
                  ELSE CuttingOff(h, h.todo \ {p})]
  BY DEF CutDecide
<1>5. IssuedStep /\ UNCHANGED family
  BY <1>2, <1>3, IssuedStays DEF issued
<1>6. ASSUME NEW f \in Families, Standing(f)'
      PROVE  Standing(f) /\ ~InHand(a, f)
  BY <1>1, <1>5, <1>6 DEF Standing, InHand
<1>7. \A f \in Families : Ahead(a, f) => <<family[f].user, family[f].client>> \in h.todo
  BY <1>1 DEF Ahead, At
<1>8. p[1] \in Users /\ p[2] \in Clients /\ p = <<p[1], p[2]>>
  BY <1>1
<1>9. CASE h.op = "revoke" \/ ~HasAccess(p[1], p[2])
  <2>1. PICK k : k = [h EXCEPT !.pc = "find", !.user = p[1], !.client = p[2], !.todo = h.todo \ {p}]
    OBVIOUS
  <2>2. /\ k \in Handler /\ k.pc = "find" /\ k.user = p[1] /\ k.client = p[2] /\ k.op = h.op
        /\ k.todo = h.todo \ {p} /\ k.group = h.group
    BY <1>1, <1>8, <2>1 DEF Handler
  <2>3. adm' = [adm EXCEPT ![a] = k] /\ adm'[a] = k
    BY <1>2, <1>4, <1>9, <2>1 DEF Types
  <2>4. HandlerOK(k)'
    BY <1>1, <1>8, <2>2 DEF HandlerOK
  <2>5. ASSUME NEW f \in Families, Standing(f)', Ahead(a, f)
        PROVE  InHand(a, f)' \/ Ahead(a, f)'
    <3>1. CASE <<family[f].user, family[f].client>> = p
      BY <1>5, <2>2, <2>3, <3>1 DEF InHand
    <3>2. CASE <<family[f].user, family[f].client>> # p
      <4>1. <<family[f].user, family[f].client>> \in k.todo
        BY <1>7, <2>2, <2>5, <3>2
      <4> QED BY <1>5, <2>2, <2>3, <4>1 DEF Ahead
    <3> QED BY <3>1, <3>2
  <2> QED BY <1>3, <1>5, <1>6, <2>2, <2>3, <2>4, <2>5, RowsUntouched
<1>10. CASE ~(h.op = "revoke" \/ ~HasAccess(p[1], p[2]))
  <2>1. h.todo \ {p} \in SUBSET (Users \X Clients)
    BY <1>1
  <2>2. PICK k \in Handler : k = CuttingOff(h, h.todo \ {p}) /\ HandlerOK(k)'
    BY <1>1, <2>1, CuttingOffOKThen
  <2>3. adm' = [adm EXCEPT ![a] = k] /\ adm'[a] = k
    BY <1>2, <1>4, <1>10, <2>2 DEF Types
  <2>4. ASSUME NEW f \in Families, Standing(f)', Ahead(a, f),
               ~HasAccess(family[f].user, family[f].client)
        PROVE  Ahead(a, f)'
    <3>1. <<family[f].user, family[f].client>> # p
      BY <1>8, <1>10, <2>4
    <3>2. <<family'[f].user, family'[f].client>> \in h.todo \ {p}
      BY <1>5, <1>7, <2>4, <3>1
    <3>3. PICK held : held = h
      OBVIOUS
    <3>4. PICK todo : todo = h.todo \ {p}
      OBVIOUS
    <3>5. adm'[a] = CuttingOff(held, todo) /\ held \in Handler
      BY <1>1, <2>2, <2>3, <3>3, <3>4
    <3> QED BY <3>2, <3>4, <3>5, Listed
  <2> QED BY <1>3, <1>5, <1>6, <2>2, <2>3, <2>4, RowsUntouched
<1> QED BY <1>9, <1>10

LEMMA FoundOut ==
    ASSUME IInv, NEW a \in Admins, CutFind(a)
    PROVE  IInv'
<1> DEFINE h == adm[a]
           ids == FamiliesOf(h.user, h.client)
<1> USE AccessAssumption
<1>1. /\ h \in Handler /\ HandlerOK(h) /\ h.pc = "find" /\ h.op # "disable"
      /\ h.todo \in SUBSET (Users \X Clients) /\ ids \subseteq Families
  BY DEF IInv, Types, Handling, CutFind, HandlerOK, Handler, FamiliesOf
<1>2. Types /\ Owned
  BY DEF IInv
<1>3. /\ UNCHANGED <<rows, issued, req, history, changes>>
      /\ adm' = [adm EXCEPT ![a] = IF ids = {} THEN CuttingOff(h, h.todo)
                                   ELSE [h EXCEPT !.pc = "tokens", !.ids = ids]]
  BY DEF CutFind
<1>4. IssuedStep /\ UNCHANGED family
  BY <1>2, <1>3, IssuedStays DEF issued
<1>5. ASSUME NEW f \in Families, Standing(f)'
      PROVE  /\ Standing(f)
             /\ InHand(a, f) => f \in ids
             /\ Ahead(a, f) => <<family'[f].user, family'[f].client>> \in h.todo
  <2>1. Standing(f) /\ family[f].there
    BY <1>4, <1>5 DEF Standing
  <2>2. InHand(a, f) => f \in ids
    BY <1>1, <2>1 DEF InHand, FamiliesOf
  <2>3. Ahead(a, f) => <<family'[f].user, family'[f].client>> \in h.todo
    BY <1>1, <1>4 DEF Ahead, At
  <2> QED BY <2>1, <2>2, <2>3
<1> HIDE DEF ids
<1>6. CASE ids = {}
  <2>1. PICK k \in Handler : k = CuttingOff(h, h.todo) /\ HandlerOK(k)'
    BY <1>1, CuttingOffOKThen
  <2>2. adm' = [adm EXCEPT ![a] = k] /\ adm'[a] = k
    BY <1>2, <1>3, <1>6, <2>1 DEF Types
  <2>3. PICK old, todo : old = h /\ todo = h.todo
    OBVIOUS
  <2>4. ASSUME NEW f \in Families, Standing(f)', Ahead(a, f)
        PROVE  Ahead(a, f)'
    <3>1. adm'[a] = CuttingOff(old, todo) /\ old \in Handler
      BY <1>1, <2>1, <2>2, <2>3
    <3>2. <<family'[f].user, family'[f].client>> \in todo
      BY <1>5, <2>3, <2>4
    <3> QED BY <3>1, <3>2, Listed
  <2> QED BY <1>3, <1>4, <1>5, <1>6, <2>1, <2>2, <2>4, RowsUntouched
<1>7. CASE ids # {}
  <2>1. PICK k : k = [h EXCEPT !.pc = "tokens", !.ids = ids]
    OBVIOUS
  <2>2. /\ k \in Handler /\ k.pc = "tokens" /\ k.ids = ids /\ k.todo = h.todo /\ k.op = h.op
        /\ k.client = h.client /\ k.user = h.user /\ k.group = h.group
    BY <1>1, <2>1 DEF Handler
  <2>3. adm' = [adm EXCEPT ![a] = k] /\ adm'[a] = k
    BY <1>2, <1>3, <1>7, <2>1 DEF Types
  <2>4. HandlerOK(k)'
    BY <1>1, <2>2 DEF HandlerOK
  <2>5. ASSUME NEW f \in Families, Standing(f)'
        PROVE  /\ InHand(a, f) => InHand(a, f)'
               /\ Ahead(a, f) => Ahead(a, f)'
    BY <1>5, <2>2, <2>3, <2>5 DEF InHand, Ahead
  <2> QED BY <1>3, <1>4, <1>5, <2>2, <2>3, <2>4, <2>5, RowsUntouched
<1> QED BY <1>6, <1>7

\* The tokens that carry one of the ids, then the Grants themselves.
LEMMA Destroyed ==
    ASSUME IInv, NEW a \in Admins, CutTokens(a) \/ CutGrants(a)
    PROVE  IInv'
<1> DEFINE h == adm[a]
<1> USE AccessAssumption
<1>1. /\ h \in Handler /\ HandlerOK(h) /\ h.pc \in {"tokens", "grants"} /\ h.op # "disable"
      /\ h.todo \in SUBSET (Users \X Clients)
  BY DEF IInv, Types, Handling, CutTokens, CutGrants, HandlerOK, Handler
<1>2. Types /\ Owned /\ UNCHANGED <<rows, session, req, history, changes>>
  BY DEF IInv, CutTokens, CutGrants
<1>3. ASSUME NEW f \in Families
      PROVE  Taken(f, family[f], family'[f])
  <2>1. family[f] \in Family
    BY <1>2 DEF Types
  <2>2. \/ family'[f] = [family[f] EXCEPT !.code = FALSE, !.held = "none"]
        \/ family'[f] = [family[f] EXCEPT !.there = FALSE]
        \/ family'[f] = family[f]
    BY DEF CutTokens, CutGrants
  <2>3. CASE family'[f] = [family[f] EXCEPT !.code = FALSE, !.held = "none"]
    BY <2>1, <2>3 DEF Taken, Family
  <2>4. CASE family'[f] = [family[f] EXCEPT !.there = FALSE]
    BY <2>1, <2>4 DEF Taken, Family
  <2>5. CASE family'[f] = family[f]
    BY <2>1, <2>5 DEF Taken, Family
  <2> QED BY <2>2, <2>3, <2>4, <2>5
<1>4. family' \in [Families -> Family]
  BY <1>3 DEF Taken, CutTokens, CutGrants
<1>5. IssuedStep /\ \A f \in Families : Standing(f)' => Standing(f)
  BY <1>2, <1>3, <1>4, TakingTokens
<1>6. \A f \in Families : Standing(f)' =>
        /\ InHand(a, f) => f \in h.ids
        /\ Ahead(a, f) => <<family'[f].user, family'[f].client>> \in h.todo
  BY <1>1, <1>3 DEF InHand, Ahead, At, Taken
<1>7. CASE CutTokens(a)
  <2>1. h.pc = "tokens" /\ adm' = [adm EXCEPT ![a].pc = "grants"]
    BY <1>7 DEF CutTokens
  <2>2. PICK k : k = [h EXCEPT !.pc = "grants"]
    OBVIOUS
  <2>3. /\ k \in Handler /\ k.pc = "grants" /\ k.ids = h.ids /\ k.todo = h.todo /\ k.op = h.op
        /\ k.client = h.client /\ k.user = h.user /\ k.group = h.group
    BY <1>1, <2>2 DEF Handler
  <2>4. adm' = [adm EXCEPT ![a] = k] /\ adm'[a] = k
    BY <1>2, <2>1, <2>2 DEF Types
  <2>5. HandlerOK(k)'
    BY <1>1, <2>3 DEF HandlerOK
  <2>6. ASSUME NEW f \in Families, Standing(f)'
        PROVE  /\ InHand(a, f) => InHand(a, f)'
               /\ Ahead(a, f) => Ahead(a, f)'
    BY <1>6, <2>3, <2>4, <2>6 DEF InHand, Ahead
  <2> QED BY <1>2, <1>5, <2>3, <2>4, <2>5, <2>6, RowsUntouched
<1>8. CASE CutGrants(a)
  <2>1. /\ adm' = [adm EXCEPT ![a] = CuttingOff([h EXCEPT !.ids = {}], h.todo)]
        /\ \A f \in Families : f \in h.ids => family'[f] = [family[f] EXCEPT !.there = FALSE]
    BY <1>2, <1>8 DEF CutGrants, Types
  <2>2. PICK old : old = [h EXCEPT !.ids = {}]
    OBVIOUS
  <2>3. /\ old \in Handler /\ old.pc = h.pc /\ old.op = h.op /\ old.client = h.client
        /\ old.user = h.user /\ old.group = h.group /\ old.todo = h.todo
    BY <1>1, <2>2 DEF Handler
  <2>4. HandlerOK(old)
    BY <1>1, <2>3 DEF HandlerOK
  <2>5. PICK todo : todo = h.todo
    OBVIOUS
  <2>6. PICK k \in Handler : k = CuttingOff(old, todo) /\ HandlerOK(k)'
    BY <1>1, <2>3, <2>4, <2>5, CuttingOffOKThen
  <2>7. adm' = [adm EXCEPT ![a] = k] /\ adm'[a] = k
    BY <1>2, <2>1, <2>2, <2>5, <2>6 DEF Types
  <2>8. ASSUME NEW f \in Families, Standing(f)'
        PROVE  ~InHand(a, f) /\ (Ahead(a, f) => Ahead(a, f)')
    <3>1. f \notin h.ids
      <4>1. family[f] \in Family
        BY <1>2 DEF Types
      <4> QED BY <2>1, <2>8, <4>1 DEF Standing, Family
    <3>2. Ahead(a, f) => <<family'[f].user, family'[f].client>> \in todo
      BY <1>6, <2>5, <2>8
    <3>3. adm'[a] = CuttingOff(old, todo)
      BY <2>6, <2>7
    <3> QED BY <1>6, <2>3, <2>8, <3>1, <3>2, <3>3, Listed
  <2> QED BY <1>2, <1>5, <2>6, <2>7, <2>8, RowsUntouched
<1> QED BY <1>7, <1>8

-----------------------------------------------------------------------------
(* People. *)

LEMMA Suspended ==
    ASSUME IInv, NEW a \in Admins, Suspend(a)
    PROVE  IInv'
<1> USE AccessAssumption
<1>1. Types /\ Owned /\ RowTypes /\ Rows /\ Handling
  BY DEF IInv, Types, RowTypes
<1>2. PICK u \in Users :
        /\ adm[a].pc = "idle" /\ active' = [active EXCEPT ![u] = FALSE]
        /\ adm' = [adm EXCEPT ![a] = [Resting EXCEPT !.pc = "sessions", !.op = "suspend", !.user = u]]
        /\ changes' = changes + 1
        /\ UNCHANGED <<app, grant, group, visited, issued, req, history>>
  BY DEF Suspend, Write
<1>3. PICK k : k = [Resting EXCEPT !.pc = "sessions", !.op = "suspend", !.user = u]
  OBVIOUS
<1>4. /\ k \in Handler /\ k.pc = "sessions" /\ k.user = u /\ k.op = "suspend" /\ k.client = None
  BY <1>3 DEF Resting, Handler
<1>5. adm' = [adm EXCEPT ![a] = k] /\ adm'[a] = k /\ Losing({}, a, k)
  BY <1>1, <1>2, <1>3, OneHandler DEF Types
<1>6. HandlerOK(k)'
  BY <1>4 DEF HandlerOK, AppOps, GroupOps
<1>7. RowTypes' /\ Rows' /\ Counted
  BY <1>1, <1>2 DEF RowTypes, Rows, RolesDeclared, Counted, history
<1>8. IssuedStep /\ UNCHANGED family
  BY <1>1, <1>2, IssuedStays DEF issued
<1>9. ASSUME NEW f \in Families, Standing(f)'
      PROVE  Standing(f) /\ KeepsHold(a, f)
  <2>1. Standing(f) /\ family'[f] = family[f]
    BY <1>8, <1>9 DEF Standing
  <2>2. family[f].user \in Users
    BY <1>1, <2>1, OwnerKnown DEF Standing
  <2>3. ~InHand(a, f) /\ ~Ahead(a, f)
    BY <1>2 DEF InHand, Ahead, At
  <2>4. active[family[f].user] => active'[family'[f].user] \/ InHand(a, f)'
    BY <1>1, <1>2, <1>4, <1>5, <2>1, <2>2 DEF InHand, RowTypes
  <2>5. HasAccess(family[f].user, family[f].client) =>
          HasAccess(family[f].user, family[f].client)'
    BY <1>2, <2>1 DEF HasAccess, Members
  <2> QED BY <2>1, <2>3, <2>4, <2>5 DEF KeepsHold
<1> QED BY <1>2, <1>4, <1>5, <1>6, <1>7, <1>8, <1>9, AdminsKeepAll DEF history

LEMMA SessionsEnded ==
    ASSUME IInv, NEW a \in Admins, EndSessions(a)
    PROVE  IInv'
<1> DEFINE h == adm[a]
<1> USE AccessAssumption
<1>1. /\ Types /\ Owned /\ h \in Handler /\ HandlerOK(h) /\ h.pc = "sessions" /\ h.client = None
      /\ h.op # "disable"
  BY DEF IInv, Types, Handling, HandlerOK, EndSessions
<1>2. /\ session' = [session EXCEPT ![h.user] = SignedOut] /\ adm' = [adm EXCEPT ![a].pc = "find"]
      /\ UNCHANGED <<rows, family, req, history, changes>>
  BY DEF EndSessions
<1>3. PICK k : k = [h EXCEPT !.pc = "find"]
  OBVIOUS
<1>4. /\ k \in Handler /\ k.pc = "find" /\ k.user = h.user /\ k.op = h.op /\ k.client = None
      /\ k.group = h.group
  BY <1>1, <1>3 DEF Handler
<1>5. adm' = [adm EXCEPT ![a] = k] /\ adm'[a] = k
  BY <1>1, <1>2, <1>3 DEF Types
<1>6. HandlerOK(k)'
  BY <1>1, <1>4 DEF HandlerOK
<1>7. /\ session' \in [Users -> Session]
      /\ \A u \in Users, c \in Clients : session'[u].grants[c] \in {session[u].grants[c], None}
  BY <1>1, <1>2 DEF Types, Session, SignedOut
<1>8. IssuedStep
  <2>1. Owned'
    BY <1>1, <1>2, <1>7 DEF Owned, Belongs
  <2>2. FamilyStep
    BY <1>2 DEF FamilyStep, Standing
  <2> QED BY <1>1, <1>2, <1>7, <2>1, <2>2 DEF IssuedStep, Types
<1>9. ASSUME NEW f \in Families, Standing(f)'
      PROVE  Standing(f) /\ (InHand(a, f) => InHand(a, f)') /\ ~Ahead(a, f)
  <2>1. Standing(f)
    BY <1>2, <1>9 DEF Standing
  <2>2. ~Ahead(a, f)
    BY <1>1 DEF Ahead, At
  <2>3. InHand(a, f) => InHand(a, f)'
    BY <1>1, <1>2, <1>4, <1>5 DEF InHand
  <2> QED BY <2>1, <2>2, <2>3
<1> QED BY <1>2, <1>4, <1>5, <1>6, <1>8, <1>9, RowsUntouched

\* A group is made, a person reactivated: nobody loses anything.
LEMMA MadeOrReactivated ==
    ASSUME IInv, \/ \E g \in Groups : GroupCreate(g)
                 \/ \E u \in Users : Reactivate(u)
    PROVE  IInv'
<1>1. Types /\ Owned /\ Rows /\ Asking /\ Handling /\ Pursued
  BY DEF IInv
<1>2. UNCHANGED <<app, grant, visited, issued, req, adm, history>> /\ changes' = changes + 1
  BY DEF GroupCreate, Reactivate, Write
<1>3. /\ active' \in [Users -> BOOLEAN] /\ group' \in [Groups -> Group]
      /\ \A u \in Users : active[u] => active'[u]
      /\ \A g \in Groups :
           \/ group'[g] = group[g]
           \/ /\ group[g].members = {} /\ group'[g].members = {}
              /\ \A c \in Clients : group'[g].grants[c].roles = {}
  <2>1. ASSUME NEW g \in Groups, GroupCreate(g)
        PROVE  <1>3
    <3>1. /\ group' = [group EXCEPT ![g] = Nothing("there")] /\ active' = active
          /\ group[g].members = {}
      BY <1>1, <2>1 DEF GroupCreate, Rows
    <3>2. /\ Nothing("there") \in Group /\ Nothing("there").members = {}
          /\ \A c \in Clients : Nothing("there").grants[c].roles = {}
      BY DEF Nothing, Ungranted, Group, Grant
    <3> QED BY <1>1, <3>1, <3>2 DEF Types
  <2>2. ASSUME NEW u \in Users, Reactivate(u)
        PROVE  <1>3
    BY <1>1, <2>2 DEF Reactivate, Types
  <2> QED BY <2>1, <2>2
<1>4. Types'
  BY <1>1, <1>2, <1>3 DEF Types, issued, history
<1>5. Rows'
  BY <1>1, <1>2, <1>3 DEF Rows, RolesDeclared
<1>6. IssuedStep /\ UNCHANGED family
  BY <1>1, <1>2, IssuedStays DEF issued
<1>7. Handling'
  BY <1>1, <1>2 DEF Handling, HandlerOK
<1>8. ASSUME NEW r \in Requests
      PROVE  AskingOf(r)'
  <2>1. FamilyStep /\ AskingOf(r) /\ changes \in Nat
    BY <1>1, <1>6 DEF IssuedStep, Asking, Types
  <2> QED BY <1>1, <1>2, <2>1, AskingStays
<1>9. ASSUME ~stale, ~cutOff, NEW f \in Families, Standing(f)'
      PROVE  PursuedOf(f)'
  <2>1. Standing(f) /\ family'[f] = family[f]
    BY <1>6, <1>9 DEF Standing
  <2>2. PursuedOf(f) /\ family[f].user \in Users
    BY <1>1, <1>9, <2>1, OwnerKnown DEF Pursued, Standing
  <2>3. HasAccess(family[f].user, family[f].client) => HasAccess(family[f].user, family[f].client)'
    BY <1>2, <1>3, <2>1 DEF HasAccess, Members
  <2> QED BY <1>2, <1>3, <2>1, <2>2, <2>3 DEF PursuedOf, InHand, Ahead, At
<1>10. Pursued'
  BY <1>2, <1>9 DEF Pursued, history
<1> QED BY <1>4, <1>5, <1>6, <1>7, <1>8, <1>10 DEF IInv, IssuedStep, Asking

\* What was under way is forgotten, and the history says so.
LEMMA Crashed ==
    ASSUME IInv, Crash
    PROVE  IInv'
<1>1. Types /\ Owned /\ Rows
  BY DEF IInv
<1>2. /\ cutOff' /\ cutOff' \in BOOLEAN /\ UNCHANGED <<rows, issued, stale, changes>>
      /\ req' = [r \in Requests |-> Quiet] /\ adm' = [a \in Admins |-> Resting]
  BY DEF Crash
<1>3. Quiet \in Request /\ Resting \in Handler
  BY RestingOK DEF Quiet, Request
<1>4. Types'
  BY <1>1, <1>2, <1>3 DEF Types, rows, issued
<1>5. Rows' /\ Owned'
  BY <1>1, <1>2 DEF Rows, RolesDeclared, Owned, Belongs, rows, issued
<1>6. Asking'
  BY <1>2 DEF Asking, AskingOf, Authorizing, Quiet
<1>7. Handling'
  BY <1>2, RestingOKThen DEF Handling, HandlerOK
<1>8. Pursued'
  BY <1>2 DEF Pursued
<1> QED BY <1>4, <1>5, <1>6, <1>7, <1>8 DEF IInv

LEMMA Stuttering == IInv /\ UNCHANGED vars => IInv'
<1> SUFFICES ASSUME IInv, UNCHANGED vars PROVE IInv'
  OBVIOUS
<1>1. Types /\ Rows /\ Owned /\ Asking /\ Handling /\ Pursued
  BY DEF IInv
<1>2. UNCHANGED <<active, app, grant, group, visited, session, family, req, adm, stale, cutOff,
                  changes>>
  BY DEF vars, rows, issued, history
<1>3. Types'
  BY <1>1, <1>2 DEF Types
<1>4. Rows' /\ Owned'
  BY <1>1, <1>2 DEF Rows, RolesDeclared, Owned, Belongs
<1>5. Asking'
  <2>1. FamilyStep /\ changes \in Nat
    BY <1>1, <1>2 DEF FamilyStep, Standing, Types
  <2>2. ASSUME NEW r \in Requests
        PROVE  AskingOf(r)'
    BY <1>1, <1>2, <2>1, AskingStays DEF Asking
  <2> QED BY <2>2 DEF Asking
<1>6. Handling'
  BY <1>1, <1>2 DEF Handling, HandlerOK
<1>7. Pursued'
  <2>1. \A f \in Families : Standing(f)' = Standing(f) /\ PursuedOf(f)' = PursuedOf(f)
    BY <1>2 DEF Standing, PursuedOf, HasAccess, Members, InHand, Ahead, At
  <2> QED BY <1>1, <1>2, <2>1 DEF Pursued
<1> QED BY <1>3, <1>4, <1>5, <1>6, <1>7 DEF IInv

LEMMA AdministeringKeepsAll == IInv /\ Administering => IInv'
<1> SUFFICES ASSUME IInv, NEW a \in Admins,
                    \/ GrantRoutes(a) \/ GroupRoutes(a) \/ RegisterRoute(a) \/ AppRoutes(a)
                    \/ CuttingOffStep(a) \/ Suspend(a) \/ EndSessions(a)
             PROVE  IInv'
  BY DEF Administering
<1>1. CASE GrantRoutes(a)
  BY <1>1, Reads, Grants, Revoked DEF GrantRoutes
<1>2. CASE GroupRoutes(a)
  BY <1>2, Reads, Grants, GroupWrites DEF GroupRoutes, GroupOps
<1>3. CASE RegisterRoute(a)
  BY <1>3, Reads, Registered DEF RegisterRoute
<1>4. CASE AppRoutes(a)
  BY <1>4, Reads, Applied, Enabled, Disabled, AppTokens, Removed DEF AppRoutes
<1>5. CASE CuttingOffStep(a)
  BY <1>5, Decided, FoundOut, Destroyed DEF CuttingOffStep
<1>6. CASE Suspend(a) \/ EndSessions(a)
  BY <1>6, Suspended, SessionsEnded
<1> QED BY <1>1, <1>2, <1>3, <1>4, <1>5, <1>6

-----------------------------------------------------------------------------
(* The theorems. *)

\* The inductive invariant: who holds what, and which handler still has each family
\* of somebody who lost access (revoke-tokens.ts, groups.ts, apps.ts, admin/routes.ts).
THEOREM InductiveInvariant == Spec => []IInv
<1>1. IInv /\ [Next]_vars => IInv'
  <2> SUFFICES ASSUME IInv, [Next]_vars PROVE IInv'
    OBVIOUS
  <2>1. CASE Browsing \/ Serving
    BY <2>1, RequestsKeepAll
  <2>2. CASE Administering
    BY <2>2, AdministeringKeepsAll
  <2>3. CASE (\E g \in Groups : GroupCreate(g)) \/ \E u \in Users : Reactivate(u)
    BY <2>3, MadeOrReactivated
  <2>4. CASE Crash
    BY <2>4, Crashed
  <2>5. CASE UNCHANGED vars
    BY <2>5, Stuttering
  <2> QED BY <2>1, <2>2, <2>3, <2>4, <2>5 DEF Next
<1> QED BY Initially, <1>1, PTL DEF Spec

\* The rows hold what the schema says they hold, and what a request or a handler
\* carries is of the kind it was read as.
THEOREM TypeCorrect == Spec => []TypeOK
<1>1. IInv => TypeOK
  BY DEF IInv, Types, TypeOK, Group, Session, Family, Request, Handler
<1> QED BY InductiveInvariant, <1>1, PTL

\* Access taken away reaches the tokens (revoke-tokens.ts): with no handler under way,
\* a Grant that stands is of a person who may use its app, but for what the histories
\* name.
THEOREM AccessReachesTokens == Spec => []RevocationReaches
<1>1. ASSUME IInv, UnderWay = {}, ~stale, ~cutOff, NEW f \in Families, Standing(f)
      PROVE  Entitled(family[f].user, family[f].client)
  <2>1. \A a \in Admins : adm[a].pc = "idle"
    BY <1>1 DEF UnderWay
  <2>2. PursuedOf(f)
    BY <1>1 DEF IInv, Pursued
  <2>3. \A a \in Admins : ~InHand(a, f) /\ ~Ahead(a, f)
    BY <2>1 DEF InHand, Ahead, At
  <2> QED BY <2>2, <2>3 DEF PursuedOf, Entitled
<1>2. IInv => RevocationReaches
  BY <1>1 DEF RevocationReaches, Standing
<1> QED BY InductiveInvariant, <1>2, PTL

\* No grant gives a role its app does not declare (grants.ts, groups.ts, apps.ts).
THEOREM DeclaredRolesOnly == Spec => []RolesDeclared
<1>1. IInv => RolesDeclared
  BY DEF IInv, Rows
<1> QED BY InductiveInvariant, <1>1, PTL

\* No handler of an admin touches a request.
LEMMA RequestsUntouched == Administering => UNCHANGED req
<1> SUFFICES ASSUME NEW a \in Admins,
                    \/ GrantRoutes(a) \/ GroupRoutes(a) \/ RegisterRoute(a) \/ AppRoutes(a)
                    \/ CuttingOffStep(a) \/ Suspend(a) \/ EndSessions(a)
             PROVE  UNCHANGED req
  BY DEF Administering
<1>1. CASE GrantRoutes(a)
  BY <1>1 DEF GrantRoutes, SetRead, SetWrite, RevokeRead, RevokeWrite, Begin, issued
<1>2. CASE GroupRoutes(a)
  BY <1>2 DEF GroupRoutes, GroupRead, MembersWrite, GroupSetWrite, GroupRevokeWrite,
              GroupRemoveWrite, Begin, issued
<1>3. CASE RegisterRoute(a)
  BY <1>3 DEF RegisterRoute, RegisterRead, RegisterCreate, Begin, issued
<1>4. CASE AppRoutes(a)
  BY <1>4 DEF AppRoutes, UpdateRead, Apply, AppRead, Enable, Disable, DisableTokens,
              RemoveTokens, RemoveDelete, Begin, issued
<1>5. CASE CuttingOffStep(a)
  BY <1>5 DEF CuttingOffStep, CutDecide, CutFind, CutTokens, CutGrants
<1>6. CASE Suspend(a) \/ EndSessions(a)
  BY <1>6 DEF Suspend, EndSessions, Begin
<1> QED BY <1>1, <1>2, <1>3, <1>4, <1>5, <1>6

\* Only an answer leaves "answer" and the request's process alive: no step of another
\* request, of the session or of a handler does.
LEMMA OnlyTheAnswer ==
    ASSUME IInv, [Next]_vars, ~cutOff', NEW r \in Requests, Burnt(r)
    PROVE  RefreshAnswer(r)
<1>1. /\ req[r].pc = "answer" /\ req'[r] # req[r] /\ req \in [Requests -> Request]
      /\ Types /\ Owned /\ Asking
  BY DEF Burnt, IInv, Types
<1>2. CASE \E s \in Requests : \/ Authorize(s) \/ LoadAccess(s) \/ FindGrant(s) \/ Prompt(s)
                               \/ Continue(s) \/ WalkAway(s) \/ Consent(s) \/ RedeemRead(s)
                               \/ RefreshJudge(s)
  <2>1. PICK s \in Requests : \/ Authorize(s) \/ LoadAccess(s) \/ FindGrant(s) \/ Prompt(s)
                              \/ Continue(s) \/ WalkAway(s) \/ Consent(s) \/ RedeemRead(s)
                              \/ RefreshJudge(s)
    BY <1>2
  <2>2. RequestMoves(s)
    BY <1>1, <2>1, Reading
  <2>3. req[s].pc # "answer"
    BY <2>1 DEF Authorize, LoadAccess, FindGrant, Prompt, Continue, WalkAway, Consent,
                RedeemRead, RefreshJudge
  <2> QED BY <1>1, <2>2, <2>3 DEF RequestMoves
<1>3. CASE \E s \in Requests : \/ SaveGrant(s) \/ IssueCode(s) \/ SaveConsent(s)
                               \/ RedeemSave(s) \/ RefreshConsume(s) \/ RefreshAnswer(s)
  <2>1. PICK s \in Requests : \/ SaveGrant(s) \/ IssueCode(s) \/ SaveConsent(s)
                              \/ RedeemSave(s) \/ RefreshConsume(s) \/ RefreshAnswer(s)
    BY <1>3
  <2>2. RequestMoves(s)
    BY <1>1, <2>1, Saving
  <2>3. s = r
    BY <1>1, <2>2 DEF RequestMoves
  <2> QED BY <1>1, <2>1, <2>3 DEF SaveGrant, IssueCode, SaveConsent, RedeemSave, RefreshConsume
<1>4. CASE (\E u \in Users : SignInAgain(u)) \/ \E f \in Families : Reuse(f)
  BY <1>1, <1>4, SignInAgainOrReuse
<1>5. CASE Administering
  BY <1>1, <1>5, RequestsUntouched
<1>6. CASE (\E g \in Groups : GroupCreate(g)) \/ \E u \in Users : Reactivate(u)
  BY <1>1, <1>6 DEF GroupCreate, Reactivate
<1>7. CASE Crash
  BY <1>7 DEF Crash
<1>8. CASE UNCHANGED vars
  BY <1>1, <1>8 DEF vars
<1> QED BY <1>2, <1>3, <1>4, <1>5, <1>6, <1>7, <1>8 DEF Next, Browsing, Serving

\* A refresh for an audience that is refused costs the app nothing (clients.ts,
\* resources.ts): what the rotation judged stays true until a write, so a token is
\* consumed without a successor only across a change of access or a stop.
THEOREM RefusalsAreFree == Spec => RefusedRefreshCostsNothing
<1>1. ASSUME IInv, [Next]_vars, ~cutOff', NEW r \in Requests, Burnt(r)
      PROVE  changes # req[r].at
  <2> DEFINE q == req[r]
             f == family[q.fam]
  <2>1. /\ q \in Request /\ AskingOf(r) /\ q.pc = "answer"
        /\ q.fam \in Families /\ family \in [Families -> Family]
    BY <1>1 DEF IInv, Types, Asking, AskingOf, Burnt, Request
  <2>2. RefreshAnswer(r)
    BY <1>1, OnlyTheAnswer
  <2>3. q.aud # None /\ ~Allowed(q.aud, f.client, f.user)
    BY <1>1, <2>1, <2>2 DEF RefreshAnswer, Burnt, Family
  <2> QED BY <2>1, <2>3 DEF AskingOf
<1>2. IInv /\ [Next]_vars => \A r \in Requests : Burnt(r) => changes # req[r].at \/ cutOff'
  BY <1>1
<1> QED BY InductiveInvariant, <1>2, PTL DEF Spec, RefusedRefreshCostsNothing

=============================================================================
