------------------------------- MODULE Access -------------------------------
(***************************************************************************)
(* Who may sign in to what, and what becomes of the tokens when that       *)
(* changes.  Access is a direct grant (authz/grants.ts) or a group's       *)
(* (admin/groups.ts) to an app that exists and is enabled (admin/apps.ts); *)
(* it is read at the moment it is needed (authz/effective-roles.ts), by    *)
(* the provider's hooks (oidc/provider.ts, resources.ts, account.ts) and by*)
(* the consent prompt (interaction/routes.ts).  What an authorization      *)
(* leaves is a family: a provider Grant, and the code and tokens that carry*)
(* its id.  Taking access away takes families (oidc/revoke-tokens.ts).     *)
(*                                                                         *)
(* `req` is a request of a browser or of an app's server, `adm` a handler  *)
(* of an admin, each cut at the awaits where what it has read may turn     *)
(* stale.  A transaction is one step; so is one call of effectiveAccess,   *)
(* whose three queries leave together.  Left out: telling the apps, names  *)
(* and descriptions, client secrets, redirect URIs, and the scopes.        *)
(***************************************************************************)
EXTENDS Naturals, FiniteSets

CONSTANTS
    Users, Clients, Groups, Roles,
    Managed,    \* bound: the apps whose rows and grants the admins change
    Native,     \* D3 Constellation's client: the one that asks for other apps' audiences
    Families,   \* ids of provider Grants; one is never used twice
    Requests, Admins,
    None,
    MaxChanges  \* bound: writes by handlers of admins

ASSUME AccessAssumption ==
    /\ None \notin Users \cup Clients \cup Groups \cup Families
    /\ Native \in Clients /\ Managed \subseteq Clients
    /\ MaxChanges \in Nat

VARIABLES
    active,   \* user -> may sign in at all
    app,      \* client id -> its row
    grant,    \* user -> client -> the direct grant
    group,    \* group id -> its row, members and grants
    visited,  \* who has continued to which app once
    session,  \* user -> the provider's session, and the Grant it knows per client
    family,   \* the provider's rows, by Grant id
    req,      \* request -> where it stands
    adm,      \* handler of an admin -> where it stands
    stale,    \* history: a group's handler wrote over what it had not read
    cutOff,   \* history: the process stopped with a handler under way
    changes   \* bound: writes so far

rows == <<active, app, grant, group, visited>>
issued == <<session, family>>
history == <<stale, cutOff>>
vars == <<rows, issued, req, adm, history, changes>>

-----------------------------------------------------------------------------
(* The rows. *)

Grant == [on : BOOLEAN, roles : SUBSET Roles]
Ungranted == [on |-> FALSE, roles |-> {}]

App == [there : BOOLEAN, enabled : BOOLEAN, roles : SUBSET Roles]
NoApp == [there |-> FALSE, enabled |-> FALSE, roles |-> {}]

Group == [state : {"unborn", "there", "gone"}, members : SUBSET Users,
          grants : [Clients -> Grant]]
Nothing(state) == [state |-> state, members |-> {}, grants |-> [c \in Clients |-> Ungranted]]

\* held: the refresh token the app holds.  A "burnt" one was consumed and its
\* successor never arrived; "none" is none, or one whose row is gone.
\* late: saved when its owner had no access (a history).
Family == [user : Users \cup {None}, client : Clients \cup {None}, there : BOOLEAN,
           audiences : SUBSET Clients, code : BOOLEAN,
           held : {"none", "fresh", "burnt"}, late : BOOLEAN]
Unminted == [user |-> None, client |-> None, there |-> FALSE, audiences |-> {},
             code |-> FALSE, held |-> "none", late |-> FALSE]

Session == [on : BOOLEAN, grants : [Clients -> Families \cup {None}]]
SignedOut == [on |-> FALSE, grants |-> [c \in Clients |-> None]]

Request == [pc : {"idle", "load", "find", "save", "code", "prompt", "asked", "consent",
                  "mint", "redeem", "refresh", "answer"},
            user : Users \cup {None}, client : Clients \cup {None},
            fam : Families \cup {None}, aud : Clients \cup {None},
            audiences : SUBSET Clients, at : Nat]
Quiet == [pc |-> "idle", user |-> None, client |-> None, fam |-> None, aud |-> None,
          audiences |-> {}, at |-> 0]

\* lost: the row this handler found is not the one there now.
Handler == [pc : {"idle", "write", "fill", "cut", "find", "tokens", "grants", "sessions"},
            op : {"none", "set", "revoke", "members", "groupSet", "groupRevoke", "groupRemove",
                  "register", "update", "enable", "disable", "remove", "suspend"},
            user : Users \cup {None}, client : Clients \cup {None}, group : Groups \cup {None},
            roles : SUBSET Roles, members : SUBSET Users,
            existing : BOOLEAN, lost : BOOLEAN, confirmed : BOOLEAN,
            seenMembers : SUBSET Users, seenClients : SUBSET Clients,
            todo : SUBSET (Users \X Clients), ids : SUBSET Families]
Resting == [pc |-> "idle", op |-> "none", user |-> None, client |-> None, group |-> None,
            roles |-> {}, members |-> {}, existing |-> FALSE, lost |-> FALSE,
            confirmed |-> FALSE, seenMembers |-> {}, seenClients |-> {}, todo |-> {}, ids |-> {}]

Members(g) == group[g].members
ClientsOf(g) == {c \in Clients : group[g].grants[c].on}

\* What a role list of an app may hold: any subset of what its manifest declares.
Declared(c) == app[c].roles

\* effectiveAccess: the union of the direct grant and the groups', of an enabled app.
HasAccess(u, c) ==
    /\ app[c].there /\ app[c].enabled
    /\ \/ grant[u][c].on
       \/ \E g \in Groups : u \in Members(g) /\ group[g].grants[c].on

\* The client adapter: a disabled app is not a client at all.
Served(c) == app[c].there /\ app[c].enabled

\* resources.allowed for an app's audience.
Allowed(aud, client, u) ==
    client = Native /\ Served(client) /\ Served(aud) /\ HasAccess(u, aud)

\* Everybody has every app, by a direct grant or as a member of a group.
Init ==
    /\ active = [u \in Users |-> TRUE]
    /\ app = [c \in Clients |-> [there |-> TRUE, enabled |-> TRUE, roles |-> Roles]]
    /\ \E direct \in SUBSET Users, grouped \in BOOLEAN :
         LET given(on) == [c \in Clients |-> [on |-> on, roles |-> IF on THEN Roles ELSE {}]]
         IN  /\ grant = [u \in Users |-> given(u \in direct)]
             /\ group = [g \in Groups |->
                           IF grouped THEN [state |-> "there", members |-> Users,
                                            grants |-> given(TRUE)]
                           ELSE Nothing("unborn")]
    /\ visited = {}
    /\ session = [u \in Users |-> [SignedOut EXCEPT !.on = TRUE]]
    /\ family = [f \in Families |-> Unminted]
    /\ req = [r \in Requests |-> Quiet]
    /\ adm = [a \in Admins |-> Resting]
    /\ stale = FALSE /\ cutOff = FALSE
    /\ changes = 0

-----------------------------------------------------------------------------
(* Authorization requests. *)

To(r, pc) == req' = [req EXCEPT ![r].pc = pc]
Ends(r) == req' = [req EXCEPT ![r] = Quiet]

\* The provider takes a request of a signed-in, active person (findAccount) to
\* an app it serves, naming perhaps another app's audience.
Authorize(r) ==
    /\ req[r].pc = "idle"
    /\ \E u \in Users, c \in Clients, aud \in Clients \cup {None} :
         /\ session[u].on /\ active[u] /\ Served(c)
         /\ aud # None => c = Native /\ aud # Native /\ Served(aud)
         /\ c \notin Managed => aud # None   \* bound: else nothing the model changes
         /\ req' = [req EXCEPT ![r] = [Quiet EXCEPT !.pc = "load", !.user = u,
                                                    !.client = c, !.aud = aud]]
    /\ UNCHANGED <<rows, issued, adm, history, changes>>

\* loadExistingGrant, first: no access, or never here before, gives no grant,
\* and the provider raises the consent prompt.
LoadAccess(r) ==
    LET u == req[r].user
        c == req[r].client
    IN  /\ req[r].pc = "load"
        /\ IF HasAccess(u, c) /\ <<u, c>> \in visited THEN To(r, "find") ELSE To(r, "prompt")
        /\ UNCHANGED <<rows, issued, adm, history, changes>>

\* A mutant: whatever was asked for is added.
WithAnyAudience(audiences, aud, client, u) == audiences \cup {aud}

\* addResources: an audience this person may have is added, one they may not
\* have is rejected, one that is no audience any more left alone.
WithAudience(audiences, aud, client, u) ==
    IF aud = None THEN audiences
    ELSE IF Allowed(aud, client, u) THEN audiences \cup {aud}
    ELSE IF Served(client) /\ Served(aud) THEN audiences \ {aud} ELSE audiences

\* loadExistingGrant, second: the Grant of the consent just given, or of the
\* session, if its row is there; a new one otherwise.
FindGrant(r) ==
    LET q == req[r]
        known == IF q.fam # None THEN q.fam ELSE session[q.user].grants[q.client]
        found == known # None /\ family[known].there
        had == IF found THEN family[known].audiences ELSE {}
    IN  /\ q.pc = "find"
        /\ req' = [req EXCEPT ![r].pc = "save",
                              ![r].fam = IF found THEN known ELSE None,
                              ![r].audiences = WithAudience(had, q.aud, q.client, q.user)]
        /\ UNCHANGED <<rows, issued, adm, history, changes>>

Late(u, c) == ~active[u] \/ ~HasAccess(u, c)

\* A Grant under an id never used.
Minted(f, q, audiences) ==
    family' = [family EXCEPT ![f] =
                 [Unminted EXCEPT !.user = q.user, !.client = q.client, !.there = TRUE,
                                  !.audiences = audiences, !.late = Late(q.user, q.client)]]

\* loadExistingGrant, third: save() is an upsert, so a Grant that was deleted
\* since it was found is back.
SaveGrant(r) ==
    LET q == req[r]
    IN  /\ q.pc = "save"
        /\ \/ /\ q.fam # None
              /\ family' = [family EXCEPT ![q.fam].there = TRUE,
                                          ![q.fam].audiences = q.audiences,
                                          ![q.fam].late = @ \/ Late(q.user, q.client)]
              /\ To(r, "code")
           \/ /\ q.fam = None
              /\ \E f \in Families :
                   /\ family[f].user = None
                   /\ Minted(f, q, q.audiences)
                   /\ req' = [req EXCEPT ![r].pc = "code", ![r].fam = f]
        /\ UNCHANGED <<rows, session, adm, history, changes>>

\* The provider answers with a code, and the session learns the Grant.
IssueCode(r) ==
    LET q == req[r]
    IN  /\ q.pc = "code"
        /\ family' = [family EXCEPT ![q.fam].code = TRUE]
        /\ session' = IF session[q.user].on
                      THEN [session EXCEPT ![q.user].grants[q.client] = q.fam]
                      ELSE session
        /\ Ends(r)
        /\ UNCHANGED <<rows, adm, history, changes>>

\* GET /login/:uid with a consent prompt: refused without access, asked the
\* first time, silent afterwards.
Prompt(r) ==
    LET q == req[r]
    IN  /\ q.pc = "prompt"
        /\ IF ~HasAccess(q.user, q.client) THEN Ends(r)
           ELSE To(r, IF <<q.user, q.client>> \in visited THEN "consent" ELSE "asked")
        /\ UNCHANGED <<rows, issued, adm, history, changes>>

\* POST continue: refused without access, and the visit recorded otherwise.
Continue(r) ==
    LET q == req[r]
    IN  /\ q.pc = "asked"
        /\ IF HasAccess(q.user, q.client)
           THEN visited' = visited \cup {<<q.user, q.client>>} /\ To(r, "consent")
           ELSE UNCHANGED visited /\ Ends(r)
        /\ UNCHANGED <<active, app, grant, group, issued, adm, history, changes>>

\* The person closes the page.
WalkAway(r) ==
    /\ req[r].pc = "asked"
    /\ Ends(r)
    /\ UNCHANGED <<rows, issued, adm, history, changes>>

\* grantAndFinish: refused without access; otherwise a Grant is saved and the
\* authorization resumes with it.
Consent(r) ==
    /\ req[r].pc = "consent"
    /\ IF HasAccess(req[r].user, req[r].client) THEN To(r, "mint") ELSE Ends(r)
    /\ UNCHANGED <<rows, issued, adm, history, changes>>

SaveConsent(r) ==
    /\ req[r].pc = "mint"
    /\ \E f \in Families :
         /\ family[f].user = None
         /\ Minted(f, req[r], {})
         /\ req' = [req EXCEPT ![r].pc = "load", ![r].fam = f]
    /\ UNCHANGED <<rows, session, adm, history, changes>>

-----------------------------------------------------------------------------
(* The token endpoint. *)

\* What the provider asks before it honours a code or a token: the client is
\* served, the account active (findAccount), the Grant there.
Honoured(f) ==
    family[f].there /\ Served(family[f].client) /\ active[family[f].user]

RedeemRead(r) ==
    /\ req[r].pc = "idle"
    /\ \E f \in Families :
         /\ family[f].code /\ Honoured(f)
         /\ req' = [req EXCEPT ![r] = [Quiet EXCEPT !.pc = "redeem", !.fam = f]]
    /\ UNCHANGED <<rows, issued, adm, history, changes>>

\* The tokens are rows of their own: they are written whether the Grant is
\* still there or not.
RedeemSave(r) ==
    /\ req[r].pc = "redeem"
    /\ family' = [family EXCEPT ![req[r].fam].code = FALSE, ![req[r].fam].held = "fresh"]
    /\ Ends(r)
    /\ UNCHANGED <<rows, session, adm, history, changes>>

\* A mutant: the hook always says yes, as it did.
JudgedLater(f, aud) == aud # None => aud \in family[f].audiences

\* rotateRefreshToken: a resource that will be refused is refused here, before
\* the token is consumed.
Judged(f, aud) ==
    aud # None => aud \in family[f].audiences
                  /\ Allowed(aud, family[f].client, family[f].user)

RefreshJudge(r) ==
    /\ req[r].pc = "idle"
    /\ \E f \in Families, aud \in Clients \cup {None} :
         /\ family[f].held = "fresh" /\ Honoured(f) /\ Judged(f, aud)
         /\ req' = [req EXCEPT ![r] = [Quiet EXCEPT !.pc = "refresh", !.fam = f, !.aud = aud,
                                                    !.at = changes]]
    /\ UNCHANGED <<rows, issued, adm, history, changes>>

\* The presented token is consumed and its successor saved.
RefreshConsume(r) ==
    /\ req[r].pc = "refresh"
    /\ family' = [family EXCEPT ![req[r].fam].held = IF @ = "fresh" THEN "burnt" ELSE @]
    /\ To(r, "answer")
    /\ UNCHANGED <<rows, session, adm, history, changes>>

\* getResourceServerInfo judges once more, at the token endpoint for this
\* person; if it refuses, the answer carries no successor.
RefreshAnswer(r) ==
    LET q == req[r]
        f == family[q.fam]
        refused == q.aud # None /\ ~Allowed(q.aud, f.client, f.user)
    IN  /\ q.pc = "answer"
        /\ family' = IF refused \/ f.held # "burnt" THEN family
                     ELSE [family EXCEPT ![q.fam].held = "fresh"]
        /\ Ends(r)
        /\ UNCHANGED <<rows, session, adm, history, changes>>

\* The app tries again with what it holds: a consumed token presented twice
\* revokes the Grant and everything of it.
Reuse(f) ==
    /\ family[f].held = "burnt" /\ Honoured(f)
    /\ \A r \in Requests : req[r].pc = "answer" => req[r].fam # f
    /\ family' = [family EXCEPT ![f].there = FALSE, ![f].code = FALSE, ![f].held = "none"]
    /\ UNCHANGED <<rows, session, req, adm, history, changes>>

-----------------------------------------------------------------------------
(* Handlers of admins. *)

Done(a) == adm' = [adm EXCEPT ![a] = Resting]
UnderWay == {a \in Admins : adm[a].pc # "idle"}
At(a, op, pc) == adm[a].op = op /\ adm[a].pc = pc

Begin(a, h) ==
    /\ adm[a].pc = "idle"
    /\ changes + Cardinality(UnderWay) < MaxChanges
    /\ adm' = [adm EXCEPT ![a] = h]
    /\ UNCHANGED <<rows, issued, req, history, changes>>

Write == changes' = changes + 1

\* A handler goes on to cut off everybody in todo, or is done.
CuttingOff(h, todo) ==
    IF todo = {} THEN Resting ELSE [h EXCEPT !.pc = "cut", !.todo = todo]

\* This handler is replaced by h, and the ones in S have lost the row they found.
Losing(S, a, h) ==
    adm' = [b \in Admins |-> IF b = a THEN h
                             ELSE IF b \in S THEN [adm[b] EXCEPT !.lost = TRUE] ELSE adm[b]]

\* grants.set: app, roles, person and the grant's row are read outside the
\* transaction that writes.
SetRead(a) ==
    \E u \in Users, c \in Managed : \E rs \in SUBSET Declared(c) :
        /\ app[c].there
        /\ Begin(a, [Resting EXCEPT !.pc = "write", !.op = "set", !.user = u, !.client = c,
                                    !.roles = rs, !.existing = grant[u][c].on])

\* A mutant: unknown roles are let through.
NeverAsked(c, rs) == TRUE

\* The roles of a list are still roles of that app (foreign keys).
StillDeclared(c, rs) == rs \subseteq Declared(c)

\* The transaction fails when the row it found is gone, when it found none and
\* there is one, or when a role has gone; the apps are told, and nothing is revoked.
SetWrite(a) ==
    LET h == adm[a]
    IN  /\ At(a, "set", "write")
        /\ \/ /\ ~h.lost /\ StillDeclared(h.client, h.roles)
              /\ grant[h.user][h.client].on = h.existing
              /\ grant' = [grant EXCEPT ![h.user][h.client] = [on |-> TRUE, roles |-> h.roles]]
              /\ Write
           \/ /\ \/ h.lost \/ ~StillDeclared(h.client, h.roles)
                 \/ grant[h.user][h.client].on # h.existing
              /\ UNCHANGED <<grant, changes>>
        /\ Done(a)
        /\ UNCHANGED <<active, app, group, visited, issued, req, history>>

\* grants.revoke: the row goes, and then the families of this person and app.
RevokeRead(a) ==
    \E u \in Users, c \in Managed :
        /\ app[c].there
        /\ Begin(a, [Resting EXCEPT !.pc = "write", !.op = "revoke", !.user = u, !.client = c])

RevokeWrite(a) ==
    LET h == adm[a]
        holders == {b \in Admins : adm[b].op = "set" /\ adm[b].user = h.user
                                   /\ adm[b].client = h.client /\ adm[b].existing}
    IN  /\ At(a, "revoke", "write")
        /\ \/ /\ ~h.lost /\ grant[h.user][h.client].on
              /\ grant' = [grant EXCEPT ![h.user][h.client] = Ungranted]
              /\ Losing(holders, a, CuttingOff(h, {<<h.user, h.client>>}))
              /\ Write
           \/ /\ h.lost \/ ~grant[h.user][h.client].on
              /\ Done(a) /\ UNCHANGED <<grant, changes>>
        /\ UNCHANGED <<active, app, group, visited, issued, req, history>>

\* Handlers of a group: what they read of it says whom they will tell and check.
GroupRead(a, op) ==
    \E g \in Groups :
        /\ group[g].state = "there"
        /\ \/ /\ op = "members"
              /\ \E M \in SUBSET Users :
                   Begin(a, [Resting EXCEPT !.pc = "write", !.op = op, !.group = g, !.members = M,
                                            !.seenMembers = Members(g), !.seenClients = ClientsOf(g)])
           \/ /\ op = "groupSet"
              /\ \E c \in Managed : \E rs \in SUBSET Declared(c) :
                   /\ app[c].there
                   /\ Begin(a, [Resting EXCEPT !.pc = "write", !.op = op, !.group = g,
                                               !.client = c, !.roles = rs])
           \/ /\ op = "groupRevoke"
              /\ \E c \in Managed :
                   /\ app[c].there
                   /\ Begin(a, [Resting EXCEPT !.pc = "write", !.op = op, !.group = g, !.client = c,
                                               !.seenMembers = Members(g), !.seenClients = {c}])
           \/ /\ op = "groupRemove"
              /\ Begin(a, [Resting EXCEPT !.pc = "write", !.op = op, !.group = g,
                                          !.seenMembers = Members(g), !.seenClients = ClientsOf(g)])

\* Who may lose access by this write, and was not read.
Unseen(h, clients, told) ==
    (Members(h.group) \X clients) \ (told \X h.seenClients) # {}

\* setMembers: the list is replaced; everybody in it before (as read) or now is
\* checked, for the apps as read.
MembersWrite(a) ==
    LET h == adm[a]
        told == h.seenMembers \cup h.members
    IN  /\ At(a, "members", "write")
        /\ \/ /\ group[h.group].state = "there"
              /\ stale' = (stale \/ Unseen(h, ClientsOf(h.group), told))
              /\ group' = [group EXCEPT ![h.group].members = h.members]
              /\ adm' = [adm EXCEPT ![a] = CuttingOff(h, told \X h.seenClients)]
              /\ Write
           \/ /\ group[h.group].state = "gone"
              /\ Done(a) /\ UNCHANGED <<group, stale, changes>>
        /\ UNCHANGED <<active, app, grant, visited, issued, req, cutOff>>

\* setGrant of a group: an upsert; the members are read after it.
GroupSetWrite(a) ==
    LET h == adm[a]
        fits == group[h.group].state = "there" /\ ~h.lost /\ StillDeclared(h.client, h.roles)
    IN  /\ At(a, "groupSet", "write")
        /\ \/ /\ fits
              /\ group' = [group EXCEPT ![h.group].grants[h.client] =
                                            [on |-> TRUE, roles |-> h.roles]]
              /\ adm' = [adm EXCEPT ![a] = CuttingOff(h, Members(h.group) \X {h.client})]
              /\ Write
           \/ ~fits /\ Done(a) /\ UNCHANGED <<group, changes>>
        /\ UNCHANGED <<active, app, grant, visited, issued, req, history>>

\* revokeGrant of a group: the members were read before it.
GroupRevokeWrite(a) ==
    LET h == adm[a]
    IN  /\ At(a, "groupRevoke", "write")
        /\ \/ /\ ~h.lost /\ group[h.group].grants[h.client].on
              /\ stale' = (stale \/ Unseen(h, {h.client}, h.seenMembers))
              /\ group' = [group EXCEPT ![h.group].grants[h.client] = Ungranted]
              /\ adm' = [adm EXCEPT ![a] = CuttingOff(h, h.seenMembers \X {h.client})]
              /\ Write
           \/ /\ h.lost \/ ~group[h.group].grants[h.client].on
              /\ Done(a) /\ UNCHANGED <<group, stale, changes>>
        /\ UNCHANGED <<active, app, grant, visited, issued, req, cutOff>>

\* A mutant: whom it reaches is computed once it is gone.
GroupRemoveTellsNobody(a) ==
    LET h == adm[a]
    IN  /\ At(a, "groupRemove", "write")
        /\ \/ /\ group[h.group].state = "there"
              /\ stale' = (stale \/ Unseen(h, ClientsOf(h.group), h.seenMembers))
              /\ group' = [group EXCEPT ![h.group] = Nothing("gone")]
              /\ Done(a)
              /\ Write
           \/ /\ group[h.group].state = "gone"
              /\ Done(a) /\ UNCHANGED <<group, stale, changes>>
        /\ UNCHANGED <<active, app, grant, visited, issued, req, cutOff>>

\* remove: everything it gave goes with it; deleting it twice fails.
GroupRemoveWrite(a) ==
    LET h == adm[a]
    IN  /\ At(a, "groupRemove", "write")
        /\ \/ /\ group[h.group].state = "there"
              /\ stale' = (stale \/ Unseen(h, ClientsOf(h.group), h.seenMembers))
              /\ group' = [group EXCEPT ![h.group] = Nothing("gone")]
              /\ adm' = [adm EXCEPT ![a] = CuttingOff(h, h.seenMembers \X h.seenClients)]
              /\ Write
           \/ /\ group[h.group].state = "gone"
              /\ Done(a) /\ UNCHANGED <<group, stale, changes>>
        /\ UNCHANGED <<active, app, grant, visited, issued, req, cutOff>>

GroupCreate(g) ==
    /\ group[g].state = "unborn"
    /\ changes < MaxChanges
    /\ group' = [group EXCEPT ![g] = Nothing("there")]
    /\ Write
    /\ UNCHANGED <<active, app, grant, visited, issued, req, adm, history>>

-----------------------------------------------------------------------------
(* Apps. *)

\* Everything that hangs on the row goes with it (ON DELETE CASCADE).
AppGone(c) ==
    /\ app' = [app EXCEPT ![c] = NoApp]
    /\ grant' = [u \in Users |-> [grant[u] EXCEPT ![c] = Ungranted]]
    /\ group' = [g \in Groups |-> [group[g] EXCEPT !.grants[c] = Ungranted]]
    /\ visited' = {v \in visited : v[2] # c}

\* The roles that go take their rows in every grant with them.
Keeping(gr, rs) == [gr EXCEPT !.roles = @ \cap rs]

RolesBecome(c, rs) ==
    /\ app' = [app EXCEPT ![c].roles = rs]
    /\ grant' = [u \in Users |-> [grant[u] EXCEPT ![c] = Keeping(@, rs)]]
    /\ group' = [g \in Groups |-> [group[g] EXCEPT !.grants[c] = Keeping(@, rs)]]

\* register, first: nobody has this client id.
RegisterRead(a) ==
    \E c \in Managed, rs \in SUBSET Roles :
        /\ ~app[c].there
        /\ Begin(a, [Resting EXCEPT !.pc = "write", !.op = "register", !.client = c, !.roles = rs])

\* Then the row, enabled; the client id is unique.
RegisterCreate(a) ==
    LET h == adm[a]
    IN  /\ At(a, "register", "write")
        /\ \/ /\ ~app[h.client].there
              /\ app' = [app EXCEPT ![h.client] = [NoApp EXCEPT !.there = TRUE, !.enabled = TRUE]]
              /\ adm' = [adm EXCEPT ![a].pc = "fill", ![a].lost = FALSE]
              /\ Write
           \/ app[h.client].there /\ Done(a) /\ UNCHANGED <<app, changes>>
        /\ UNCHANGED <<active, grant, group, visited, issued, req, history>>

\* diffManifest's blocking: a role that goes while a direct grant holds it.
Blocking(c, rs) == {r \in Declared(c) \ rs : \E u \in Users : r \in grant[u][c].roles}

\* update, first: refused if a role in use would go, until the admin confirms.
UpdateRead(a) ==
    \E c \in Managed, rs \in SUBSET Roles :
        /\ app[c].there
        /\ Begin(a, [Resting EXCEPT !.pc = "fill", !.op = "update", !.client = c, !.roles = rs,
                                    !.confirmed = Blocking(c, rs) # {}])

\* apply, in one transaction; it fails if the row has gone.
Apply(a) ==
    LET h == adm[a]
    IN  /\ h.pc = "fill" /\ h.op # "remove"
        /\ IF h.lost THEN UNCHANGED <<app, grant, group, changes>>
           ELSE RolesBecome(h.client, h.roles) /\ Write
        /\ Done(a)
        /\ UNCHANGED <<active, visited, issued, req, history>>

\* setEnabled and remove find the app first.
AppRead(a, op) ==
    \E c \in Managed :
        /\ app[c].there
        /\ Begin(a, [Resting EXCEPT !.pc = "write", !.op = op, !.client = c])

Enable(a) ==
    LET h == adm[a]
    IN  /\ At(a, "enable", "write")
        /\ IF h.lost THEN UNCHANGED <<app, changes>>
           ELSE app' = [app EXCEPT ![h.client].enabled = TRUE] /\ Write
        /\ Done(a)
        /\ UNCHANGED <<active, grant, group, visited, issued, req, history>>

Disable(a) ==
    LET h == adm[a]
    IN  /\ At(a, "disable", "write")
        /\ IF h.lost THEN Done(a) /\ UNCHANGED <<app, changes>>
           ELSE /\ app' = [app EXCEPT ![h.client].enabled = FALSE]
                /\ adm' = [adm EXCEPT ![a].pc = "tokens"]
                /\ Write
        /\ UNCHANGED <<active, grant, group, visited, issued, req, history>>

\* Everything the provider issued to this app, in one statement.
RevokeByClient(c) ==
    [f \in Families |->
        IF family[f].client = c
        THEN [family[f] EXCEPT !.there = FALSE, !.code = FALSE, !.held = "none"]
        ELSE family[f]]

\* The last thing disabling does.
DisableTokens(a) ==
    /\ At(a, "disable", "tokens")
    /\ family' = RevokeByClient(adm[a].client)
    /\ Done(a)
    /\ UNCHANGED <<rows, session, req, history, changes>>

\* Removing revokes first, and deletes the row afterwards.
RemoveTokens(a) ==
    /\ At(a, "remove", "write")
    /\ family' = RevokeByClient(adm[a].client)
    /\ adm' = [adm EXCEPT ![a].pc = "fill"]
    /\ UNCHANGED <<rows, session, req, history, changes>>

\* Handlers that found the row of this app find no row any more.
Holding(c) == {b \in Admins : /\ adm[b].pc \in {"write", "fill"}
                              /\ adm[b].client = c /\ adm[b].op # "register"}
               \cup {b \in Admins : adm[b].op = "register" /\ adm[b].pc = "fill"
                                    /\ adm[b].client = c}

\* What was saved between the two is left, and counts as late.
RemoveDelete(a) ==
    LET h == adm[a]
    IN  /\ At(a, "remove", "fill")
        /\ \/ /\ ~h.lost
              /\ AppGone(h.client)
              /\ family' = [f \in Families |-> [family[f] EXCEPT
                                !.late = @ \/ (family[f].client = h.client /\ family[f].there)]]
              /\ Losing(Holding(h.client), a, Resting)
              /\ Write
           \/ /\ h.lost
              /\ Done(a) /\ UNCHANGED <<app, grant, group, visited, family, changes>>
        /\ UNCHANGED <<active, session, req, history>>

-----------------------------------------------------------------------------
(* Taking tokens back.  Each pair is checked, listed, and emptied. *)

\* onAccessChanged checks whether the change left them without access; a revoked
\* direct grant is not checked.
CutDecide(a) ==
    LET h == adm[a]
    IN  /\ h.pc = "cut"
        /\ \E p \in h.todo :
             adm' = [adm EXCEPT ![a] =
                       IF h.op = "revoke" \/ ~HasAccess(p[1], p[2])
                       THEN [h EXCEPT !.pc = "find", !.user = p[1], !.client = p[2],
                                      !.todo = h.todo \ {p}]
                       ELSE CuttingOff(h, h.todo \ {p})]
        /\ UNCHANGED <<rows, issued, req, history, changes>>

\* A mutant: no client means no client's.
FamiliesOfClient(u, c) ==
    {f \in Families : family[f].there /\ family[f].user = u /\ family[f].client = c}

\* familiesOf: the ids of the Grants there are now; no client means every one.
FamiliesOf(u, c) ==
    {f \in Families : family[f].there /\ family[f].user = u /\ c \in {family[f].client, None}}

CutFind(a) ==
    LET h == adm[a]
        ids == FamiliesOf(h.user, h.client)
    IN  /\ h.pc = "find"
        /\ adm' = [adm EXCEPT ![a] = IF ids = {} THEN CuttingOff(h, h.todo)
                                     ELSE [h EXCEPT !.pc = "tokens", !.ids = ids]]
        /\ UNCHANGED <<rows, issued, req, history, changes>>

\* destroy, first: everything that carries one of the ids.
CutTokens(a) ==
    /\ adm[a].pc = "tokens" /\ adm[a].ids # {}
    /\ family' = [f \in Families |-> IF f \in adm[a].ids
                                     THEN [family[f] EXCEPT !.code = FALSE, !.held = "none"]
                                     ELSE family[f]]
    /\ adm' = [adm EXCEPT ![a].pc = "grants"]
    /\ UNCHANGED <<rows, session, req, history, changes>>

\* destroy, second: the Grants themselves.
CutGrants(a) ==
    /\ adm[a].pc = "grants"
    /\ family' = [f \in Families |-> IF f \in adm[a].ids
                                     THEN [family[f] EXCEPT !.there = FALSE] ELSE family[f]]
    /\ adm' = [adm EXCEPT ![a] = CuttingOff([@ EXCEPT !.ids = {}], @.todo)]
    /\ UNCHANGED <<rows, session, req, history, changes>>

-----------------------------------------------------------------------------
(* People. *)

\* suspend: the status, then every session, then every token.
Suspend(a) ==
    \E u \in Users :
        /\ active[u] /\ adm[a].pc = "idle"
        /\ changes + Cardinality(UnderWay) < MaxChanges
        /\ active' = [active EXCEPT ![u] = FALSE]
        /\ adm' = [adm EXCEPT ![a] = [Resting EXCEPT !.pc = "sessions", !.op = "suspend",
                                                     !.user = u]]
        /\ Write
        /\ UNCHANGED <<app, grant, group, visited, issued, req, history>>

EndSessions(a) ==
    /\ adm[a].pc = "sessions"
    /\ session' = [session EXCEPT ![adm[a].user] = SignedOut]
    /\ adm' = [adm EXCEPT ![a].pc = "find"]
    /\ UNCHANGED <<rows, family, req, history, changes>>

Reactivate(u) ==
    /\ ~active[u] /\ changes < MaxChanges
    /\ active' = [active EXCEPT ![u] = TRUE]
    /\ Write
    /\ UNCHANGED <<app, grant, group, visited, issued, req, adm, history>>

SignInAgain(u) ==
    /\ active[u] /\ ~session[u].on
    /\ session' = [session EXCEPT ![u].on = TRUE]
    /\ UNCHANGED <<rows, family, req, adm, history, changes>>

\* The process stops: what was under way is forgotten.
Crash ==
    /\ UnderWay # {}
    /\ cutOff' = TRUE
    /\ req' = [r \in Requests |-> Quiet]
    /\ adm' = [a \in Admins |-> Resting]
    /\ UNCHANGED <<rows, issued, stale, changes>>

-----------------------------------------------------------------------------

Browsing ==
    \/ \E r \in Requests :
         \/ Authorize(r) \/ LoadAccess(r) \/ FindGrant(r) \/ SaveGrant(r) \/ IssueCode(r)
         \/ Prompt(r) \/ Continue(r) \/ WalkAway(r) \/ Consent(r) \/ SaveConsent(r)
    \/ \E u \in Users : SignInAgain(u)

Serving ==
    \/ \E r \in Requests : \/ RedeemRead(r) \/ RedeemSave(r) \/ RefreshJudge(r)
                           \/ RefreshConsume(r) \/ RefreshAnswer(r)
    \/ \E f \in Families : Reuse(f)

\* The console's routes, each to the handler it calls.
GrantRoutes(a) == SetRead(a) \/ SetWrite(a) \/ RevokeRead(a) \/ RevokeWrite(a)

GroupRoutes(a) ==
    \/ \E op \in {"members", "groupSet", "groupRevoke", "groupRemove"} : GroupRead(a, op)
    \/ MembersWrite(a) \/ GroupSetWrite(a) \/ GroupRevokeWrite(a) \/ GroupRemoveWrite(a)

RegisterRoute(a) == RegisterRead(a) \/ RegisterCreate(a)

AppRoutes(a) ==
    \/ UpdateRead(a) \/ Apply(a)
    \/ \E op \in {"enable", "disable", "remove"} : AppRead(a, op)
    \/ Enable(a) \/ Disable(a) \/ DisableTokens(a) \/ RemoveTokens(a) \/ RemoveDelete(a)

\* After a write: the apps are told (left out), and the tokens taken back.
CuttingOffStep(a) == CutDecide(a) \/ CutFind(a) \/ CutTokens(a) \/ CutGrants(a)

Administering ==
    \E a \in Admins : \/ GrantRoutes(a) \/ GroupRoutes(a) \/ RegisterRoute(a) \/ AppRoutes(a)
                      \/ CuttingOffStep(a) \/ Suspend(a) \/ EndSessions(a)

Next ==
    \/ Browsing \/ Serving \/ Administering
    \/ \E g \in Groups : GroupCreate(g)
    \/ \E u \in Users : Reactivate(u)
    \/ Crash

Spec == Init /\ [][Next]_vars

-----------------------------------------------------------------------------
(* Properties. *)

\* The rows hold what the schema says they hold.
TypeOK ==
    /\ active \in [Users -> BOOLEAN]
    /\ app \in [Clients -> App]
    /\ grant \in [Users -> [Clients -> Grant]]
    /\ \A g \in Groups : group[g].members \subseteq Users
                         /\ group[g].grants \in [Clients -> Grant]
    /\ visited \subseteq Users \X Clients
    /\ \A u \in Users : session[u].grants \in [Clients -> Families \cup {None}]
    /\ \A f \in Families : family[f].audiences \subseteq Clients
    /\ \A r \in Requests : req[r].fam \in Families \cup {None} /\ req[r].audiences \subseteq Clients
    /\ \A a \in Admins : adm[a].todo \subseteq Users \X Clients /\ adm[a].ids \subseteq Families

Entitled(u, c) == active[u] /\ HasAccess(u, c)

\* Taking access away reaches the tokens (revoke-tokens.ts): with no handler
\* under way, no provider Grant stands between a person and an app they may not
\* use, whichever of the ways to have it they lost and in whatever order.  What
\* it does not reach is what the histories name: a Grant saved by an
\* authorization that had passed its check, a group's change that wrote over a
\* member or an app it had not read, and a stop between the write and the tokens.
RevocationReaches ==
    UnderWay = {} /\ ~stale /\ ~cutOff =>
        \A f \in Families : family[f].there /\ ~family[f].late =>
            Entitled(family[f].user, family[f].client)

\* No grant, a person's or a group's, gives a role its app does not declare,
\* although the roles are read long before they are written (grants.ts, groups.ts)
\* and a manifest may have dropped them meanwhile (apps.ts).
RolesDeclared ==
    \A c \in Clients :
        /\ \A u \in Users : grant[u][c].roles \subseteq app[c].roles
        /\ \A g \in Groups : group[g].grants[c].roles \subseteq app[c].roles

Burnt(r) == /\ req[r].pc = "answer" /\ req'[r].pc = "idle"
            /\ family'[req[r].fam].held = "burnt"

\* A refresh for an audience that is refused costs the app nothing (clients.ts,
\* resources.ts): its token is consumed without a successor only if access
\* changed, or the process stopped, while the request was in the provider.
RefusedRefreshCostsNothing ==
    [][\A r \in Requests : Burnt(r) => changes # req[r].at \/ cutOff']_vars

-----------------------------------------------------------------------------
(* What comments promise and the code does not keep: TLC finds each of     *)
(* these violated (README, Known disagreements), and no run asks for them. *)

\* "People would silently lose access they were given deliberately.  So a removal
\* that is in use is reported rather than applied, and the caller has to say it
\* meant it" (manifest.ts:143): an update nobody had to confirm takes no role from
\* anybody, unless it was given meanwhile.
Gives(gr, r) == gr.on /\ r \in gr.roles
Holds(u, c, r) ==
    \/ Gives(grant[u][c], r)
    \/ \E g \in Groups : u \in Members(g) /\ Gives(group[g].grants[c], r)

RoleRemovalConfirmed ==
    [][\A a \in Admins : adm[a].op = "update" /\ ~adm[a].confirmed /\ adm'[a] = Resting /\ ~cutOff'
         => \A u \in Users, r \in Roles : Holds(u, adm[a].client, r)
              => r \in app'[adm[a].client].roles \/ UnderWay # {a}]_vars

=============================================================================
