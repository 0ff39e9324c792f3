------------------------------ MODULE Sessions ------------------------------
(***************************************************************************)
(* One person's sign-ins, where each is recorded, and how one ends.  The   *)
(* provider keeps the session, our table mirrors it (interaction/sessions),*)
(* an app keeps a session of its own that names the provider's by its sid. *)
(* Ending one (security/sessions.ts, account/routes.ts, the switch of      *)
(* interaction/routes.ts, the provider's own sign-out) tells the apps      *)
(* first, with a signed logout token (oidc/backchannel.ts), then destroys  *)
(* the session, then marks the row.                                        *)
(*                                                                         *)
(* A request of a browser is cut between the read of the session, its save *)
(* and the middleware's two steps; a handler at every await.  The network  *)
(* delays, repeats and loses tokens and loses answers; apps verify and     *)
(* answer as packages/auth-client does, the example app's sessions behind. *)
(* Left out: who may ask (Guard), other people, and time.                  *)
(***************************************************************************)
EXTENDS Naturals, FiniteSets

CONSTANTS
    Sids,       \* uids of provider sessions; one is never used twice
    Apps,
    Slow,       \* apps with no back-channel URI
    Requests,   \* of browsers
    Handlers,   \* that end sessions: each runs once (the bound on them)
    Person,     \* names nobody's session: a token with a subject only
    None,
    ATTEMPTS

ASSUME SessionsAssumption ==
    /\ Slow \subseteq Apps
    /\ Person \notin Sids /\ None \notin Sids \cup Apps \cup {Person}
    /\ ATTEMPTS \in Nat \ {0}

VARIABLES
    session,  \* the provider's store
    mirror,   \* our row of each
    code,     \* sign-ins an app has yet to finish: <<sid, app>>
    atApp,    \* sessions of apps: <<sid, app>>
    wire,     \* logout tokens that left, and may arrive any number of times or never
    seen,     \* tokens an app has applied
    notice,   \* handler -> subject -> app -> how telling it goes
    req, ctl,
    late,     \* history: sessions saved by a request that had read them before they ended
    ended,    \* history: sessions somebody decided to end
    changed,  \* history: apps this person was taken out of
    after     \* history: sessions of apps begun after a token about them was applied

stores == <<session, mirror, code, atApp>>
network == <<wire, seen>>
histories == <<late, ended, changed, after>>
vars == <<stores, network, notice, req, ctl, histories>>

Subjects == Sids \cup {Person}

-----------------------------------------------------------------------------

Untold == [st |-> "none", tries |-> 0]
Notice == [st : {"none", "due", "posted", "told", "failed", "slow", "lost"}, tries : 0..ATTEMPTS]

Request == [pc : {"idle", "save", "find", "create"}, sid : Sids \cup {None},
            app : Apps \cup {None}, apps : SUBSET Apps]
Idle == [pc |-> "idle", sid |-> None, app |-> None, apps |-> {}]

Handler == [pc : {"ready", "next", "tell", "destroy", "tokens", "done"},
            op : {"none", "others", "reset", "one", "switch", "signout", "grant"},
            rows : SUBSET Sids, todo : SUBSET Sids, cur : Subjects \cup {None},
            app : Apps \cup {None}]
Ready == [pc |-> "ready", op |-> "none", rows |-> {}, todo |-> {}, cur |-> None, app |-> None]

\* A handler with these rows to end, one after another.
EndingRows(op, rows) ==
    [pc |-> "next", op |-> op, rows |-> rows, todo |-> rows, cur |-> None, app |-> None]

There(s) == session[s].state = "there"
LiveRows == {s \in Sids : mirror[s] = "live"}

Init ==
    /\ session = [s \in Sids |-> [state |-> "unborn", apps |-> {}]]
    /\ mirror = [s \in Sids |-> "none"]
    /\ code = {} /\ atApp = {} /\ wire = {} /\ seen = {}
    /\ notice = [h \in Handlers |-> [s \in Subjects |-> [c \in Apps |-> Untold]]]
    /\ req = [r \in Requests |-> Idle]
    /\ ctl = [h \in Handlers |-> Ready]
    /\ late = {} /\ ended = {} /\ changed = {} /\ after = {}

-----------------------------------------------------------------------------
(* Browsers. *)

\* A sign-in, on its way to an app, for which the provider begins a session.
SignIn(r) ==
    /\ req[r].pc = "idle"
    /\ \E s \in Sids, c \in Apps :
         /\ session[s].state = "unborn"
         /\ \A q \in Requests : req[q].sid # s
         /\ req' = [req EXCEPT ![r] = [pc |-> "save", sid |-> s, app |-> c, apps |-> {}]]
    /\ UNCHANGED <<stores, network, notice, ctl, histories>>

\* An authorization with a session: what it holds is read now.
Authorize(r) ==
    /\ req[r].pc = "idle"
    /\ \E s \in Sids, c \in Apps :
         /\ There(s)
         /\ req' = [req EXCEPT ![r] = [pc |-> "save", sid |-> s, app |-> c, apps |-> session[s].apps]]
    /\ UNCHANGED <<stores, network, notice, ctl, histories>>

\* The provider keeps the code, and saves the session with the app added, by an
\* upsert: what was added or destroyed since it was read is written over.
Save(r) ==
    LET s == req[r].sid
    IN  /\ req[r].pc = "save"
        /\ session' = [session EXCEPT ![s] = [state |-> "there", apps |-> req[r].apps \cup {req[r].app}]]
        /\ code' = code \cup {<<s, req[r].app>>}
        /\ late' = IF session[s].state = "gone" THEN late \cup {s} ELSE late
        /\ req' = [req EXCEPT ![r].pc = "find"]
        /\ UNCHANGED <<mirror, atApp, network, notice, ctl, ended, changed, after>>

\* recordSessions, before the response leaves: a row there is only touched,
\* revoked or not.
RowFind(r) ==
    /\ req[r].pc = "find"
    /\ req' = [req EXCEPT ![r] = IF mirror[@.sid] = "none" THEN [@ EXCEPT !.pc = "create"] ELSE Idle]
    /\ UNCHANGED <<stores, network, notice, ctl, histories>>

\* A uid has one row: the second create fails, and is only logged.
RowCreate(r) ==
    /\ req[r].pc = "create"
    /\ mirror' = [mirror EXCEPT ![req[r].sid] = IF @ = "none" THEN "live" ELSE @]
    /\ req' = [req EXCEPT ![r] = Idle]
    /\ UNCHANGED <<session, code, atApp, network, notice, ctl, histories>>

-----------------------------------------------------------------------------
(* Apps. *)

\* Tokens about this session, and about the person, that this app has applied.
Heard(s, c) == {t \in seen : t.app = c /\ t.sid \in {s, Person}}

\* completeSignIn, and a session of the app's own.
Redeem(s, c) ==
    /\ <<s, c>> \in code
    /\ code' = code \ {<<s, c>>}
    /\ atApp' = atApp \cup {<<s, c>>}
    /\ after' = IF Heard(s, c) # {} THEN after \cup {<<s, c>>} ELSE after
    /\ UNCHANGED <<session, mirror, network, notice, req, ctl, late, ended, changed>>

\* Signing out at the app alone.
Leave(s, c) ==
    /\ <<s, c>> \in atApp
    /\ atApp' = atApp \ {<<s, c>>}
    /\ UNCHANGED <<session, mirror, code, network, notice, req, ctl, histories>>

\* endSession: the sid's sessions, or every one of the person's when none is named.
Ended(t) == {p \in atApp : p[2] = t.app /\ t.sid \in {p[1], Person}}

\* createBackchannelHandler: verified, and applied once per jti.
Arrive(t) ==
    /\ t \in wire \ seen
    /\ seen' = seen \cup {t}
    /\ atApp' = atApp \ Ended(t)
    /\ UNCHANGED <<session, mirror, code, wire, notice, req, ctl, histories>>

-----------------------------------------------------------------------------
(* Telling. *)

Becomes(h, s, c, st) == notice' = [notice EXCEPT ![h][s][c].st = st]

\* A mutant: the sid is left out.
Anonymous(s) == Person

\* Every client that has a back-channel URI requires a session identifier.
Named(s) == s

\* jti: a new one for every attempt.
Token(h, s, c) == [app |-> c, sid |-> Named(s), about |-> s, by |-> h, jti |-> notice[h][s][c].tries + 1]

\* An attempt leaves.
Post(h, s, c) ==
    /\ notice[h][s][c].st = "due"
    /\ wire' = wire \cup {Token(h, s, c)}
    /\ notice' = [notice EXCEPT ![h][s][c] = [st |-> "posted", tries |-> @.tries + 1]]
    /\ UNCHANGED <<stores, seen, req, ctl, histories>>

Posted(h, s, c) == [app |-> c, sid |-> Named(s), about |-> s, by |-> h, jti |-> notice[h][s][c].tries]

\* A mutant: any answer will do.
AnsweredAnyhow(h, s, c) ==
    /\ notice[h][s][c].st = "posted"
    /\ Becomes(h, s, c, "told")
    /\ UNCHANGED <<stores, network, req, ctl, histories>>

\* 200 or 204: the app has applied it, now or before.
Answered(h, s, c) ==
    /\ notice[h][s][c].st = "posted"
    /\ Posted(h, s, c) \in seen
    /\ Becomes(h, s, c, "told")
    /\ UNCHANGED <<stores, network, req, ctl, histories>>

\* Another try, as long as there is one left.  The provider's own sign-out has one.
Last(h) == IF ctl[h].op = "signout" THEN 1 ELSE ATTEMPTS

\* A mutant: the last failure is retried too.
UnansweredOnceMore(h, s, c) ==
    /\ notice[h][s][c].st = "posted"
    /\ Becomes(h, s, c, IF notice[h][s][c].tries <= Last(h) THEN "due" ELSE "failed")
    /\ UNCHANGED <<stores, network, req, ctl, histories>>

\* A mutant: a failure is not counted.
UnansweredAgain(h, s, c) ==
    /\ notice[h][s][c].st = "posted"
    /\ notice' = [notice EXCEPT ![h][s][c] = [st |-> "due", tries |-> 0]]
    /\ UNCHANGED <<stores, network, req, ctl, histories>>

\* Timed out, refused, or answered with anything else; the app may have applied it.
Unanswered(h, s, c) ==
    /\ notice[h][s][c].st = "posted"
    /\ Becomes(h, s, c, IF notice[h][s][c].tries < Last(h) THEN "due" ELSE "failed")
    /\ UNCHANGED <<stores, network, req, ctl, histories>>

\* An address of our own network is never posted to.
Refused(h, s, c) ==
    /\ notice[h][s][c] = [st |-> "due", tries |-> 0]
    /\ Becomes(h, s, c, "failed")
    /\ UNCHANGED <<stores, network, req, ctl, histories>>

\* notify: an app without a URI is recorded as slow to revoke, and that is all.
\* The provider's own sign-out passes over it.
Begun(h, s, targets, op) ==
    [notice[h] EXCEPT ![s] = [c \in Apps |->
        IF c \notin targets THEN @[c]
        ELSE IF c \notin Slow THEN [st |-> "due", tries |-> 0]
        ELSE IF op = "signout" THEN @[c] ELSE [st |-> "slow", tries |-> 0]]]

Settled(h, s) == \A c \in Apps : notice[h][s][c].st \notin {"due", "posted"}

-----------------------------------------------------------------------------
(* Handlers. *)

To(h, pc) == ctl' = [ctl EXCEPT ![h].pc = pc]

\* revokeAll reads the rows there are: all of them, or all but the one it keeps.
RevokeAll(h) ==
    /\ ctl[h].pc = "ready"
    /\ \E kept \in SUBSET Sids :
         LET rows == LiveRows \ kept
         IN  /\ Cardinality(kept) <= 1 /\ \A s \in kept : There(s)
             /\ ctl' = [ctl EXCEPT ![h] = EndingRows(IF kept = {} THEN "reset" ELSE "others", rows)]
             /\ ended' = ended \cup rows
    /\ UNCHANGED <<stores, network, notice, req, late, changed, after>>

\* One row, the session this page belongs to, or the provider's sign-out.
EndOne(h, op) ==
    /\ ctl[h].pc = "ready"
    /\ \E s \in Sids :
         /\ IF op = "one" THEN mirror[s] = "live" ELSE There(s)
         /\ ctl' = [ctl EXCEPT ![h] = EndingRows(op, {s})]
         /\ ended' = ended \cup {s}
    /\ UNCHANGED <<stores, network, notice, req, late, changed, after>>

\* A grant was revoked: one app is told about the person, not about a session.
TakeOut(h) ==
    /\ ctl[h].pc = "ready"
    /\ \E c \in Apps :
         /\ ctl' = [ctl EXCEPT ![h] = [pc |-> "tell", op |-> "grant", rows |-> {}, todo |-> {},
                                       cur |-> Person, app |-> c]]
         /\ notice' = [notice EXCEPT ![h] = Begun(h, Person, {c}, "grant")]
         /\ changed' = changed \cup {c}
    /\ UNCHANGED <<stores, network, req, late, ended, after>>

\* end, first: the apps of the session there is now are told, together.
Tell(h) ==
    /\ ctl[h].pc = "next"
    /\ \E s \in ctl[h].todo :
         /\ ctl' = [ctl EXCEPT ![h].pc = "tell", ![h].cur = s, ![h].todo = @ \ {s}]
         /\ notice' = IF There(s) THEN [notice EXCEPT ![h] = Begun(h, s, session[s].apps, ctl[h].op)]
                      ELSE notice
    /\ UNCHANGED <<stores, network, req, histories>>

\* Every one of them told or given up on.
Told(h) ==
    /\ ctl[h].pc = "tell" /\ Settled(h, ctl[h].cur)
    /\ To(h, IF ctl[h].op = "grant" THEN "tokens" ELSE "destroy")
    /\ UNCHANGED <<stores, network, notice, req, histories>>

\* A mutant: an app that was not told keeps the session.
DestroyOnceTold(h) ==
    LET s == ctl[h].cur
    IN  /\ ctl[h].pc = "destroy"
        /\ session' = IF There(s) /\ \A c \in Apps : notice[h][s][c].st # "failed"
                      THEN [session EXCEPT ![s] = [state |-> "gone", apps |-> {}]] ELSE session
        /\ To(h, "next")
        /\ UNCHANGED <<mirror, code, atApp, network, notice, req, histories>>

\* end, second: the session is found again, and destroyed.
Destroy(h) ==
    LET s == ctl[h].cur
    IN  /\ ctl[h].pc = "destroy"
        /\ session' = IF There(s) THEN [session EXCEPT ![s] = [state |-> "gone", apps |-> {}]]
                      ELSE session
        /\ To(h, "next")
        /\ UNCHANGED <<mirror, code, atApp, network, notice, req, histories>>

\* Then the rows it had read; the provider's sign-out marks its row only if the
\* session did not survive.
Mark(h) ==
    LET rows == IF ctl[h].op = "signout" THEN {s \in ctl[h].rows : ~There(s)} ELSE ctl[h].rows
    IN  /\ ctl[h].pc = "next" /\ ctl[h].todo = {}
        /\ mirror' = [s \in Sids |-> IF s \in rows /\ mirror[s] = "live" THEN "revoked" ELSE mirror[s]]
        /\ To(h, IF ctl[h].op = "reset" THEN "tokens" ELSE "done")
        /\ UNCHANGED <<session, code, atApp, network, notice, req, histories>>

\* With nothing kept every token goes; with a grant, those of its app.
Tokens(h) ==
    /\ ctl[h].pc = "tokens"
    /\ code' = IF ctl[h].op = "grant" THEN {p \in code : p[2] # ctl[h].app} ELSE {}
    /\ To(h, "done")
    /\ UNCHANGED <<session, mirror, atApp, network, notice, req, histories>>

\* The process stops: nobody takes up what it was at.
Crash ==
    /\ \E h \in Handlers : ctl[h].pc \notin {"ready", "done"}
    /\ ctl' = [h \in Handlers |-> IF ctl[h].pc = "ready" THEN ctl[h] ELSE [ctl[h] EXCEPT !.pc = "done"]]
    /\ notice' = [h \in Handlers |-> [s \in Subjects |-> [c \in Apps |->
                    IF notice[h][s][c].st \in {"due", "posted"}
                    THEN [notice[h][s][c] EXCEPT !.st = "lost"] ELSE notice[h][s][c]]]]
    /\ req' = [r \in Requests |-> Idle]
    /\ UNCHANGED <<stores, network, histories>>

-----------------------------------------------------------------------------

Browsing ==
    \/ \E r \in Requests : SignIn(r) \/ Authorize(r) \/ Save(r) \/ RowFind(r) \/ RowCreate(r)
    \/ \E s \in Sids, c \in Apps : Redeem(s, c) \/ Leave(s, c)
    \/ \E t \in wire : Arrive(t)

Delivering(h, s, c) == Post(h, s, c) \/ Answered(h, s, c) \/ Unanswered(h, s, c) \/ Refused(h, s, c)

Ending(h) ==
    \/ RevokeAll(h) \/ TakeOut(h)
    \/ \E op \in {"one", "switch", "signout"} : EndOne(h, op)

Handling(h) == Tell(h) \/ Told(h) \/ Destroy(h) \/ Mark(h) \/ Tokens(h)

Next ==
    \/ Browsing \/ Crash
    \/ \E h \in Handlers : Ending(h) \/ Handling(h)
    \/ \E h \in Handlers, s \in Subjects, c \in Apps : Delivering(h, s, c)

\* What a handler of ours has begun the process goes on with: its next await
\* returns, a timer fires, and a post is answered or times out after TIMEOUT_MS.
Fairness ==
    /\ \A h \in Handlers : WF_vars(Handling(h))
    /\ \A h \in Handlers, s \in Subjects, c \in Apps : WF_vars(Delivering(h, s, c))

Spec == Init /\ [][Next]_vars /\ Fairness

-----------------------------------------------------------------------------
(* Properties. *)

\* Rows and requests are what the tables and the code say; no app is posted to
\* more often than ATTEMPTS.
TypeOK ==
    /\ \A s \in Sids : session[s].state \in {"unborn", "there", "gone"} /\ session[s].apps \subseteq Apps
    /\ mirror \in [Sids -> {"none", "live", "revoked"}]
    /\ code \subseteq Sids \X Apps /\ atApp \subseteq Sids \X Apps
    /\ req \in [Requests -> Request]
    /\ ctl \in [Handlers -> Handler]
    /\ \A h \in Handlers, s \in Subjects, c \in Apps : notice[h][s][c] \in Notice

\* "A row marked revoked while the SSO cookie still works would be a lie"
\* (security/sessions.ts): the session of a revoked row is gone, unless a request
\* that had read the session before has saved it again.
RevokedMeansGone == \A s \in Sids : mirror[s] = "revoked" /\ There(s) => s \in late

\* An app recorded as told (backchannel.ts) has ended its session, unless it
\* began another afterwards: lost answers, repeats and reordering included.
ToldMeansEnded ==
    \A h \in Handlers, s \in Subjects, c \in Apps :
        notice[h][s][c].st = "told" =>
            \A p \in atApp : p[2] = c /\ s \in {p[1], Person} => p \in after

\* A logout token ends a session of an app only if somebody ended the sign-in
\* behind it, or took the person out of that app: revoking other sign-ins, and a
\* person's own sign-out of one, leave the rest alone (account/routes.ts).
EndsOnlyWhatWasEnded ==
    [][seen' # seen => \A p \in atApp \ atApp' : p[1] \in ended \/ p[2] \in changed]_vars

\* The errands of Telling, and where each stands here.
InState(S) == {e \in Handlers \X Subjects \X Apps : notice[e[1]][e[2]][e[3]].st \in S}

Promise == INSTANCE Telling WITH
    Errands <- Handlers \X Subjects \X Apps,
    owed <- InState({"due", "posted"}),
    told <- InState({"told"}),
    failed <- InState({"failed", "slow"})

\* backchannel.ts keeps its promise: whatever the network does, and as long as
\* the process runs, each app owed the news is told or recorded as not told.
EveryErrandEnds == Promise!Spec

=============================================================================
