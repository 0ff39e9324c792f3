-------------------------- MODULE Sessions_proofs --------------------------
(***************************************************************************)
(* What holds of ended sign-ins, for any sign-ins, apps, requests and      *)
(* handlers: a revoked row's session is gone, an app recorded as told has  *)
(* ended its session, nothing else is ended, and every step is one that    *)
(* Telling allows.                                                         *)
(*                                                                         *)
(* A handler is under way over many awaits, and each of its steps rests on *)
(* an earlier one: what it marks it has destroyed, what it posts somebody  *)
(* ended, what it begins to tell it has not begun before.  The invariants  *)
(* say so of every handler, notice and token at once.                      *)
(***************************************************************************)
EXTENDS Sessions, TLAPS

Session == [state : {"unborn", "there", "gone"}, apps : SUBSET Apps]

Types ==
    /\ session \in [Sids -> Session]
    /\ mirror \in [Sids -> {"none", "live", "revoked"}]
    /\ code \subseteq Sids \X Apps /\ atApp \subseteq Sids \X Apps
    /\ req \in [Requests -> Request]
    /\ \A r \in Requests : req[r].pc # "idle" => req[r].sid \in Sids /\ req[r].app \in Apps
    /\ ctl \in [Handlers -> Handler]
    /\ \A h \in Handlers :
         /\ ctl[h].pc \in {"tell", "destroy"} => ctl[h].cur \in Subjects
         /\ ctl[h].pc = "destroy" \/ (ctl[h].pc = "tell" /\ ctl[h].op # "grant") => ctl[h].cur \in Sids
    /\ notice \in [Handlers -> [Subjects -> [Apps -> Notice]]]
    /\ \A h \in Handlers, s \in Subjects, c \in Apps :
         notice[h][s][c].st = "due" => notice[h][s][c].tries < ATTEMPTS

-----------------------------------------------------------------------------
(* The invariants. *)

\* A session that somebody has read or recorded was begun; what a handler has dealt
\* with is gone, or was saved again by who had read it before.
Over(s) == session[s].state # "unborn" /\ (There(s) => s \in late)

Gone ==
    /\ \A s \in Sids : /\ mirror[s] # "none" => session[s].state # "unborn"
                       /\ mirror[s] = "revoked" => Over(s)
    /\ \A r \in Requests : req[r].pc \in {"find", "create"} => session[req[r].sid].state # "unborn"
    /\ \A h \in Handlers : \A s \in ctl[h].rows :
         /\ session[s].state # "unborn"
         /\ ctl[h].pc = "next" => Over(s) \/ s \in ctl[h].todo
         /\ ctl[h].pc \in {"tell", "destroy"} => Over(s) \/ s \in ctl[h].todo \cup {ctl[h].cur}

\* A session of an app that began before the token about it was applied is gone; who
\* is recorded as told has applied one.
About(t, p) == t.app = p[2] /\ t.sid \in {p[1], Person}

Heeded ==
    /\ seen \subseteq wire
    /\ \A t \in seen, p \in atApp : About(t, p) => p \in after
    /\ \A h \in Handlers, s \in Subjects, c \in Apps : notice[h][s][c].st = "told" =>
         \E t \in seen : t.app = c /\ t.sid = s

\* Nobody is told of what nobody ended.
Reason(s, c) == s \in ended \/ (s = Person /\ c \in changed)

Reasons ==
    /\ \A h \in Handlers : ctl[h].todo \subseteq ended
    /\ \A h \in Handlers, s \in Subjects, c \in Apps :
         notice[h][s][c].st \in {"due", "posted"} => Reason(s, c)
    /\ ended \subseteq Sids
    /\ \A t \in wire : Reason(t.sid, t.app)

\* A handler has not begun to tell anybody of what it has yet to come to.
Once ==
    \A h \in Handlers, s \in Subjects, c \in Apps :
      ctl[h].pc = "ready" \/ s \in ctl[h].todo => notice[h][s][c].st = "none"

-----------------------------------------------------------------------------
LEMMA BrowsingTypes ==
    ASSUME Types, Browsing PROVE Types'
<1>1. UNCHANGED <<ctl, notice>>
  BY DEF Browsing, SignIn, Authorize, Save, RowFind, RowCreate, Redeem, Leave, Arrive, stores,
         network, histories
<1>2. ASSUME NEW r \in Requests,
             SignIn(r) \/ Authorize(r) \/ Save(r) \/ RowFind(r) \/ RowCreate(r)
      PROVE  Types'
  <2>1. CASE SignIn(r)
    BY <1>1, <2>1 DEF Types, SignIn, Request, stores
  <2>2. CASE Authorize(r)
    BY <1>1, <2>2 DEF Types, Authorize, Request, Session, stores
  <2>3. CASE Save(r)
    BY <1>1, <2>3 DEF Types, Save, Request, Session
  <2>4. CASE RowFind(r)
    BY <1>1, <2>4 DEF Types, RowFind, Request, Idle, stores
  <2>5. CASE RowCreate(r)
    BY <1>1, <2>5 DEF Types, RowCreate, Request, Idle
  <2> QED BY <1>2, <2>1, <2>2, <2>3, <2>4, <2>5
<1>3. CASE \/ \E s \in Sids, c \in Apps : Redeem(s, c) \/ Leave(s, c)
           \/ \E t \in wire : Arrive(t)
  BY <1>1, <1>3 DEF Types, Redeem, Leave, Arrive
<1> QED BY <1>2, <1>3 DEF Browsing

NoticeBecomes(h, s, c, st, tries) ==
    notice' = [notice EXCEPT ![h][s][c] = [st |-> st, tries |-> tries]]

\* What a delivery makes of a notice.
LEMMA Deliveries ==
    ASSUME Types, NEW h \in Handlers, NEW s \in Subjects, NEW c \in Apps, Delivering(h, s, c)
    PROVE  \/ /\ notice[h][s][c].st = "due" /\ notice[h][s][c].tries < ATTEMPTS
              /\ NoticeBecomes(h, s, c, "posted", notice[h][s][c].tries + 1)
           \/ /\ notice[h][s][c].st = "posted" /\ Answered(h, s, c)
              /\ NoticeBecomes(h, s, c, "told", notice[h][s][c].tries)
           \/ /\ notice[h][s][c].st = "posted" /\ notice[h][s][c].tries < ATTEMPTS
              /\ NoticeBecomes(h, s, c, "due", notice[h][s][c].tries)
           \/ /\ notice[h][s][c].st \in {"due", "posted"}
              /\ NoticeBecomes(h, s, c, "failed", notice[h][s][c].tries)
<1>1. notice[h][s][c] = [st |-> notice[h][s][c].st, tries |-> notice[h][s][c].tries]
  BY DEF Types, Notice
<1>2. ASSUME NEW st, Becomes(h, s, c, st) PROVE NoticeBecomes(h, s, c, st, notice[h][s][c].tries)
  <2>1. [notice[h][s][c] EXCEPT !.st = st] = [st |-> st, tries |-> notice[h][s][c].tries]
    BY <1>1
  <2>2. notice' = [notice EXCEPT ![h][s][c] = [notice[h][s][c] EXCEPT !.st = st]]
    BY <1>2 DEF Becomes
  <2> QED BY <2>1, <2>2 DEF NoticeBecomes
<1>3. CASE Post(h, s, c)
  BY <1>3 DEF Post, NoticeBecomes, Types
<1>4. CASE Answered(h, s, c)
  BY <1>2, <1>4 DEF Answered
<1>5. CASE Unanswered(h, s, c)
  <2>1. Last(h) <= ATTEMPTS
    BY SessionsAssumption DEF Last
  <2>2. notice[h][s][c].tries \in Nat /\ Last(h) \in Nat
    BY SessionsAssumption DEF Types, Notice, Last
  <2> QED BY <1>2, <1>5, <2>1, <2>2, SessionsAssumption DEF Unanswered
<1>6. CASE Refused(h, s, c)
  BY <1>2, <1>6 DEF Refused
<1> QED BY <1>3, <1>4, <1>5, <1>6 DEF Delivering

LEMMA DeliveringTypes ==
    ASSUME Types, NEW h \in Handlers, NEW s \in Subjects, NEW c \in Apps, Delivering(h, s, c)
    PROVE  Types'
<1>1. UNCHANGED <<session, mirror, code, atApp, req, ctl>>
  BY DEF Delivering, Post, Answered, Unanswered, Refused, stores
<1>2. notice[h][s][c].tries \in 0..ATTEMPTS /\ ATTEMPTS \in Nat
  BY SessionsAssumption DEF Types, Notice
<1>3. \E st, tries : /\ NoticeBecomes(h, s, c, st, tries)
                     /\ [st |-> st, tries |-> tries] \in Notice
                     /\ st = "due" => tries < ATTEMPTS
  BY <1>2, Deliveries DEF Notice
<1>4. PICK st, tries : /\ NoticeBecomes(h, s, c, st, tries)
                       /\ [st |-> st, tries |-> tries] \in Notice
                       /\ st = "due" => tries < ATTEMPTS
  BY <1>3
<1>5. notice' \in [Handlers -> [Subjects -> [Apps -> Notice]]]
  BY <1>4 DEF NoticeBecomes, Types
<1>6. \A h2 \in Handlers, s2 \in Subjects, c2 \in Apps :
         \/ notice'[h2][s2][c2] = notice[h2][s2][c2]
         \/ notice'[h2][s2][c2] = [st |-> st, tries |-> tries]
  BY <1>4 DEF NoticeBecomes, Types
<1>7. ASSUME NEW h2 \in Handlers, NEW s2 \in Subjects, NEW c2 \in Apps,
             notice'[h2][s2][c2].st = "due"
      PROVE  notice'[h2][s2][c2].tries < ATTEMPTS
  <2>1. CASE notice'[h2][s2][c2] = notice[h2][s2][c2]
    BY <1>7, <2>1 DEF Types
  <2>2. CASE notice'[h2][s2][c2] = [st |-> st, tries |-> tries]
    <3>1. st = "due"
      BY <1>7, <2>2
    <3> QED BY <1>4, <2>2, <3>1
  <2> QED BY <1>6, <2>1, <2>2
<1> QED BY <1>1, <1>5, <1>7 DEF Types

\* What the notices become when a handler begins to tell.
Begins(h, s, targets, op) == notice' = [notice EXCEPT ![h] = Begun(h, s, targets, op)]

\* Whoever is begun to be told is, of this session, of these apps.
LEMMA BegunNotices ==
    ASSUME Types, NEW h \in Handlers, NEW s \in Subjects, NEW targets, NEW op,
           Begins(h, s, targets, op)
    PROVE  \A h2 \in Handlers, s2 \in Subjects, c \in Apps :
             \/ notice'[h2][s2][c] = notice[h2][s2][c]
             \/ /\ h2 = h /\ s2 = s /\ c \in targets
                /\ \/ notice'[h2][s2][c] = [st |-> "due", tries |-> 0]
                   \/ notice'[h2][s2][c] = [st |-> "slow", tries |-> 0]
<1>1. \A s2 \in Subjects, c \in Apps :
        \/ Begun(h, s, targets, op)[s2][c] = notice[h][s2][c]
        \/ /\ s2 = s /\ c \in targets
           /\ \/ Begun(h, s, targets, op)[s2][c] = [st |-> "due", tries |-> 0]
              \/ Begun(h, s, targets, op)[s2][c] = [st |-> "slow", tries |-> 0]
  BY DEF Begun, Types
<1> QED BY <1>1 DEF Types, Begins

LEMMA BegunTypes ==
    ASSUME Types, NEW h \in Handlers, NEW s \in Subjects, NEW targets, NEW op,
           Begins(h, s, targets, op)
    PROVE  /\ notice' \in [Handlers -> [Subjects -> [Apps -> Notice]]]
           /\ \A h2 \in Handlers, s2 \in Subjects, c \in Apps :
                notice'[h2][s2][c].st = "due" => notice'[h2][s2][c].tries < ATTEMPTS
<1>1. [st |-> "due", tries |-> 0] \in Notice /\ [st |-> "slow", tries |-> 0] \in Notice
  BY SessionsAssumption DEF Notice
<1>2. Begun(h, s, targets, op) \in [Subjects -> [Apps -> Notice]]
  BY <1>1 DEF Begun, Types
<1>4. notice' \in [Handlers -> [Subjects -> [Apps -> Notice]]]
  BY <1>2 DEF Types, Begins
<1>5. \A h2 \in Handlers, s2 \in Subjects, c \in Apps :
        \/ notice'[h2][s2][c] = notice[h2][s2][c]
        \/ notice'[h2][s2][c] = [st |-> "due", tries |-> 0]
        \/ notice'[h2][s2][c] = [st |-> "slow", tries |-> 0]
  BY BegunNotices
<1>6. ASSUME NEW h2 \in Handlers, NEW s2 \in Subjects, NEW c \in Apps,
             notice'[h2][s2][c].st = "due"
      PROVE  notice'[h2][s2][c].tries < ATTEMPTS
  <2>1. CASE notice'[h2][s2][c] = notice[h2][s2][c]
    BY <1>6, <2>1 DEF Types
  <2>2. CASE notice'[h2][s2][c] = [st |-> "due", tries |-> 0]
    BY <2>2, SessionsAssumption
  <2>3. CASE notice'[h2][s2][c] = [st |-> "slow", tries |-> 0]
    BY <1>6, <2>3
  <2> QED BY <1>5, <2>1, <2>2, <2>3
<1> QED BY <1>4, <1>5, <1>6

LEMMA EndingTypes ==
    ASSUME Types, NEW h \in Handlers, Ending(h) PROVE Types'
<1>1. UNCHANGED <<session, mirror, code, atApp, req>>
  BY DEF Ending, RevokeAll, TakeOut, EndOne, stores
<1>2. CASE RevokeAll(h)
  <2>1. PICK rows \in SUBSET Sids, op \in {"reset", "others"} : ctl' = [ctl EXCEPT ![h] = EndingRows(op, rows)]
    BY <1>2 DEF RevokeAll, LiveRows
  <2>2. notice' = notice
    BY <1>2 DEF RevokeAll
  <2> QED BY <1>1, <2>1, <2>2 DEF Types, EndingRows, Handler
<1>3. ASSUME NEW op \in {"one", "switch", "signout"}, EndOne(h, op) PROVE Types'
  BY <1>1, <1>3 DEF EndOne, EndingRows, Types, Handler
<1>4. CASE TakeOut(h)
  <2>1. PICK c \in Apps :
          /\ ctl' = [ctl EXCEPT ![h] = [pc |-> "tell", op |-> "grant", rows |-> {}, todo |-> {},
                                       cur |-> Person, app |-> c]]
          /\ Begins(h, Person, {c}, "grant")
    BY <1>4 DEF TakeOut, Begins
  <2>2. Person \in Subjects
    BY DEF Subjects
  <2>3. /\ ctl' \in [Handlers -> Handler]
        /\ \A h2 \in Handlers :
             /\ ctl'[h2].pc \in {"tell", "destroy"} => ctl'[h2].cur \in Subjects
             /\ ctl'[h2].pc = "destroy" \/ (ctl'[h2].pc = "tell" /\ ctl'[h2].op # "grant") => ctl'[h2].cur \in Sids
    BY <2>1, <2>2 DEF Types, Handler
  <2>4. /\ notice' \in [Handlers -> [Subjects -> [Apps -> Notice]]]
        /\ \A h2 \in Handlers, s2 \in Subjects, c2 \in Apps :
             notice'[h2][s2][c2].st = "due" => notice'[h2][s2][c2].tries < ATTEMPTS
    BY <2>1, <2>2, BegunTypes DEF Types
  <2> QED BY <1>1, <2>3, <2>4 DEF Types
<1> QED BY <1>2, <1>3, <1>4 DEF Ending

\* A handler that only goes on to its next step, and is not one that still tells or destroys.
LEMMA GoingOn ==
    ASSUME Types, NEW h \in Handlers, NEW pc \in {"next", "tokens", "done"}, To(h, pc)
    PROVE  /\ ctl' \in [Handlers -> Handler]
           /\ ctl'[h].pc = pc
           /\ \A h2 \in Handlers : h2 # h => ctl'[h2] = ctl[h2]
<1>1. ctl[h] \in Handler /\ ctl'[h] = [ctl[h] EXCEPT !.pc = pc]
  BY DEF Types, To
<1>2. ctl'[h] \in Handler /\ ctl'[h].pc = pc
  BY <1>1 DEF Handler
<1>3. \A h2 \in Handlers : h2 # h => ctl'[h2] = ctl[h2]
  BY DEF Types, To
<1>4. ctl' = [h2 \in Handlers |-> ctl'[h2]]
  BY DEF Types, To
<1> QED BY <1>2, <1>3, <1>4 DEF Types

LEMMA HandlingTypes ==
    ASSUME Types, NEW h \in Handlers, Handling(h) PROVE Types'
<1>1. UNCHANGED <<atApp, req>>
  BY DEF Handling, Tell, Told, Destroy, Mark, Tokens, stores
<1>2. CASE Tell(h)
  <2>1. PICK s \in ctl[h].todo :
          /\ ctl' = [ctl EXCEPT ![h].pc = "tell", ![h].cur = s, ![h].todo = @ \ {s}]
          /\ \/ Begins(h, s, session[s].apps, ctl[h].op)
             \/ notice' = notice
    BY <1>2 DEF Tell, Begins
  <2>2. s \in Sids /\ s \in Subjects /\ ctl[h] \in Handler
    BY DEF Types, Handler, Subjects
  <2>5. /\ notice' \in [Handlers -> [Subjects -> [Apps -> Notice]]]
        /\ \A h2 \in Handlers, s2 \in Subjects, c2 \in Apps :
             notice'[h2][s2][c2].st = "due" => notice'[h2][s2][c2].tries < ATTEMPTS
    BY <2>1, <2>2, BegunTypes DEF Types
  <2>6. ctl'[h] = [[[ctl[h] EXCEPT !.pc = "tell"] EXCEPT !.cur = s] EXCEPT !.todo = @ \ {s}]
    BY <2>1 DEF Types
  <2>7. ctl'[h] \in Handler /\ ctl'[h].cur = s
    <3>1. ctl'[h] = [pc |-> "tell", op |-> ctl[h].op, rows |-> ctl[h].rows,
                     todo |-> ctl[h].todo \ {s}, cur |-> s, app |-> ctl[h].app]
      BY <2>2, <2>6 DEF Handler
    <3> QED BY <2>2, <3>1 DEF Handler
  <2>8. \A h2 \in Handlers : h2 # h => ctl'[h2] = ctl[h2]
    BY <2>1 DEF Types
  <2>3. UNCHANGED <<session, mirror, code>>
    BY <1>2 DEF Tell, stores
  <2>4. /\ ctl' \in [Handlers -> Handler]
        /\ \A h2 \in Handlers :
             /\ ctl'[h2].pc \in {"tell", "destroy"} => ctl'[h2].cur \in Subjects
             /\ ctl'[h2].pc = "destroy" \/ (ctl'[h2].pc = "tell" /\ ctl'[h2].op # "grant") => ctl'[h2].cur \in Sids
    <3>1. ctl' \in [Handlers -> Handler]
      BY <2>1, <2>7, <2>8 DEF Types
    <3> QED BY <2>2, <2>7, <2>8, <3>1 DEF Types
  <2> QED BY <1>1, <2>3, <2>4, <2>5 DEF Types
<1>3. CASE Told(h)
  <2>1. /\ ctl[h] \in Handler
        /\ ctl'[h] = [ctl[h] EXCEPT !.pc = IF ctl[h].op = "grant" THEN "tokens" ELSE "destroy"]
    BY <1>3 DEF Told, To, Types
  <2>2. ctl'[h] \in Handler /\ ctl'[h].cur = ctl[h].cur /\ ctl'[h].pc # "tell"
        /\ (ctl'[h].pc = "destroy" => ctl[h].op # "grant" /\ ctl[h].pc = "tell")
    BY <1>3, <2>1 DEF Handler, Told
  <2>3. ctl' = [ctl EXCEPT ![h] = ctl'[h]]
    BY <1>3 DEF Told, To, Types
  <2>4. UNCHANGED <<session, mirror, code, notice>>
    BY <1>3 DEF Told, stores
  <2> QED BY <1>1, <2>2, <2>3, <2>4 DEF Types
<1>4. CASE Destroy(h)
  <2>1. session' \in [Sids -> Session]
    <3>1. [state |-> "gone", apps |-> {}] \in Session
      BY DEF Session
    <3> QED BY <1>4, <3>1 DEF Destroy, Types
  <2>2. To(h, "next") /\ UNCHANGED <<mirror, code, notice>>
    BY <1>4 DEF Destroy
  <2> QED BY <1>1, <2>1, <2>2, GoingOn DEF Types
<1>5. CASE Mark(h)
  <2>1. mirror' \in [Sids -> {"none", "live", "revoked"}]
    BY <1>5 DEF Mark, Types
  <2>2. PICK pc \in {"tokens", "done"} : To(h, pc)
    BY <1>5 DEF Mark
  <2>3. UNCHANGED <<session, code, notice>>
    BY <1>5 DEF Mark
  <2> QED BY <1>1, <2>1, <2>2, <2>3, GoingOn DEF Types
<1>6. CASE Tokens(h)
  <2>1. code' \subseteq Sids \X Apps
    BY <1>6 DEF Tokens, Types
  <2>2. To(h, "done") /\ UNCHANGED <<session, mirror, notice>>
    BY <1>6 DEF Tokens
  <2> QED BY <1>1, <2>1, <2>2, GoingOn DEF Types
<1> QED BY <1>2, <1>3, <1>4, <1>5, <1>6 DEF Handling

LEMMA CrashTypes ==
    ASSUME Types, Crash \/ UNCHANGED vars PROVE Types'
<1>1. CASE Crash
  <2>1. ctl' \in [Handlers -> Handler] /\ \A h \in Handlers : ctl'[h].pc \in {"ready", "done"}
    <3>1. ASSUME NEW h \in Handlers
          PROVE  /\ ctl[h] \in Handler
                 /\ [ctl[h] EXCEPT !.pc = "done"] \in Handler
                 /\ [ctl[h] EXCEPT !.pc = "done"].pc = "done"
      BY DEF Types, Handler
    <3> QED BY <1>1, <3>1 DEF Crash
  <2>2. req' \in [Requests -> Request] /\ \A r \in Requests : req'[r].pc = "idle"
    BY <1>1 DEF Crash, Types, Request, Idle
  <2>3. ASSUME NEW h \in Handlers, NEW s \in Subjects, NEW c \in Apps
        PROVE  notice'[h][s][c] \in Notice /\ notice'[h][s][c].st # "due"
    <3>1. notice[h][s][c] \in Notice
      BY DEF Types
    <3>2. \/ notice'[h][s][c] = notice[h][s][c] /\ notice[h][s][c].st # "due"
          \/ notice'[h][s][c] = [notice[h][s][c] EXCEPT !.st = "lost"]
      BY <1>1 DEF Crash
    <3> QED BY <3>1, <3>2 DEF Notice
  <2>4. notice' \in [Handlers -> [Subjects -> [Apps -> Notice]]]
    BY <1>1, <2>3 DEF Crash
  <2>5. UNCHANGED <<session, mirror, code, atApp>>
    BY <1>1 DEF Crash, stores
  <2> QED BY <2>1, <2>2, <2>3, <2>4, <2>5 DEF Types
<1>2. CASE UNCHANGED vars
  BY <1>2 DEF vars, stores, Types
<1> QED BY <1>1, <1>2

\* The tables and what requests and handlers have in hand.
THEOREM TypesAlways == Spec => []Types
<1>1. Init => Types
  BY SessionsAssumption DEF Init, Types, Session, Idle, Request, Ready, Handler, Untold, Notice
<1>2. Types /\ [Next]_vars => Types'
  BY BrowsingTypes, DeliveringTypes, EndingTypes, HandlingTypes, CrashTypes DEF Next
<1> QED BY <1>1, <1>2, PTL DEF Spec

\* TypeOK (backchannel.ts): no app is posted to more often than ATTEMPTS, whatever that is.
THEOREM TypeCorrect == Spec => []TypeOK
<1>1. Types => TypeOK
  BY DEF Types, TypeOK, Session
<1> QED BY <1>1, TypesAlways, PTL

-----------------------------------------------------------------------------
(* Revoked rows. *)

LEMMA GoneBrowsing ==
    ASSUME Types, Gone, Browsing PROVE Gone'
<1>0. ctl' = ctl
  BY DEF Browsing, SignIn, Authorize, Save, RowFind, RowCreate, Redeem, Leave, Arrive
<1>1. ASSUME NEW r \in Requests, Save(r) PROVE Gone'
  <2>0. PICK s \in Sids : s = req[r].sid
    BY <1>1 DEF Save, Types
  <2>1. /\ session'[s].state = "there"
        /\ \A s2 \in Sids : s2 # s => session'[s2] = session[s2]
        /\ late' = IF session[s].state = "gone" THEN late \cup {s} ELSE late
        /\ mirror' = mirror
    BY <1>1, <2>0 DEF Save, Types
  <2>2. /\ \A q \in Requests : q # r => req'[q] = req[q]
        /\ req'[r].sid = s
    BY <1>1, <2>0 DEF Save, Types, Request
  <2>3. \A s2 \in Sids : session[s2].state # "unborn" => session'[s2].state # "unborn"
    BY <2>1
  <2>4. \A s2 \in Sids : Over(s2) => Over(s2)'
    <3> SUFFICES ASSUME NEW s2 \in Sids, Over(s2) PROVE Over(s2)'
      OBVIOUS
    <3>1. CASE s2 = s
      <4>1. session[s].state \in {"there", "gone"}
        BY <3>1 DEF Over, Types, Session
      <4> QED BY <2>1, <3>1, <4>1 DEF Over, There
    <3>2. CASE s2 # s
      BY <2>1, <3>2 DEF Over, There
    <3> QED BY <3>1, <3>2
  <2>5. \A q \in Requests : req'[q].pc \in {"find", "create"} => session'[req'[q].sid].state # "unborn"
    <3> SUFFICES ASSUME NEW q \in Requests, req'[q].pc \in {"find", "create"}
                 PROVE  session'[req'[q].sid].state # "unborn"
      OBVIOUS
    <3>1. CASE q = r
      BY <2>1, <2>2, <3>1
    <3>2. CASE q # r
      <4>1. req[q].sid \in Sids /\ session[req[q].sid].state # "unborn"
        BY <2>2, <3>2 DEF Types, Gone
      <4> QED BY <2>2, <2>3, <3>2, <4>1
    <3> QED BY <3>1, <3>2
  <2>6. \A h \in Handlers : ctl[h].rows \subseteq Sids
    BY DEF Types, Handler
  <2> QED BY <1>0, <2>1, <2>3, <2>4, <2>5, <2>6 DEF Gone
<1>2. ASSUME NEW r \in Requests, RowCreate(r) PROVE Gone'
  <2>0. PICK s \in Sids : s = req[r].sid /\ session[s].state # "unborn"
    BY <1>2 DEF RowCreate, Types, Gone
  <2>1. /\ \A s2 \in Sids : s2 # s => mirror'[s2] = mirror[s2]
        /\ mirror'[s] = IF mirror[s] = "none" THEN "live" ELSE mirror[s]
        /\ UNCHANGED <<session, late>>
    <3>1. mirror' = [mirror EXCEPT ![s] = IF mirror[s] = "none" THEN "live" ELSE mirror[s]]
      BY <1>2, <2>0 DEF RowCreate
    <3> QED BY <1>2, <3>1 DEF RowCreate, Types, histories
  <2>2. \A q \in Requests : req'[q].pc \in {"find", "create"} => req'[q] = req[q]
    BY <1>2 DEF RowCreate, Idle, Types
  <2>3. \A s2 \in Sids : Over(s2)' = Over(s2)
    BY <2>1 DEF Over, There
  <2>4. \A s2 \in Sids : /\ mirror'[s2] # "none" => session'[s2].state # "unborn"
                         /\ mirror'[s2] = "revoked" => mirror[s2] = "revoked"
    BY <2>0, <2>1 DEF Gone
  <2>6. \A h \in Handlers : ctl[h].rows \subseteq Sids
    BY DEF Types, Handler
  <2> QED BY <1>0, <2>1, <2>2, <2>3, <2>4, <2>6 DEF Gone
<1>3. ASSUME UNCHANGED <<session, mirror, late>>,
             \A q \in Requests : req'[q].pc \in {"find", "create"} =>
                req[q].pc \in {"find", "create"} /\ req'[q].sid = req[q].sid
      PROVE  Gone'
  BY <1>0, <1>3 DEF Gone, Over, There
<1>4. ASSUME NEW r \in Requests, SignIn(r) \/ Authorize(r) PROVE Gone'
  BY <1>3, <1>4 DEF SignIn, Authorize, Types, stores, histories
<1>5. ASSUME NEW r \in Requests, RowFind(r) PROVE Gone'
  <2>1. UNCHANGED <<session, mirror, late>> /\ req[r].pc = "find"
        /\ \A q \in Requests : q # r => req'[q] = req[q]
    BY <1>5 DEF RowFind, Types, stores, histories
  <2>2. req'[r] = Idle \/ req'[r] = [req[r] EXCEPT !.pc = "create"]
    BY <1>5 DEF RowFind, Types
  <2>3. req'[r].pc # "idle" => req'[r].sid = req[r].sid
    BY <2>2 DEF Idle, Types, Request
  <2> QED BY <1>3, <2>1, <2>3
<1>6. CASE \/ \E s \in Sids, c \in Apps : Redeem(s, c) \/ Leave(s, c)
           \/ \E t \in wire : Arrive(t)
  BY <1>3, <1>6 DEF Redeem, Leave, Arrive, histories
<1> QED BY <1>1, <1>2, <1>4, <1>5, <1>6 DEF Browsing

\* One handler goes on, and the sessions stay as they are.
LEMMA GoneGoesOn ==
    ASSUME Types, Gone, NEW h \in Handlers, UNCHANGED <<session, mirror, late, req>>,
           \A g \in Handlers : g # h => ctl'[g] = ctl[g],
           \A s \in ctl'[h].rows :
             /\ s \in Sids /\ session[s].state # "unborn"
             /\ ctl'[h].pc = "next" => Over(s) \/ s \in ctl'[h].todo
             /\ ctl'[h].pc \in {"tell", "destroy"} => Over(s) \/ s \in ctl'[h].todo \cup {ctl'[h].cur}
    PROVE  Gone'
<1>1. ASSUME NEW g \in Handlers, NEW s \in ctl'[g].rows
      PROVE  /\ session[s].state # "unborn"
             /\ ctl'[g].pc = "next" => Over(s) \/ s \in ctl'[g].todo
             /\ ctl'[g].pc \in {"tell", "destroy"} => Over(s) \/ s \in ctl'[g].todo \cup {ctl'[g].cur}
  BY DEF Gone
<1>2. \A s : Over(s)' = Over(s)
  BY DEF Over, There
<1> QED BY <1>1, <1>2 DEF Gone

LEMMA GoneEnding ==
    ASSUME Types, Gone, NEW h \in Handlers, Ending(h) PROVE Gone'
<1>1. UNCHANGED <<session, mirror, late, req>>
  BY DEF Ending, RevokeAll, TakeOut, EndOne, stores
<1>2. \A g \in Handlers : g # h => ctl'[g] = ctl[g]
  BY DEF Ending, RevokeAll, TakeOut, EndOne, Types
<1>3. CASE RevokeAll(h)
  <2>1. PICK kept \in SUBSET Sids, op \in {"reset", "others"} : ctl' = [ctl EXCEPT ![h] = EndingRows(op, LiveRows \ kept)]
    BY <1>3 DEF RevokeAll
  <2>2. ctl'[h] = EndingRows(op, LiveRows \ kept)
    BY <2>1 DEF Types
  <2>3. \A s \in LiveRows : s \in Sids /\ session[s].state # "unborn"
    BY DEF LiveRows, Gone
  <2> QED BY <1>1, <1>2, <2>2, <2>3, GoneGoesOn DEF EndingRows
<1>4. ASSUME NEW op \in {"one", "switch", "signout"}, EndOne(h, op) PROVE Gone'
  <2>1. PICK s \in Sids : /\ IF op = "one" THEN mirror[s] = "live" ELSE There(s)
                          /\ ctl' = [ctl EXCEPT ![h] = EndingRows(op, {s})]
    BY <1>4 DEF EndOne
  <2>2. ctl'[h] = EndingRows(op, {s})
    BY <2>1 DEF Types
  <2>3. session[s].state # "unborn"
    BY <2>1 DEF Gone, There
  <2> QED BY <1>1, <1>2, <2>2, <2>3, GoneGoesOn DEF EndingRows
<1>5. CASE TakeOut(h)
  <2>1. ctl'[h].rows = {}
    BY <1>5 DEF TakeOut, Types
  <2> QED BY <1>1, <1>2, <2>1, GoneGoesOn
<1> QED BY <1>3, <1>4, <1>5 DEF Ending

LEMMA GoneHandling ==
    ASSUME Types, Gone, NEW h \in Handlers, Handling(h) PROVE Gone'
<1>0. ctl[h] \in Handler /\ \A g \in Handlers : ctl[g].rows \subseteq Sids
  BY DEF Types, Handler
<1>1. late' = late /\ req' = req
  BY DEF Handling, Tell, Told, Destroy, Mark, Tokens, histories
<1>2. \A g \in Handlers : g # h => ctl'[g] = ctl[g]
  BY DEF Handling, Tell, Told, Destroy, Mark, Tokens, To, Types
<1>3. CASE Tell(h)
  <2>0. PICK s \in ctl[h].todo :
          ctl' = [ctl EXCEPT ![h].pc = "tell", ![h].cur = s, ![h].todo = @ \ {s}]
    BY <1>3 DEF Tell
  <2>1. ctl'[h] = [[[ctl[h] EXCEPT !.pc = "tell"] EXCEPT !.cur = s] EXCEPT !.todo = @ \ {s}]
    BY <2>0 DEF Types
  <2>2. ctl'[h].pc = "tell" /\ ctl'[h].cur = s /\ ctl'[h].rows = ctl[h].rows
        /\ ctl'[h].todo = ctl[h].todo \ {s}
    BY <1>0, <2>1 DEF Handler
  <2>3. UNCHANGED <<session, mirror>> /\ ctl[h].pc = "next"
    BY <1>3 DEF Tell, stores
  <2>4. \A s2 \in ctl[h].rows : session[s2].state # "unborn" /\ (Over(s2) \/ s2 \in ctl[h].todo)
    BY <2>3 DEF Gone
  <2> QED BY <1>0, <1>1, <1>2, <2>2, <2>3, <2>4, GoneGoesOn
<1>4. CASE Told(h)
  <2>1. ctl'[h] = [ctl[h] EXCEPT !.pc = IF ctl[h].op = "grant" THEN "tokens" ELSE "destroy"]
    BY <1>4 DEF Told, To, Types
  <2>2. ctl'[h].pc \in {"tokens", "destroy"} /\ ctl'[h].cur = ctl[h].cur /\ ctl'[h].rows = ctl[h].rows
        /\ ctl'[h].todo = ctl[h].todo
    BY <1>0, <2>1 DEF Handler
  <2>3. UNCHANGED <<session, mirror>> /\ ctl[h].pc = "tell"
    BY <1>4 DEF Told, stores
  <2>4. \A s2 \in ctl[h].rows :
           session[s2].state # "unborn" /\ (Over(s2) \/ s2 \in ctl[h].todo \cup {ctl[h].cur})
    BY <2>3 DEF Gone
  <2> QED BY <1>0, <1>1, <1>2, <2>2, <2>3, <2>4, GoneGoesOn
<1>5. CASE Destroy(h)
  <2>0. PICK s \in Sids : s = ctl[h].cur
    BY <1>5 DEF Destroy, Types
  <2>1. ctl'[h] = [ctl[h] EXCEPT !.pc = "next"] /\ mirror' = mirror
    BY <1>5 DEF Destroy, To, Types
  <2>2. ctl'[h].pc = "next" /\ ctl'[h].rows = ctl[h].rows /\ ctl'[h].todo = ctl[h].todo
    BY <1>0, <2>1 DEF Handler
  <2>3. /\ session'[s].state # "there"
        /\ session[s].state # "unborn" => session'[s].state # "unborn"
        /\ \A s2 \in Sids : s2 # s => session'[s2] = session[s2]
    BY <1>5, <2>0 DEF Destroy, Types, There
  <2>4. \A s2 \in Sids : /\ session[s2].state # "unborn" => session'[s2].state # "unborn"
                         /\ Over(s2) => Over(s2)'
    BY <1>1, <2>3 DEF Over, There
  <2>5. session[s].state # "unborn" => Over(s)'
    BY <2>3 DEF Over, There
  <2>6. \A q \in Requests : req[q].pc \in {"find", "create"} => req[q].sid \in Sids
    BY DEF Types
  <2>7. \A s2 \in ctl[h].rows : s2 \in Sids /\ session[s2].state # "unborn"
                                 /\ (Over(s2) \/ s2 \in ctl[h].todo \cup {s})
    BY <1>0, <1>5, <2>0 DEF Gone, Destroy
  <2>8. \A s2 \in ctl'[h].rows : session'[s2].state # "unborn" /\ (Over(s2)' \/ s2 \in ctl'[h].todo)
    BY <2>2, <2>4, <2>5, <2>7
  <2>9. ASSUME NEW g \in Handlers, g # h, NEW s2 \in ctl'[g].rows
        PROVE  /\ session'[s2].state # "unborn"
               /\ ctl'[g].pc = "next" => Over(s2)' \/ s2 \in ctl'[g].todo
               /\ ctl'[g].pc \in {"tell", "destroy"} => Over(s2)' \/ s2 \in ctl'[g].todo \cup {ctl'[g].cur}
    <3>1. ctl'[g] = ctl[g] /\ s2 \in ctl[g].rows /\ s2 \in Sids
      BY <1>0, <1>2, <2>9
    <3> QED BY <2>4, <3>1 DEF Gone
  <2>10. \A g \in Handlers : \A s2 \in ctl'[g].rows :
           /\ session'[s2].state # "unborn"
           /\ ctl'[g].pc = "next" => Over(s2)' \/ s2 \in ctl'[g].todo
           /\ ctl'[g].pc \in {"tell", "destroy"} => Over(s2)' \/ s2 \in ctl'[g].todo \cup {ctl'[g].cur}
    BY <2>2, <2>8, <2>9
  <2> QED BY <1>1, <2>1, <2>4, <2>6, <2>10 DEF Gone
<1>6. CASE Mark(h)
  <2>1. PICK pc \in {"tokens", "done"} : ctl'[h] = [ctl[h] EXCEPT !.pc = pc]
    BY <1>6 DEF Mark, To, Types
  <2>2. ctl'[h].pc \notin {"next", "tell", "destroy"} /\ ctl'[h].rows = ctl[h].rows
    BY <1>0, <2>1 DEF Handler
  <2>3. session' = session /\ ctl[h].pc = "next" /\ ctl[h].todo = {}
    BY <1>6 DEF Mark
  <2>4. \A s \in Sids : \/ mirror'[s] = mirror[s]
                        \/ s \in ctl[h].rows /\ mirror[s] = "live" /\ mirror'[s] = "revoked"
    BY <1>6 DEF Mark
  <2>5. \A s : Over(s)' = Over(s)
    BY <1>1, <2>3 DEF Over, There
  <2>6. \A s \in Sids : /\ mirror'[s] # "none" => session'[s].state # "unborn"
                        /\ mirror'[s] = "revoked" => Over(s)'
    BY <2>3, <2>4, <2>5 DEF Gone
  <2>7. \A g \in Handlers : \A s \in ctl'[g].rows :
           /\ session'[s].state # "unborn"
           /\ ctl'[g].pc = "next" => Over(s)' \/ s \in ctl'[g].todo
           /\ ctl'[g].pc \in {"tell", "destroy"} => Over(s)' \/ s \in ctl'[g].todo \cup {ctl'[g].cur}
    BY <1>2, <2>2, <2>3, <2>5 DEF Gone
  <2> QED BY <1>1, <2>3, <2>6, <2>7 DEF Gone
<1>7. CASE Tokens(h)
  <2>1. ctl'[h] = [ctl[h] EXCEPT !.pc = "done"] /\ UNCHANGED <<session, mirror>>
    BY <1>7 DEF Tokens, To, Types
  <2>2. ctl'[h].pc = "done" /\ ctl'[h].rows = ctl[h].rows
    BY <1>0, <2>1 DEF Handler
  <2>3. \A s \in ctl[h].rows : session[s].state # "unborn"
    BY DEF Gone
  <2> QED BY <1>0, <1>1, <1>2, <2>1, <2>2, <2>3, GoneGoesOn
<1> QED BY <1>3, <1>4, <1>5, <1>6, <1>7 DEF Handling

LEMMA GoneCrash ==
    ASSUME Types, Gone, Crash PROVE Gone'
<1>1. UNCHANGED <<session, mirror, late>>
  BY DEF Crash, stores, histories
<1>2. \A g \in Handlers : ctl'[g].pc \notin {"next", "tell", "destroy"} /\ ctl'[g].rows = ctl[g].rows
  <2>1. ASSUME NEW g \in Handlers PROVE ctl[g] \in Handler
    BY DEF Types
  <2>2. ASSUME NEW g \in Handlers
        PROVE  \/ ctl'[g] = ctl[g] /\ ctl[g].pc = "ready"
               \/ ctl'[g] = [ctl[g] EXCEPT !.pc = "done"]
    BY DEF Crash
  <2> QED BY <2>1, <2>2 DEF Handler
<1>3. \A r \in Requests : req'[r].pc = "idle"
  BY DEF Crash, Idle
<1>4. \A s : Over(s)' = Over(s)
  BY <1>1 DEF Over, There
<1> QED BY <1>1, <1>2, <1>3, <1>4 DEF Gone

LEMMA GoneStep ==
    ASSUME Types, Gone, [Next]_vars PROVE Gone'
<1>1. ASSUME UNCHANGED <<session, mirror, late, req, ctl>> PROVE Gone'
  BY <1>1 DEF Gone, Over, There
<1>2. ASSUME NEW h \in Handlers, NEW s \in Subjects, NEW c \in Apps, Delivering(h, s, c) PROVE Gone'
  BY <1>1, <1>2 DEF Delivering, Post, Answered, Unanswered, Refused, stores, histories
<1>3. CASE UNCHANGED vars
  BY <1>1, <1>3 DEF vars, stores, histories
<1> QED BY <1>2, <1>3, GoneBrowsing, GoneEnding, GoneHandling, GoneCrash DEF Next

\* RevokedMeansGone (security/sessions.ts): however handlers, requests and a stop interleave, the
\* session of a row marked revoked is gone, unless a request that had read it saved it again.
THEOREM RevokedIsGone == Spec => []RevokedMeansGone
<1>1. Init => Gone
  BY DEF Init, Gone, Idle, Ready
<1>2. Types /\ Gone /\ [Next]_vars => Gone'
  BY GoneStep
<1>3. Gone => RevokedMeansGone
  BY DEF Gone, RevokedMeansGone, Over
<1> QED BY <1>1, <1>2, <1>3, TypesAlways, PTL DEF Spec

-----------------------------------------------------------------------------
(* Apps that are told. *)

LEMMA HeededStep ==
    ASSUME Types, Heeded, [Next]_vars PROVE Heeded'
<1>0. ASSUME UNCHANGED <<seen, wire>>, \A p \in atApp' : p \in atApp,
             \A p \in after : p \in after',
             \A h \in Handlers, s \in Subjects, c \in Apps :
               notice'[h][s][c].st = "told" => notice[h][s][c].st = "told"
      PROVE  Heeded'
  BY <1>0 DEF Heeded, About
<1>1. ASSUME NEW s \in Sids, NEW c \in Apps, Redeem(s, c) PROVE Heeded'
  <2>1. UNCHANGED <<seen, wire, notice>> /\ atApp' = atApp \cup {<<s, c>>}
        /\ after' = IF Heard(s, c) # {} THEN after \cup {<<s, c>>} ELSE after
    BY <1>1 DEF Redeem, network
  <2>2. ASSUME NEW t \in seen, About(t, <<s, c>>) PROVE <<s, c>> \in after'
    <3>1. t \in Heard(s, c)
      BY <2>2 DEF Heard, About
    <3> QED BY <2>1, <3>1
  <2>3. \A t \in seen', p \in atApp' : About(t, p) => p \in after'
    BY <2>1, <2>2 DEF Heeded
  <2> QED BY <2>1, <2>3 DEF Heeded
<1>2. ASSUME NEW t \in wire, Arrive(t) PROVE Heeded'
  <2>1. seen' = seen \cup {t} /\ atApp' = atApp \ Ended(t) /\ UNCHANGED <<wire, notice, after>>
    BY <1>2 DEF Arrive, histories
  <2>2. \A p \in atApp' : ~About(t, p) /\ p \in atApp
    BY <2>1 DEF Ended, About
  <2> QED BY <2>1, <2>2 DEF Heeded
<1>3. ASSUME NEW r \in Requests,
             SignIn(r) \/ Authorize(r) \/ Save(r) \/ RowFind(r) \/ RowCreate(r)
      PROVE  Heeded'
  BY <1>0, <1>3 DEF SignIn, Authorize, Save, RowFind, RowCreate, stores, network, histories
<1>4. ASSUME NEW s \in Sids, NEW c \in Apps, Leave(s, c) PROVE Heeded'
  BY <1>0, <1>4 DEF Leave, network, histories
<1>5. ASSUME NEW h \in Handlers, NEW s \in Subjects, NEW c \in Apps, Delivering(h, s, c) PROVE Heeded'
  <2>1. UNCHANGED <<seen, atApp, after>> /\ wire \subseteq wire'
    BY <1>5 DEF Delivering, Post, Answered, Unanswered, Refused, stores, network, histories
  <2>2. ASSUME Answered(h, s, c) PROVE \E t \in seen : t.app = c /\ t.sid = s
    BY <2>2 DEF Answered, Posted, Named
  <2>3. ASSUME NEW h2 \in Handlers, NEW s2 \in Subjects, NEW c2 \in Apps, notice'[h2][s2][c2].st = "told"
        PROVE  \/ notice[h2][s2][c2].st = "told"
               \/ s2 = s /\ c2 = c /\ Answered(h, s, c)
    <3>1. ASSUME NEW st, NEW tries, NoticeBecomes(h, s, c, st, tries), st # "told"
          PROVE  notice[h2][s2][c2].st = "told"
      BY <2>3, <3>1 DEF NoticeBecomes, Types
    <3>2. ASSUME NEW st, NEW tries, NoticeBecomes(h, s, c, st, tries), ~(s2 = s /\ c2 = c)
          PROVE  notice[h2][s2][c2].st = "told"
      BY <2>3, <3>2 DEF NoticeBecomes, Types
    <3> QED BY <1>5, <3>1, <3>2, Deliveries
  <2> QED BY <2>1, <2>2, <2>3 DEF Heeded
<1>6. ASSUME NEW h \in Handlers, NEW s \in Subjects, NEW targets, NEW op,
             Begins(h, s, targets, op),
             UNCHANGED <<seen, wire, atApp, after>>
      PROVE  Heeded'
  <2>1. ASSUME NEW h2 \in Handlers, NEW s2 \in Subjects, NEW c \in Apps,
               notice'[h2][s2][c].st = "told"
        PROVE  notice[h2][s2][c].st = "told"
    <3>1. \/ notice'[h2][s2][c] = notice[h2][s2][c]
          \/ notice'[h2][s2][c] = [st |-> "due", tries |-> 0]
          \/ notice'[h2][s2][c] = [st |-> "slow", tries |-> 0]
      BY <1>6, BegunNotices
    <3> QED BY <2>1, <3>1
  <2> QED BY <1>0, <1>6, <2>1
<1>7. ASSUME NEW h \in Handlers, Ending(h) \/ Handling(h) PROVE Heeded'
  <2>1. UNCHANGED <<seen, wire, atApp, after>>
    BY <1>7 DEF Ending, Handling, RevokeAll, TakeOut, EndOne, Tell, Told, Destroy, Mark, Tokens,
           stores, network, histories
  <2>2. CASE TakeOut(h)
    <3>1. Person \in Subjects
      BY DEF Subjects
    <3> QED BY <1>6, <2>1, <2>2, <3>1 DEF TakeOut, Begins
  <2>3. CASE Tell(h)
    <3>1. ctl[h].todo \subseteq Subjects
      BY DEF Types, Handler, Subjects
    <3> QED BY <1>0, <1>6, <2>1, <2>3, <3>1 DEF Tell, Begins
  <2>4. CASE notice' = notice
    BY <1>0, <2>1, <2>4
  <2> QED BY <1>7, <2>2, <2>3, <2>4 DEF Ending, Handling, RevokeAll, EndOne, Told, Destroy, Mark, Tokens
<1>8. CASE Crash
  <2>1. UNCHANGED <<seen, wire, atApp, after>>
    BY <1>8 DEF Crash, stores, network, histories
  <2>2. ASSUME NEW h \in Handlers, NEW s \in Subjects, NEW c \in Apps, notice'[h][s][c].st = "told"
        PROVE  notice[h][s][c].st = "told"
    <3>1. notice[h][s][c] \in Notice
      BY DEF Types
    <3>2. \/ notice'[h][s][c] = notice[h][s][c]
          \/ notice'[h][s][c] = [notice[h][s][c] EXCEPT !.st = "lost"]
      BY <1>8 DEF Crash
    <3> QED BY <2>2, <3>1, <3>2 DEF Notice
  <2> QED BY <1>0, <2>1, <2>2
<1>9. CASE UNCHANGED vars
  BY <1>0, <1>9 DEF vars, stores, network, histories
<1> QED BY <1>1, <1>2, <1>3, <1>4, <1>5, <1>7, <1>8, <1>9 DEF Next, Browsing

\* ToldMeansEnded (backchannel.ts and the library's handler): whatever the network repeats, delays
\* or loses, an app recorded as told has no session left that it did not begin afterwards.
THEOREM ToldIsEnded == Spec => []ToldMeansEnded
<1>1. Init => Heeded
  BY SessionsAssumption DEF Init, Heeded, Untold
<1>2. Types /\ Heeded /\ [Next]_vars => Heeded'
  BY HeededStep
<1>3. Heeded => ToldMeansEnded
  BY DEF Heeded, ToldMeansEnded, About
<1> QED BY <1>1, <1>2, <1>3, TypesAlways, PTL DEF Spec

-----------------------------------------------------------------------------
(* Nobody is told without a reason. *)

LEMMA ReasonsStep ==
    ASSUME Types, Reasons, [Next]_vars PROVE Reasons'
<1>0. ASSUME UNCHANGED <<ended, changed, wire>>,
             \A h \in Handlers : ctl'[h].todo \subseteq ctl[h].todo,
             \A h \in Handlers, s \in Subjects, c \in Apps :
               notice'[h][s][c].st \in {"due", "posted"} => Reason(s, c)
      PROVE  Reasons'
  BY <1>0 DEF Reasons, Reason
<1>1. CASE Browsing
  <2>1. UNCHANGED <<ended, changed, wire, ctl, notice>>
    BY <1>1 DEF Browsing, SignIn, Authorize, Save, RowFind, RowCreate, Redeem, Leave, Arrive,
           stores, network, histories
  <2> QED BY <1>0, <2>1 DEF Reasons
<1>2. ASSUME NEW h \in Handlers, NEW s \in Subjects, NEW c \in Apps, Delivering(h, s, c) PROVE Reasons'
  <2>1. UNCHANGED <<ended, changed, ctl>>
    BY <1>2 DEF Delivering, Post, Answered, Unanswered, Refused, histories
  <2>2. notice[h][s][c].st \in {"due", "posted"}
    BY <1>2 DEF Delivering, Post, Answered, Unanswered, Refused
  <2>3. Reason(s, c)
    BY <2>2 DEF Reasons
  <2>4. \A t \in wire' : Reason(t.sid, t.app)
    <3>1. wire' = wire \/ wire' = wire \cup {Token(h, s, c)}
      BY <1>2 DEF Delivering, Post, Answered, Unanswered, Refused, network
    <3>2. Token(h, s, c).sid = s /\ Token(h, s, c).app = c
      BY DEF Token, Named
    <3> QED BY <2>3, <3>1, <3>2 DEF Reasons
  <2>5. ASSUME NEW h2 \in Handlers, NEW s2 \in Subjects, NEW c2 \in Apps,
               notice'[h2][s2][c2].st \in {"due", "posted"}
        PROVE  Reason(s2, c2)
    <3>1. CASE s2 = s /\ c2 = c
      BY <2>3, <3>1
    <3>2. CASE ~(s2 = s /\ c2 = c)
      <4>1. \A st, tries : NoticeBecomes(h, s, c, st, tries) => notice'[h2][s2][c2] = notice[h2][s2][c2]
        BY <3>2 DEF NoticeBecomes, Types
      <4>2. notice'[h2][s2][c2] = notice[h2][s2][c2]
        BY <1>2, <4>1, Deliveries
      <4> QED BY <2>5, <4>2 DEF Reasons
    <3> QED BY <3>1, <3>2
  <2> QED BY <2>1, <2>4, <2>5 DEF Reasons, Reason
<1>3. ASSUME NEW h \in Handlers, NEW s \in Subjects, NEW targets, NEW op,
             Begins(h, s, targets, op),
             NEW h2 \in Handlers, NEW s2 \in Subjects, NEW c \in Apps,
             notice'[h2][s2][c].st \in {"due", "posted"}
      PROVE  \/ s2 = s /\ c \in targets
             \/ Reason(s2, c)
  <2>1. \/ notice'[h2][s2][c] = notice[h2][s2][c]
        \/ s2 = s /\ c \in targets
    BY <1>3, BegunNotices
  <2> QED BY <1>3, <2>1 DEF Reasons
<1>4. ASSUME NEW h \in Handlers, TakeOut(h) PROVE Reasons'
  <2>1. PICK c \in Apps :
          /\ ctl' = [ctl EXCEPT ![h] = [pc |-> "tell", op |-> "grant", rows |-> {}, todo |-> {},
                                       cur |-> Person, app |-> c]]
          /\ Begins(h, Person, {c}, "grant")
          /\ changed' = changed \cup {c}
    BY <1>4 DEF TakeOut, Begins
  <2>2. Person \in Subjects /\ UNCHANGED <<ended, wire>>
    BY <1>4 DEF Subjects, TakeOut, network
  <2>3. \A g \in Handlers : ctl'[g].todo \subseteq ended
    BY <2>1 DEF Types, Reasons
  <2>4. \A h2 \in Handlers, s2 \in Subjects, c2 \in Apps :
          notice'[h2][s2][c2].st \in {"due", "posted"} => (s2 = Person /\ c2 = c) \/ Reason(s2, c2)
    BY <1>3, <2>1, <2>2
  <2>5. Reason(Person, c)' /\ \A s2, c2 : Reason(s2, c2) => Reason(s2, c2)'
    BY <2>1, <2>2 DEF Reason
  <2> QED BY <2>2, <2>3, <2>4, <2>5 DEF Reasons
<1>5. ASSUME NEW h \in Handlers, RevokeAll(h) \/ \E op \in {"one", "switch", "signout"} : EndOne(h, op)
      PROVE  Reasons'
  <2>1. PICK rows \in SUBSET Sids, op \in {"reset", "others", "one", "switch", "signout"} :
          /\ ctl' = [ctl EXCEPT ![h] = EndingRows(op, rows)]
          /\ ended' = ended \cup rows
    BY <1>5 DEF RevokeAll, EndOne, LiveRows
  <2>2. UNCHANGED <<changed, wire, notice>>
    BY <1>5 DEF RevokeAll, EndOne, network
  <2>3. \A g \in Handlers : ctl'[g].todo \subseteq ended'
    BY <2>1 DEF Types, Reasons, EndingRows
  <2>4. \A s2, c2 : Reason(s2, c2) => Reason(s2, c2)'
    BY <2>1, <2>2 DEF Reason
  <2> QED BY <2>1, <2>2, <2>3, <2>4 DEF Reasons
<1>6. ASSUME NEW h \in Handlers, Tell(h) PROVE Reasons'
  <2>1. PICK s \in ctl[h].todo :
          /\ ctl' = [ctl EXCEPT ![h].pc = "tell", ![h].cur = s, ![h].todo = @ \ {s}]
          /\ \/ Begins(h, s, session[s].apps, ctl[h].op)
             \/ notice' = notice
    BY <1>6 DEF Tell, Begins
  <2>2. s \in Subjects /\ s \in ended /\ ctl[h] \in Handler
    BY DEF Types, Handler, Subjects, Reasons
  <2>3. UNCHANGED <<ended, changed, wire>>
    BY <1>6 DEF Tell, network, histories
  <2>4. \A h2 \in Handlers, s2 \in Subjects, c2 \in Apps :
          notice'[h2][s2][c2].st \in {"due", "posted"} => Reason(s2, c2)
    <3>1. CASE Begins(h, s, session[s].apps, ctl[h].op)
      BY <1>3, <2>2, <3>1 DEF Reason
    <3>2. CASE notice' = notice
      BY <3>2 DEF Reasons
    <3> QED BY <2>1, <3>1, <3>2
  <2>5. \A g \in Handlers : ctl'[g].todo \subseteq ctl[g].todo
    <3>1. ctl'[h] = [[[ctl[h] EXCEPT !.pc = "tell"] EXCEPT !.cur = s] EXCEPT !.todo = @ \ {s}]
      BY <2>1 DEF Types
    <3>2. ctl'[h].todo = ctl[h].todo \ {s}
      BY <2>2, <3>1 DEF Handler
    <3> QED BY <2>1, <3>2 DEF Types
  <2> QED BY <1>0, <2>3, <2>4, <2>5
<1>7. ASSUME NEW h \in Handlers, Told(h) \/ Destroy(h) \/ Mark(h) \/ Tokens(h) PROVE Reasons'
  <2>1. UNCHANGED <<ended, changed, wire, notice>>
    BY <1>7 DEF Told, Destroy, Mark, Tokens, network, histories
  <2>2. PICK pc \in {"tokens", "destroy", "next", "done"} : ctl' = [ctl EXCEPT ![h].pc = pc]
    BY <1>7 DEF Told, Destroy, Mark, Tokens, To
  <2>3. \A g \in Handlers : ctl'[g].todo = ctl[g].todo
    BY <2>2 DEF Types, Handler
  <2> QED BY <1>0, <2>1, <2>3 DEF Reasons
<1>8. CASE Crash
  <2>1. UNCHANGED <<ended, changed, wire>>
    BY <1>8 DEF Crash, network, histories
  <2>2. \A g \in Handlers : ctl'[g].todo = ctl[g].todo
    BY <1>8 DEF Crash, Types, Handler
  <2>3. ASSUME NEW h \in Handlers, NEW s \in Subjects, NEW c \in Apps
        PROVE  notice'[h][s][c].st \notin {"due", "posted"}
    <3>1. notice[h][s][c] \in Notice
      BY DEF Types
    <3>2. \/ notice'[h][s][c] = notice[h][s][c] /\ notice[h][s][c].st \notin {"due", "posted"}
          \/ notice'[h][s][c] = [notice[h][s][c] EXCEPT !.st = "lost"]
      BY <1>8 DEF Crash
    <3> QED BY <3>1, <3>2 DEF Notice
  <2> QED BY <1>0, <2>1, <2>2, <2>3
<1>9. CASE UNCHANGED vars
  BY <1>0, <1>9 DEF Reasons, vars, network, histories
<1> QED BY <1>1, <1>2, <1>4, <1>5, <1>6, <1>7, <1>8, <1>9 DEF Next, Ending, Handling

\* EndsOnlyWhatWasEnded (account/routes.ts, backchannel.ts): whatever tokens arrive in whatever
\* order, a session of an app goes by one only if its sign-in was ended or the person taken out.
THEOREM OthersAreLeftAlone == Spec => EndsOnlyWhatWasEnded
<1>1. Init => Reasons
  BY SessionsAssumption DEF Init, Reasons, Untold, Ready
<1>2. Types /\ Reasons /\ [Next]_vars => Reasons'
  BY ReasonsStep
<1>3. Types /\ Heeded /\ Reasons /\ [Next]_vars =>
        [seen' # seen => \A p \in atApp \ atApp' : p[1] \in ended \/ p[2] \in changed]_vars
  <2> SUFFICES ASSUME Types, Heeded, Reasons, [Next]_vars, seen' # seen, NEW p \in atApp \ atApp'
               PROVE  p[1] \in ended \/ p[2] \in changed
    OBVIOUS
  <2>1. \E t \in wire : Arrive(t)
    <3>1. Browsing => seen' = seen \/ \E t \in wire : Arrive(t)
      BY DEF Browsing, SignIn, Authorize, Save, RowFind, RowCreate, Redeem, Leave, network
    <3>2. \A h \in Handlers : Ending(h) => seen' = seen
      BY DEF Ending, RevokeAll, TakeOut, EndOne, network
    <3>3. \A h \in Handlers : Handling(h) => seen' = seen
      BY DEF Handling, Tell, Told, Destroy, Mark, Tokens, network
    <3>4. \A h \in Handlers, s \in Subjects, c \in Apps : Delivering(h, s, c) => seen' = seen
      BY DEF Delivering, Post, Answered, Unanswered, Refused, network
    <3>5. Crash \/ UNCHANGED vars => seen' = seen
      BY DEF Crash, vars, network
    <3> QED BY <3>1, <3>2, <3>3, <3>4, <3>5 DEF Next
  <2>2. PICK t \in wire : t.app = p[2] /\ t.sid \in {p[1], Person}
    BY <2>1 DEF Arrive, Ended
  <2>3. p[1] \in Sids /\ Person \notin Sids
    BY SessionsAssumption DEF Types
  <2> QED BY <2>2, <2>3 DEF Reasons, Reason
<1>4. Init => Heeded
  BY SessionsAssumption DEF Init, Heeded, Untold
<1>5. Types /\ Heeded /\ [Next]_vars => Heeded'
  BY HeededStep
<1> QED BY <1>1, <1>2, <1>3, <1>4, <1>5, TypesAlways, PTL DEF Spec, EndsOnlyWhatWasEnded

-----------------------------------------------------------------------------
(* Every step is one of Telling's. *)

LEMMA OnceStep ==
    ASSUME Types, Once, [Next]_vars PROVE Once'
<1>0. \A h \in Handlers : ctl[h] \in Handler
  BY DEF Types
<1>1. CASE UNCHANGED <<ctl, notice>>
  BY <1>1 DEF Once
<1>2. ASSUME NEW h \in Handlers, NEW s \in Subjects, NEW c \in Apps, Delivering(h, s, c)
      PROVE  Once'
  <2>1. ctl' = ctl
    BY <1>2 DEF Delivering, Post, Answered, Unanswered, Refused
  <2>2. notice[h][s][c].st # "none" /\ \E st, tries : NoticeBecomes(h, s, c, st, tries)
    BY <1>2, Deliveries
  <2>3. ASSUME NEW h2 \in Handlers, NEW s2 \in Subjects, NEW c2 \in Apps, notice[h2][s2][c2].st = "none"
        PROVE  notice'[h2][s2][c2] = notice[h2][s2][c2]
    BY <2>2, <2>3 DEF NoticeBecomes, Types
  <2> QED BY <2>1, <2>3 DEF Once
<1>3. ASSUME NEW h \in Handlers, NEW op, NEW rows, ctl[h].pc = "ready",
             ctl' = [ctl EXCEPT ![h] = EndingRows(op, rows)], notice' = notice
      PROVE  Once'
  <2>1. \A g \in Handlers : g # h => ctl'[g] = ctl[g]
    BY <1>3 DEF Types
  <2> QED BY <1>3, <2>1 DEF Once
<1>4. ASSUME NEW h \in Handlers, TakeOut(h) PROVE Once'
  <2>1. PICK c \in Apps :
          /\ ctl' = [ctl EXCEPT ![h] = [pc |-> "tell", op |-> "grant", rows |-> {}, todo |-> {},
                                       cur |-> Person, app |-> c]]
          /\ Begins(h, Person, {c}, "grant")
    BY <1>4 DEF TakeOut, Begins
  <2>2. ctl'[h].pc = "tell" /\ ctl'[h].todo = {} /\ \A g \in Handlers : g # h => ctl'[g] = ctl[g]
    BY <2>1 DEF Types
  <2>3. \A g \in Handlers, s \in Subjects, c2 \in Apps : g # h => notice'[g][s][c2] = notice[g][s][c2]
    BY <2>1 DEF Begins, Types
  <2> QED BY <2>2, <2>3 DEF Once
<1>5. ASSUME NEW h \in Handlers, Tell(h) PROVE Once'
  <2>1. PICK s \in ctl[h].todo :
          /\ ctl' = [ctl EXCEPT ![h].pc = "tell", ![h].cur = s, ![h].todo = @ \ {s}]
          /\ \/ Begins(h, s, session[s].apps, ctl[h].op)
             \/ notice' = notice
    BY <1>5 DEF Tell, Begins
  <2>2. s \in Subjects
    BY <1>0 DEF Handler, Subjects
  <2>3. ctl'[h] = [[[ctl[h] EXCEPT !.pc = "tell"] EXCEPT !.cur = s] EXCEPT !.todo = @ \ {s}]
    BY <2>1 DEF Types
  <2>4. ctl'[h].pc = "tell" /\ ctl'[h].todo = ctl[h].todo \ {s}
    BY <1>0, <2>3 DEF Handler
  <2>5. \A g \in Handlers : g # h => ctl'[g] = ctl[g]
    BY <2>1 DEF Types
  <2>6. \A g \in Handlers, s2 \in Subjects, c \in Apps :
          g # h \/ s2 # s => notice'[g][s2][c] = notice[g][s2][c]
    <3>1. CASE Begins(h, s, session[s].apps, ctl[h].op)
      BY <2>2, <3>1, BegunNotices
    <3>2. CASE notice' = notice
      BY <3>2
    <3> QED BY <2>1, <3>1, <3>2
  <2> QED BY <2>4, <2>5, <2>6 DEF Once
<1>6. ASSUME NEW h \in Handlers, Told(h) \/ Destroy(h) \/ Mark(h) \/ Tokens(h) PROVE Once'
  <2>1. notice' = notice
    BY <1>6 DEF Told, Destroy, Mark, Tokens
  <2>2. PICK pc \in {"tokens", "destroy", "next", "done"} : ctl' = [ctl EXCEPT ![h].pc = pc]
    BY <1>6 DEF Told, Destroy, Mark, Tokens, To
  <2>3. \A g \in Handlers : ctl'[g].todo = ctl[g].todo /\ (ctl'[g].pc = "ready" => ctl[g].pc = "ready")
    BY <1>0, <2>2 DEF Types, Handler
  <2> QED BY <2>1, <2>3 DEF Once
<1>7. CASE Crash
  <2>1. \A g \in Handlers : ctl'[g].todo = ctl[g].todo /\ (ctl'[g].pc = "ready" => ctl[g].pc = "ready")
    BY <1>0, <1>7 DEF Crash, Handler
  <2>2. \A h \in Handlers, s \in Subjects, c \in Apps :
          notice[h][s][c].st = "none" => notice'[h][s][c] = notice[h][s][c]
    BY <1>7 DEF Crash
  <2> QED BY <2>1, <2>2 DEF Once
<1>8. CASE Browsing
  BY <1>1, <1>8 DEF Browsing, SignIn, Authorize, Save, RowFind, RowCreate, Redeem, Leave, Arrive,
         stores, network, histories
<1>9. ASSUME NEW h \in Handlers, RevokeAll(h) PROVE Once'
  BY <1>3, <1>9 DEF RevokeAll
<1>10. ASSUME NEW h \in Handlers, NEW op, EndOne(h, op) PROVE Once'
  BY <1>3, <1>10 DEF EndOne
<1>11. CASE UNCHANGED vars
  BY <1>1, <1>11 DEF vars
<1> QED BY <1>2, <1>4, <1>5, <1>6, <1>7, <1>8, <1>9, <1>10, <1>11 DEF Next, Ending, Handling

Errand == Handlers \X Subjects \X Apps

\* One notice changes, or none does.
OneChanges(h, s, c, st) ==
    /\ notice'[h][s][c].st = st
    /\ \A h2 \in Handlers, s2 \in Subjects, c2 \in Apps :
         <<h2, s2, c2>> # <<h, s, c>> => notice'[h2][s2][c2].st = notice[h2][s2][c2].st

Opens ==
    \A h \in Handlers, s \in Subjects, c \in Apps :
      \/ notice'[h][s][c].st = notice[h][s][c].st
      \/ notice[h][s][c].st = "none" /\ notice'[h][s][c].st \in {"due", "slow"}

LEMMA OpensOwes == Opens => Promise!Owe
<1>1. \A e \in Errand : e[1] \in Handlers /\ e[2] \in Subjects /\ e[3] \in Apps
  BY DEF Errand
<1> SUFFICES ASSUME Opens PROVE Promise!Owe
  OBVIOUS
<1>2. InState({"told"})' = InState({"told"})
  BY <1>1 DEF Opens, InState, Errand
<1>3. InState({"due", "posted"}) \subseteq InState({"due", "posted"})'
  BY <1>1 DEF Opens, InState, Errand
<1>4. InState({"failed", "slow"}) \subseteq InState({"failed", "slow"})'
  BY <1>1 DEF Opens, InState, Errand
<1>5. \A e \in InState({"due", "posted"})' \ InState({"due", "posted"}) :
        e \in Errand /\ notice[e[1]][e[2]][e[3]].st = "none" /\ notice'[e[1]][e[2]][e[3]].st = "due"
  BY <1>1 DEF Opens, InState, Errand
<1>6. \A e \in InState({"failed", "slow"})' \ InState({"failed", "slow"}) :
        e \in Errand /\ notice[e[1]][e[2]][e[3]].st = "none" /\ notice'[e[1]][e[2]][e[3]].st = "slow"
  BY <1>1 DEF Opens, InState, Errand
<1> QED BY <1>2, <1>3, <1>4, <1>5, <1>6 DEF Promise!Owe, InState, Errand

LEMMA OneMaps ==
    ASSUME NEW h \in Handlers, NEW s \in Subjects, NEW c \in Apps, NEW st,
           OneChanges(h, s, c, st)
    PROVE  LET e == <<h, s, c>> IN
           /\ notice[h][s][c].st = "due" /\ st = "posted" => UNCHANGED Promise!tellings
           /\ notice[h][s][c].st = "posted" /\ st = "due" => UNCHANGED Promise!tellings
           /\ notice[h][s][c].st = "posted" /\ st = "told" => Promise!Tell(e)
           /\ notice[h][s][c].st \in {"due", "posted"} /\ st = "failed" => Promise!GiveUp(e)
<1> DEFINE e == <<h, s, c>>
<1>1. e \in Errand /\ e[1] = h /\ e[2] = s /\ e[3] = c
  BY DEF Errand
<1>2. ASSUME NEW S
      PROVE  InState(S)' = IF st \in S THEN InState(S) \cup {e} ELSE InState(S) \ {e}
  <2>1. ASSUME NEW f \in Errand
        PROVE  f \in InState(S)' <=> IF f = e THEN st \in S ELSE f \in InState(S)
    <3>1. f = <<f[1], f[2], f[3]>> /\ f[1] \in Handlers /\ f[2] \in Subjects /\ f[3] \in Apps
      BY DEF Errand
    <3>2. f \in InState(S)' <=> notice'[f[1]][f[2]][f[3]].st \in S
      BY <2>1 DEF InState, Errand
    <3>3. f \in InState(S) <=> notice[f[1]][f[2]][f[3]].st \in S
      BY <2>1 DEF InState, Errand
    <3>4. CASE f = e
      BY <1>1, <3>2, <3>4 DEF OneChanges
    <3>5. CASE f # e
      BY <3>1, <3>2, <3>3, <3>5 DEF OneChanges
    <3> QED BY <3>4, <3>5
  <2>2. InState(S) \subseteq Errand /\ InState(S)' \subseteq Errand
    BY DEF InState, Errand
  <2> QED BY <1>1, <2>1, <2>2
<1>3. ASSUME NEW S PROVE e \in InState(S) <=> notice[h][s][c].st \in S
  BY <1>1 DEF InState, Errand
<1> HIDE DEF e
<1>4. ASSUME notice[h][s][c].st = "due", st = "posted" PROVE UNCHANGED Promise!tellings
  BY <1>2, <1>3, <1>4 DEF Promise!tellings
<1>5. ASSUME notice[h][s][c].st = "posted", st = "due" PROVE UNCHANGED Promise!tellings
  BY <1>2, <1>3, <1>5 DEF Promise!tellings
<1>6. ASSUME notice[h][s][c].st = "posted", st = "told" PROVE Promise!Tell(e)
  <2>1. InState({"due", "posted"})' = InState({"due", "posted"}) \ {e}
    BY <1>2, <1>6
  <2>2. InState({"told"})' = InState({"told"}) \cup {e}
    BY <1>2, <1>6
  <2>3. InState({"failed", "slow"})' = InState({"failed", "slow"}) \ {e}
    BY <1>2, <1>6
  <2>4. e \in InState({"due", "posted"}) /\ e \notin InState({"failed", "slow"})
    BY <1>3, <1>6
  <2>5. InState({"failed", "slow"})' = InState({"failed", "slow"})
    BY <2>3, <2>4
  <2> QED BY <2>1, <2>2, <2>4, <2>5 DEF Promise!Tell
<1>7. ASSUME notice[h][s][c].st \in {"due", "posted"}, st = "failed" PROVE Promise!GiveUp(e)
  <2>1. InState({"due", "posted"})' = InState({"due", "posted"}) \ {e}
    BY <1>2, <1>7
  <2>2. InState({"told"})' = InState({"told"}) \ {e}
    BY <1>2, <1>7
  <2>3. InState({"failed", "slow"})' = InState({"failed", "slow"}) \cup {e}
    BY <1>2, <1>7
  <2>4. e \in InState({"due", "posted"}) /\ e \notin InState({"told"})
    BY <1>3, <1>7
  <2>5. InState({"told"})' = InState({"told"})
    BY <2>2, <2>4
  <2> QED BY <2>1, <2>3, <2>4, <2>5 DEF Promise!GiveUp
<1> QED BY <1>4, <1>5, <1>6, <1>7 DEF e

LEMMA TellingStep ==
    ASSUME Types, Once, [Next]_vars PROVE [Promise!Next]_(Promise!tellings)
<1>1. CASE Opens
  BY <1>1, OpensOwes DEF Promise!Next
<1>2. ASSUME NEW h \in Handlers, NEW s \in Subjects, NEW c \in Apps, Delivering(h, s, c)
      PROVE  [Promise!Next]_(Promise!tellings)
  <2>1. ASSUME NEW st, NEW tries, NoticeBecomes(h, s, c, st, tries) PROVE OneChanges(h, s, c, st)
    BY <2>1 DEF NoticeBecomes, OneChanges, Types
  <2>2. <<h, s, c>> \in Handlers \X Subjects \X Apps
    OBVIOUS
  <2>3. \/ notice[h][s][c].st = "due" /\ OneChanges(h, s, c, "posted")
        \/ notice[h][s][c].st = "posted" /\ OneChanges(h, s, c, "told")
        \/ notice[h][s][c].st = "posted" /\ OneChanges(h, s, c, "due")
        \/ notice[h][s][c].st \in {"due", "posted"} /\ OneChanges(h, s, c, "failed")
    BY <1>2, <2>1, Deliveries
  <2> QED BY <2>2, <2>3, OneMaps DEF Promise!Next
<1>3. ASSUME NEW h \in Handlers, TakeOut(h) PROVE Opens
  <2>1. PICK c \in Apps : Begins(h, Person, {c}, "grant")
    BY <1>3 DEF TakeOut, Begins
  <2>2. Person \in Subjects /\ ctl[h].pc = "ready"
    BY <1>3 DEF Subjects, TakeOut
  <2> QED BY <2>1, <2>2, BegunNotices DEF Opens, Once
<1>4. ASSUME NEW h \in Handlers, Tell(h) PROVE Opens
  <2>1. PICK s \in ctl[h].todo : \/ Begins(h, s, session[s].apps, ctl[h].op)
                                 \/ notice' = notice
    BY <1>4 DEF Tell, Begins
  <2>2. s \in Subjects
    BY DEF Types, Handler, Subjects
  <2>3. CASE Begins(h, s, session[s].apps, ctl[h].op)
    BY <2>2, <2>3, BegunNotices DEF Opens, Once
  <2>4. CASE notice' = notice
    BY <2>4 DEF Opens
  <2> QED BY <2>1, <2>3, <2>4
<1>5. CASE notice' = notice
  BY <1>1, <1>5 DEF Opens
<1>6. CASE Crash
  <2>1. ASSUME NEW h \in Handlers, NEW s \in Subjects, NEW c \in Apps
        PROVE  notice'[h][s][c].st = IF notice[h][s][c].st \in {"due", "posted"} THEN "lost"
                                     ELSE notice[h][s][c].st
    <3>1. notice[h][s][c] \in Notice
      BY DEF Types
    <3>2. notice'[h][s][c] = IF notice[h][s][c].st \in {"due", "posted"}
                             THEN [notice[h][s][c] EXCEPT !.st = "lost"] ELSE notice[h][s][c]
      BY <1>6 DEF Crash
    <3> QED BY <3>1, <3>2 DEF Notice
  <2>2. \A e \in Errand : e[1] \in Handlers /\ e[2] \in Subjects /\ e[3] \in Apps
    BY DEF Errand
  <2>3. /\ InState({"due", "posted"})' = {}
        /\ InState({"told"})' = InState({"told"})
        /\ InState({"failed", "slow"})' = InState({"failed", "slow"})
    BY <2>1, <2>2 DEF InState, Errand
  <2> QED BY <2>3 DEF Promise!Next, Promise!Stop
<1>7. CASE Browsing
  BY <1>5, <1>7 DEF Browsing, SignIn, Authorize, Save, RowFind, RowCreate, Redeem, Leave, Arrive
<1>8. ASSUME NEW h \in Handlers, Ending(h) \/ Handling(h) PROVE Opens \/ notice' = notice
  BY <1>3, <1>4, <1>8 DEF Ending, Handling, RevokeAll, EndOne, Told, Destroy, Mark, Tokens
<1>9. CASE UNCHANGED vars
  BY <1>5, <1>9 DEF vars
<1> QED BY <1>1, <1>2, <1>5, <1>6, <1>7, <1>8, <1>9 DEF Next

\* The safety part of EveryErrandEnds (oidc/backchannel.ts): an app owed the news leaves the
\* errands only by being told, by being recorded as not told, or with the process; nobody
\* is told twice of one errand, and none recorded as not told is told after all.
THEOREM ErrandsStayTold == Spec => Promise!Safety
<1>1. Init => Once
  BY DEF Init, Once, Untold
<1>2. Types /\ Once /\ [Next]_vars => Once'
  BY OnceStep
<1>3. Init => Promise!Init
  <2>1. \A e \in Errand : e[1] \in Handlers /\ e[2] \in Subjects /\ e[3] \in Apps
    BY DEF Errand
  <2> QED BY <2>1 DEF Init, Promise!Init, InState, Untold, Errand
<1>4. Types /\ Once /\ [Next]_vars => [Promise!Next]_(Promise!tellings)
  BY TellingStep
<1> QED BY <1>1, <1>2, <1>3, <1>4, TypesAlways, PTL DEF Spec, Promise!Safety

=============================================================================
