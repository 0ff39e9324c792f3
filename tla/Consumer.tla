------------------------------ MODULE Consumer ------------------------------
(***************************************************************************)
(* An app that signs people in with D3 Auth: the client of                 *)
(* packages/auth-client (and its Python twin) as the example app uses it.  *)
(* A sign-in starts in a browser, is answered by the provider with a       *)
(* callback URL, and is finished by whichever browser opens that URL; the  *)
(* app keeps accounts of its own, which may be linked to a person, and     *)
(* sessions of its own, which a logout token ends.  Both kinds of token    *)
(* are checked against keys the app has cached (KeySet, and jose's set).   *)
(*                                                                         *)
(* A callback is cut at its awaits: the exchange of the code, and the rest.*)
(* Left out: the provider's own sessions and how logout tokens come to be  *)
(* sent (Sessions), promoting a key before its wait is over (SigningKeys), *)
(* roles, refreshing (Access), and every claim but the ones named here.    *)
(***************************************************************************)
EXTENDS Integers, FiniteSets, Sequences

CONSTANTS
    Browsers, People, None,
    COOLDOWN,    \* DEFAULT_MIN_REFETCH_SECONDS, and jose's cooldown
    MAX_AGE,     \* DEFAULT_MAX_AGE_SECONDS of a logout token
    SEEN,        \* how many events are remembered
    MaxTime,     \* bound: instants
    MaxStarts,   \* bound: sign-ins begun
    MaxTokens,   \* bound: logout tokens
    MaxKeys      \* bound: keys published

ASSUME ConsumerAssumption ==
    /\ None \notin People \cup Browsers
    /\ {COOLDOWN, MAX_AGE, SEEN, MaxTime, MaxStarts, MaxTokens, MaxKeys} \subseteq Nat

VARIABLES
    now,
    key,       \* the provider's keys: those from oldest to newest are published
    there,     \* browser -> the provider's session there: who, and its sid
    starts,    \* sign-ins begun: each has a state, a nonce and a verifier of its own
    asking,    \* <<browser, start>>: at the provider
    url,       \* callback URLs
    used,      \* codes exchanged
    cookie,    \* browser -> the app's cookies
    pending,   \* started, not come back
    accounts,  \* in the order they were made; the first is the local owner
    sessions,
    callback,  \* browser -> the callback it opened
    cache,     \* use -> the keys held
    wire,      \* logout tokens on their way
    sent,      \* how many there have been
    seen,      \* the events remembered, oldest first
    begun,     \* history: start -> the account its browser was signed in to
    refused    \* history: tokens of the provider's that did not verify

app == <<cookie, pending, accounts, sessions>>
provider == <<key, there, asking, url, used>>
vars == <<now, provider, starts, app, callback, cache, wire, sent, seen, begun, refused>>

Starts == 1..MaxStarts
Owner == 1

-----------------------------------------------------------------------------

\* The browser is signed in to this account of the app; 0 is none (sessionOf).
SignedInTo(b) ==
    LET mine == {s \in sessions : s.id = cookie[b].session /\ s.by = b}
    IN  IF mine = {} THEN 0 ELSE (CHOOSE s \in mine : TRUE).account

Idle == [pc |-> "idle"]
NoCookie == -1
Unfetched == [from |-> 0, upto |-> 0, at |-> 0]

Init ==
    /\ now = 0
    /\ key = [oldest |-> 1, signing |-> 1, newest |-> 1, at |-> 0]
    /\ there = [b \in Browsers |-> [who |-> None, sid |-> 0]]
    /\ starts = 0 /\ asking = {} /\ url = {} /\ used = {}
    /\ cookie = [b \in Browsers |-> [tx |-> 0, session |-> NoCookie]]
    /\ pending = {} /\ accounts = <<None>> /\ sessions = {}
    /\ callback = [b \in Browsers |-> Idle]
    /\ cache = [use \in {"signin", "logout"} |-> Unfetched]
    /\ wire = {} /\ sent = 0 /\ seen = <<>>
    /\ begun = [n \in Starts |-> 0] /\ refused = {}

\* Bound: the clock runs, and keys change, while there is one sign-in at most; two
\* overlap while neither has moved.
Calm == starts <= 1
Young == starts = 0 \/ (now = 0 /\ key.newest = 1)

Tick ==
    /\ now < MaxTime /\ Calm
    /\ now' = now + 1
    /\ UNCHANGED <<provider, starts, app, callback, cache, wire, sent, seen, begun, refused>>

-----------------------------------------------------------------------------
(* The provider, as an app sees it. *)

\* A key is published before it signs, and withdrawn when what it signed is dead.
Publish ==
    /\ key.newest = key.signing /\ key.newest < MaxKeys
    /\ key' = [key EXCEPT !.newest = @ + 1, !.at = now]

Promote ==
    /\ key.newest > key.signing /\ now - key.at >= COOLDOWN
    /\ key' = [key EXCEPT !.signing = @ + 1, !.at = now]

Withdraw ==
    /\ key.oldest < key.signing /\ key.newest = key.signing /\ now - key.at > MAX_AGE
    /\ key' = [key EXCEPT !.oldest = @ + 1]

Rotate ==
    /\ Calm
    /\ Publish \/ Promote \/ Withdraw
    /\ UNCHANGED <<now, there, asking, url, used, starts, app, callback, cache, wire, sent, seen, begun, refused>>

\* The person at this browser, who may be another one than last time, is sent back.
Answer(b, n, p) ==
    /\ <<b, n>> \in asking
    /\ asking' = asking \ {<<b, n>>}
    /\ there' = [there EXCEPT ![b] = IF @.who = p THEN @ ELSE [who |-> p, sid |-> n]]
    /\ url' = url \cup {[start |-> n, who |-> p, by |-> b, sid |-> there'[b].sid]}
    /\ UNCHANGED <<now, key, used, starts, app, callback, cache, wire, sent, seen, begun, refused>>

\* A logout token about what was signed in from this URL.
Post(u) ==
    /\ u \in url /\ sent < MaxTokens
    /\ sent' = sent + 1
    /\ wire' = wire \cup {[jti |-> sent + 1, sid |-> u.sid, kid |-> key.signing, iat |-> now]}
    /\ UNCHANGED <<now, provider, starts, app, callback, cache, seen, begun, refused>>

-----------------------------------------------------------------------------
(* Keys. *)

Fetched == [from |-> key.oldest, upto |-> key.newest, at |-> now]
Holds(keys, kid) == kid \in keys.from..keys.upto

\* Fetched when there are none, and otherwise not twice within the cooldown.
RefreshIfStale(use) ==
    IF cache[use] # Unfetched /\ now - cache[use].at < COOLDOWN THEN cache[use] ELSE Fetched

\* A mutant: a plain cache.
KeysOnce(use, kid) == IF cache[use] # Unfetched THEN cache[use] ELSE Fetched

\* Refetched once when a token names a key this set has never seen.
Keys(use, kid) == IF Holds(cache[use], kid) THEN cache[use] ELSE RefreshIfStale(use)

-----------------------------------------------------------------------------
(* Signing in. *)

StartSession(b, session) ==
    /\ sessions' = sessions \cup {session}
    /\ cookie' = [cookie EXCEPT ![b].session = session.id]

\* The app's own password; it is the owner who has one here.
LocalLogin(b) ==
    /\ StartSession(b, [id |-> 0, account |-> Owner, who |-> None, by |-> b, sid |-> 0])
    /\ UNCHANGED <<now, provider, starts, pending, accounts, callback, cache, wire, sent, seen, begun, refused>>

\* A state, a nonce and a verifier nobody has used.
SignInStart(n, link) == [tx |-> n, start |-> n, link |-> link]

\* beginSignIn, remembered under a cookie of this browser; to connect, with the
\* account it is signed in to.
Login(b, connect) ==
    LET n == starts + 1
        link == IF connect THEN SignedInTo(b) ELSE 0
    IN  /\ starts < MaxStarts /\ Young
        /\ starts' = n
        /\ pending' = pending \cup {SignInStart(n, link)}
        /\ cookie' = [cookie EXCEPT ![b].tx = n]
        /\ asking' = asking \cup {<<b, n>>}
        /\ begun' = [begun EXCEPT ![n] = SignedInTo(b)]
        /\ UNCHANGED <<now, key, there, url, used, accounts, sessions, callback, cache, wire, sent, seen, refused>>

\* A mutant: what was started is found by the state of the URL.
StartedByState(b, u) == {p \in pending : p.start = u.start}

\* What this browser started.
Started(b, u) == {p \in pending : p.tx = cookie[b].tx}

\* The same state, and a code of this provider's.
Answers(u, start) == u.start = start.start

\* Whatever comes back, the browser's sign-in is over; it goes on if the URL
\* answers it.
Callback(b, u) ==
    /\ callback[b] = Idle /\ u \in url
    /\ pending' = pending \ Started(b, u)
    /\ cookie' = [cookie EXCEPT ![b].tx = 0]
    /\ LET ours == {p \in Started(b, u) : Answers(u, p)}
       IN  callback' = [callback EXCEPT ![b] =
               IF ours = {} THEN Idle
               ELSE [pc |-> "exchange", u |-> u, link |-> (CHOOSE p \in ours : TRUE).link]]
    /\ UNCHANGED <<now, provider, starts, accounts, sessions, cache, wire, sent, seen, begun, refused>>

Redeemable(u) == u.start \notin used

\* The code is good once, and with the verifier of its sign-in; or the provider
\* cannot be reached.
Exchange(b) ==
    LET c == callback[b]
    IN  /\ c.pc = "exchange"
        /\ \/ /\ Redeemable(c.u)
              /\ used' = used \cup {c.u.start}
              /\ callback' = [callback EXCEPT ![b] = [pc |-> "verify", u |-> c.u, link |-> c.link,
                                                             kid |-> key.signing, iat |-> now]]
           \/ /\ UNCHANGED used
              /\ callback' = [callback EXCEPT ![b] = Idle]
        /\ UNCHANGED <<now, key, there, asking, url, starts, app, cache, wire, sent, seen, begun, refused>>

\* Linking attaches the person to the account that asked.
Linked(link, who) == IF link = 0 THEN accounts ELSE [accounts EXCEPT ![link] = who]

\* The first account that has this person, or a new one.
Provisioned(known, who) ==
    IF \E a \in DOMAIN known : known[a] = who THEN known ELSE Append(known, who)

AccountOf(known, who) == CHOOSE a \in DOMAIN known : known[a] = who /\ \A o \in 1..a - 1 : known[o] # who

SessionFrom(b, u, known) ==
    [id |-> u.start, account |-> AccountOf(known, u.who), who |-> u.who, by |-> b, sid |-> u.sid]

\* A mutant: the account that is signed in when the answer comes.
FinishLate(b) ==
    LET c == callback[b]
        keys == Keys("signin", c.kid)
        link == IF c.link = 0 THEN 0 ELSE SignedInTo(b)
        known == Provisioned(Linked(link, c.u.who), c.u.who)
    IN  /\ c.pc = "verify"
        /\ cache' = [cache EXCEPT !["signin"] = keys]
        /\ callback' = [callback EXCEPT ![b] = Idle]
        /\ accounts' = known
        /\ StartSession(b, SessionFrom(b, c.u, known))
        /\ UNCHANGED <<now, provider, starts, pending, wire, sent, seen, begun, refused>>

\* sessionFrom, and the rest of the callback.
Finish(b) ==
    LET c == callback[b]
        keys == Keys("signin", c.kid)
        known == Provisioned(Linked(c.link, c.u.who), c.u.who)
    IN  /\ c.pc = "verify"
        /\ cache' = [cache EXCEPT !["signin"] = keys]
        /\ callback' = [callback EXCEPT ![b] = Idle]
        /\ IF Holds(keys, c.kid)
           THEN /\ accounts' = known
                /\ StartSession(b, SessionFrom(b, c.u, known))
                /\ UNCHANGED refused
           ELSE /\ UNCHANGED <<accounts, sessions, cookie>>
                /\ refused' = refused \cup {[iat |-> c.iat, at |-> now]}
        /\ UNCHANGED <<now, provider, starts, pending, wire, sent, seen, begun>>

\* With the account's own password, which the owner alone has.
Unlink(b) ==
    /\ SignedInTo(b) = Owner /\ accounts[Owner] # None
    /\ accounts' = [accounts EXCEPT ![Owner] = None]
    /\ UNCHANGED <<now, provider, starts, cookie, pending, sessions, callback, cache, wire, sent, seen, begun, refused>>

\* At the app; the provider is another place to be sent to.
Logout(b) ==
    /\ SignedInTo(b) # 0
    /\ sessions' = {s \in sessions : ~(s.id = cookie[b].session /\ s.by = b)}
    /\ cookie' = [cookie EXCEPT ![b].session = NoCookie]
    /\ UNCHANGED <<now, provider, starts, pending, accounts, callback, cache, wire, sent, seen, begun, refused>>

-----------------------------------------------------------------------------
(* Logout tokens. *)

TooOld(t) == now - t.iat > MAX_AGE

\* The newest events are remembered.
Remember(jti) == IF Len(seen) < SEEN THEN Append(seen, jti) ELSE Append(Tail(seen), jti)

\* Every session of that sign-in.
EndSession(t) == {s \in sessions : s.sid # t.sid}

\* Verified, applied once while it is remembered; what carried it may repeat it.
Hear(t) ==
    LET keys == Keys("logout", t.kid)
    IN  /\ t \in wire
        /\ wire' \in {wire, wire \ {t}}
        /\ cache' = [cache EXCEPT !["logout"] = keys]
        /\ IF ~Holds(keys, t.kid) \/ TooOld(t)
           THEN /\ UNCHANGED <<sessions, seen>>
                /\ refused' = IF Holds(keys, t.kid) THEN refused ELSE refused \cup {[iat |-> t.iat, at |-> now]}
           ELSE /\ UNCHANGED refused
                /\ IF \E i \in DOMAIN seen : seen[i] = t.jti
                   THEN UNCHANGED <<sessions, seen>>
                   ELSE sessions' = EndSession(t) /\ seen' = Remember(t.jti)
        /\ UNCHANGED <<now, provider, starts, cookie, pending, accounts, callback, sent, begun>>

\* A token that is not the provider's, or not for this app: it costs a fetch at most.
Stray(kid) ==
    /\ kid \in 0..MaxKeys
    /\ cache' = [cache EXCEPT !["logout"] = IF Holds(cache["logout"], kid) THEN RefreshIfStale("logout")
                                            ELSE Keys("logout", kid)]
    /\ UNCHANGED <<now, provider, starts, app, callback, wire, sent, seen, begun, refused>>

-----------------------------------------------------------------------------

Browsing(b) ==
    \/ LocalLogin(b) \/ Unlink(b) \/ Logout(b)
    \/ \E connect \in BOOLEAN : Login(b, connect)
    \/ \E u \in url : Callback(b, u)
    \/ Exchange(b) \/ Finish(b)
    \/ \E n \in Starts, p \in People : Answer(b, n, p)

Next ==
    \/ Tick \/ Rotate
    \/ \E b \in Browsers : Browsing(b)
    \/ \E u \in url : Post(u)
    \/ \E t \in wire : Hear(t)
    \/ \E kid \in 0..MaxKeys : Stray(kid)

Spec == Init /\ [][Next]_vars

-----------------------------------------------------------------------------
(* Properties. *)

\* "A callback is only accepted from that browser" (examples/express): a session is
\* of the person who signed in at the provider in that very browser, and of an
\* account some sign-in made or connected for them.
OwnSignIn ==
    \A s \in sessions : s.who # None =>
        \E u \in url : u.start = s.id /\ u.who = s.who /\ u.by = s.by

\* "The account to attach this identity to is the one already signed in here"
\* (examples/express): the owner's account is connected to a person only by a sign-in
\* that began where the owner was signed in.
ConnectedByItself ==
    accounts[Owner] # None =>
        \E u \in url : u.who = accounts[Owner] /\ begun[u.start] = Owner

\* KeySet.keys (logout_token.py), against "a plain cache, which is what it was": as
\* long as a key is published for the cooldown before it signs, no token of the
\* provider's, whichever it names, fails to verify before it is too old.
GenuineVerifies == \A t \in refused : t.at - t.iat > MAX_AGE

=============================================================================
