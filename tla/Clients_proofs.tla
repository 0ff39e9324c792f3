--------------------------- MODULE Clients_proofs ---------------------------
(***************************************************************************)
(* What holds of the two clients of the server, for any number of requests *)
(* on their way and answers in any order: an app that signs people in      *)
(* through the library (Consumer), and a page of the console (Console).    *)
(*                                                                         *)
(* The app.  A session is of who signed in in that very browser, an        *)
(* account is connected only by a sign-in of its own, and nothing the      *)
(* provider signed fails to verify.  The first two rest on one fact: a     *)
(* cookie names a sign-in that no other browser has asked for, so a URL    *)
(* that answers it came back to where it set out.  The third is            *)
(* arithmetic: a key waits COOLDOWN before it signs, which is as long as a *)
(* cache may be too old to have it, and MAX_AGE before it goes.            *)
(*                                                                         *)
(* The page.  It speaks of a click when the answer to one of its requests  *)
(* is in; an answer that says ok was written by the server when it had     *)
(* carried the request out.  A registration is sent from the draft that is *)
(* shown as previewed, is held with that draft, and is sent again with it: *)
(* so what a draft was previewed as must be known of every request, of the *)
(* click the prompt holds and of the one its proof was asked for.          *)
(***************************************************************************)
EXTENDS Consumer, Console, TLAPS


-----------------------------------------------------------------------------
(* Where a sign-in set out. *)

Numbers ==
    /\ starts \in 0..MaxStarts
    /\ DOMAIN cookie = Browsers /\ DOMAIN callback = Browsers /\ DOMAIN begun = Starts
    /\ \A b \in Browsers : cookie[b] = [tx |-> cookie[b].tx, session |-> cookie[b].session]
    /\ \A b \in Browsers : cookie[b].tx \in 0..starts

Asked == \A a \in asking :
    /\ a[1] \in Browsers /\ a[2] \in 1..starts
    /\ \A b \in Browsers : cookie[b].tx = a[2] => b = a[1]

IsUrl(u) == u = [start |-> u.start, who |-> u.who, by |-> u.by, sid |-> u.sid]

Urls == \A u \in url :
    /\ IsUrl(u) /\ u.start \in 1..starts /\ u.by \in Browsers /\ u.who \in People
    /\ \A b \in Browsers : cookie[b].tx = u.start => b = u.by

\* What was asked to be connected is the account that was signed in to then, or nothing.
LinkOf(link, n) == link = 0 \/ link = begun[n]

PendingOK == \A p \in pending :
    /\ p.tx = p.start /\ p.start \in 1..starts
    /\ LinkOf(p.link, p.start)

CallbackOK(b) == callback[b].pc # "idle" =>
    /\ callback[b].u \in url /\ callback[b].u.by = b
    /\ LinkOf(callback[b].link, callback[b].u.start)

CallbacksOK == \A b \in Browsers : CallbackOK(b)

AccountsOK == accounts \in Seq(People \cup {None}) /\ Len(accounts) > 0

Origin == Numbers /\ Asked /\ Urls /\ PendingOK /\ CallbacksOK

OInv == Origin /\ AccountsOK /\ OwnSignIn /\ ConnectedByItself

-----------------------------------------------------------------------------
(* Steps that begin no sign-in and finish none. *)

origin == <<starts, asking, url, pending, callback, begun>>

LEMMA OriginKept ==
    ASSUME Origin, UNCHANGED origin, DOMAIN cookie' = Browsers,
           \A b \in Browsers : /\ cookie'[b].tx = cookie[b].tx
                               /\ cookie'[b] = [tx |-> cookie'[b].tx, session |-> cookie'[b].session]
    PROVE  Origin'
<1>1. Numbers'
  BY DEF Origin, Numbers, origin
<1>2. Asked' /\ Urls'
  BY DEF Origin, Asked, Urls, IsUrl, origin
<1>3. PendingOK' /\ CallbacksOK'
  BY DEF Origin, PendingOK, CallbacksOK, CallbackOK, LinkOf, origin
<1> QED BY <1>1, <1>2, <1>3 DEF Origin

\* Fewer sessions, or one of the app's own password, and the owner's account as it was or apart.
LEMMA QuietKeeps ==
    ASSUME OInv, UNCHANGED <<starts, asking, url, pending, callback, begun>>,
           \A s \in sessions' : s \in sessions \/ s.who = None,
           \/ UNCHANGED cookie
           \/ \E id : \E b \in Browsers : cookie' = [cookie EXCEPT ![b].session = id],
           accounts' = accounts \/ accounts' = [accounts EXCEPT ![Owner] = None]
    PROVE  OInv'
<1>1. Origin'
  <2>1. /\ DOMAIN cookie' = Browsers
        /\ \A b \in Browsers :
             /\ cookie'[b].tx = cookie[b].tx
             /\ cookie'[b] = [tx |-> cookie'[b].tx, session |-> cookie'[b].session]
    BY DEF OInv, Origin, Numbers
  <2> QED BY <2>1, OriginKept DEF OInv, origin
<1>2. AccountsOK'
  BY DEF OInv, AccountsOK
<1>3. OwnSignIn'
  BY DEF OInv, OwnSignIn
<1>4. ConnectedByItself'
  BY DEF OInv, AccountsOK, ConnectedByItself, Owner
<1> QED BY <1>1, <1>2, <1>3, <1>4 DEF OInv

LEMMA Quiet ==
    ASSUME OInv,
           \/ Tick \/ Rotate \/ UNCHANGED vars
           \/ \E b \in Browsers : LocalLogin(b) \/ Unlink(b) \/ Logout(b)
           \/ \E u \in url : Post(u)
           \/ \E t \in wire : Hear(t)
           \/ \E kid \in 0..MaxKeys : Stray(kid)
    PROVE  OInv'
<1>1. CASE Tick \/ Rotate \/ UNCHANGED vars \/ (\E u \in url : Post(u))
           \/ \E kid \in 0..MaxKeys : Stray(kid)
  <2>1. UNCHANGED <<starts, asking, url, pending, callback, begun, sessions, cookie, accounts>>
    BY <1>1 DEF Tick, Rotate, Post, Stray, vars, app, provider
  <2> QED BY <2>1, QuietKeeps
<1>2. ASSUME NEW b \in Browsers, LocalLogin(b) \/ Unlink(b) \/ Logout(b) PROVE OInv'
  <2>1. UNCHANGED <<starts, asking, url, pending, callback, begun>>
    BY <1>2 DEF LocalLogin, Unlink, Logout, app, provider
  <2>2. \A s \in sessions' : s \in sessions \/ s.who = None
    BY <1>2 DEF LocalLogin, StartSession, Unlink, Logout
  <2>3. UNCHANGED cookie \/ \E id : cookie' = [cookie EXCEPT ![b].session = id]
    BY <1>2 DEF LocalLogin, StartSession, Unlink, Logout
  <2>4. accounts' = accounts \/ accounts' = [accounts EXCEPT ![Owner] = None]
    BY <1>2 DEF LocalLogin, Unlink, Logout
  <2> QED BY <2>1, <2>2, <2>3, <2>4, QuietKeeps
<1>3. ASSUME NEW t \in wire, Hear(t) PROVE OInv'
  <2>1. UNCHANGED <<starts, asking, url, pending, callback, begun, cookie, accounts>>
    BY <1>3 DEF Hear, provider
  <2>2. sessions' \subseteq sessions
    BY <1>3 DEF Hear, EndSession
  <2> QED BY <2>1, <2>2, QuietKeeps
<1> QED BY <1>1, <1>2, <1>3

-----------------------------------------------------------------------------
(* A sign-in sets out, is answered, and comes back. *)

\* The number of a new sign-in is nobody's: no cookie, URL or callback has it.
LEMMA LoginKeeps ==
    ASSUME OInv, NEW b \in Browsers, NEW connect \in BOOLEAN, Login(b, connect)
    PROVE  OInv'
<1> DEFINE n == starts + 1
           link == IF connect THEN SignedInTo(b) ELSE 0
<1>1. /\ starts < MaxStarts /\ starts' = n
      /\ pending' = pending \cup {[tx |-> n, start |-> n, link |-> link]}
      /\ cookie' = [cookie EXCEPT ![b].tx = n]
      /\ asking' = asking \cup {<<b, n>>}
      /\ begun' = [begun EXCEPT ![n] = SignedInTo(b)]
      /\ UNCHANGED <<url, accounts, sessions, callback>>
  BY DEF Login, SignInStart
<1>2. /\ starts \in 0..MaxStarts /\ MaxStarts \in Nat
      /\ n \in Starts /\ 1..starts \subseteq Starts
  BY <1>1, ConsumerAssumption DEF OInv, Origin, Numbers, Starts
<1>3. begun'[n] = SignedInTo(b) /\ \A m \in 1..starts : begun'[m] = begun[m]
  BY <1>1, <1>2 DEF OInv, Origin, Numbers
<1>4. \A c \in Browsers : /\ cookie'[c].tx = IF c = b THEN n ELSE cookie[c].tx
                          /\ cookie'[c] = [tx |-> cookie'[c].tx, session |-> cookie'[c].session]
  BY <1>1 DEF OInv, Origin, Numbers
<1> HIDE DEF link
<1>5. Numbers'
  BY <1>1, <1>2, <1>4 DEF OInv, Origin, Numbers
<1>6. Asked'
  BY <1>1, <1>2, <1>4 DEF OInv, Origin, Numbers, Asked
<1>7. Urls'
  BY <1>1, <1>2, <1>4 DEF OInv, Origin, Numbers, Urls, IsUrl
<1>8. PendingOK'
  BY <1>1, <1>2, <1>3 DEF OInv, Origin, PendingOK, LinkOf, link
<1>9. CallbacksOK'
  BY <1>1, <1>2, <1>3 DEF OInv, Origin, CallbacksOK, CallbackOK, LinkOf, Urls
<1>10. AccountsOK' /\ OwnSignIn'
  BY <1>1 DEF OInv, AccountsOK, OwnSignIn
<1>11. ConnectedByItself'
  BY <1>1, <1>3 DEF OInv, Origin, Urls, ConnectedByItself
<1> QED BY <1>5, <1>6, <1>7, <1>8, <1>9, <1>10, <1>11 DEF OInv, Origin

LEMMA AnswerKeeps ==
    ASSUME OInv, NEW b \in Browsers, NEW n \in Starts, NEW p \in People, Answer(b, n, p)
    PROVE  OInv'
<1> DEFINE u == [start |-> n, who |-> p, by |-> b, sid |-> there'[b].sid]
<1>1. /\ <<b, n>> \in asking /\ asking' = asking \ {<<b, n>>}
      /\ url' = url \cup {u}
      /\ UNCHANGED <<starts, cookie, pending, accounts, sessions, callback, begun>>
  BY DEF Answer, app
<1>2. n \in 1..starts /\ \A c \in Browsers : cookie[c].tx = n => c = b
  BY <1>1 DEF OInv, Origin, Asked
<1>3. /\ u.start = n /\ u.who = p /\ u.by = b
      /\ IsUrl(u)
  BY DEF IsUrl
<1> HIDE DEF u
<1>4. Urls'
  BY <1>1, <1>2, <1>3 DEF OInv, Origin, Urls, IsUrl
<1>5. Numbers' /\ Asked' /\ PendingOK' /\ CallbacksOK'
  BY <1>1 DEF OInv, Origin, Numbers, Asked, PendingOK, CallbacksOK, CallbackOK, LinkOf
<1>6. AccountsOK' /\ OwnSignIn' /\ ConnectedByItself'
  BY <1>1 DEF OInv, AccountsOK, OwnSignIn, ConnectedByItself
<1> QED BY <1>4, <1>5, <1>6 DEF OInv, Origin

\* A URL that answers what this browser started was answered in this browser.
LEMMA CallbackKeeps ==
    ASSUME OInv, NEW b \in Browsers, NEW u \in url, Callback(b, u)
    PROVE  OInv'
<1> DEFINE ours == {p \in Started(b, u) : Answers(u, p)}
           start == CHOOSE p \in ours : TRUE
<1>1. /\ pending' \subseteq pending
      /\ cookie' = [cookie EXCEPT ![b].tx = 0]
      /\ callback' = [callback EXCEPT ![b] = IF ours = {} THEN Idle
                                             ELSE [pc |-> "exchange", u |-> u, link |-> start.link]]
      /\ UNCHANGED <<starts, asking, url, accounts, sessions, begun>>
  BY DEF Callback, provider
<1>2. ASSUME ours # {}
      PROVE  u.by = b /\ LinkOf(start.link, u.start)
  <2>1. start \in pending /\ start.tx = cookie[b].tx /\ u.start = start.start
    BY <1>2 DEF Started, Answers
  <2> HIDE DEF start
  <2> QED BY <2>1 DEF OInv, Origin, PendingOK, Urls
<1> HIDE DEF ours, start
<1>3. \A c \in Browsers : /\ cookie'[c].tx = IF c = b THEN 0 ELSE cookie[c].tx
                          /\ cookie'[c] = [tx |-> cookie'[c].tx, session |-> cookie'[c].session]
  BY <1>1 DEF OInv, Origin, Numbers
<1>4. Numbers'
  BY <1>1, <1>3 DEF OInv, Origin, Numbers
<1>5. Asked' /\ Urls' /\ PendingOK'
  BY <1>1, <1>3 DEF OInv, Origin, Numbers, Asked, Urls, IsUrl, PendingOK, LinkOf
<1>6. CallbacksOK'
  <2>1. \A c \in Browsers : c # b => callback'[c] = callback[c]
    BY <1>1 DEF OInv, Origin, Numbers
  <2>2. \/ callback'[b].pc = "idle"
        \/ /\ callback'[b].u = u /\ callback'[b].link = start.link
           /\ ours # {}
    BY <1>1 DEF OInv, Origin, Numbers, Idle
  <2> QED BY <1>1, <1>2, <2>1, <2>2 DEF OInv, Origin, CallbacksOK, CallbackOK, LinkOf
<1>7. AccountsOK' /\ OwnSignIn' /\ ConnectedByItself'
  BY <1>1 DEF OInv, AccountsOK, OwnSignIn, ConnectedByItself
<1> QED BY <1>4, <1>5, <1>6, <1>7 DEF OInv, Origin

LEMMA ExchangeKeeps ==
    ASSUME OInv, NEW b \in Browsers, Exchange(b)
    PROVE  OInv'
<1>1. /\ UNCHANGED <<starts, asking, url, cookie, pending, accounts, sessions, begun>>
      /\ callback[b].pc = "exchange"
      /\ \/ callback' = [callback EXCEPT ![b] = Idle]
         \/ callback' = [callback EXCEPT ![b] = [pc |-> "verify", u |-> callback[b].u,
                              link |-> callback[b].link, kid |-> key.signing, iat |-> now]]
  BY DEF Exchange, app
<1>2. Numbers' /\ Asked' /\ Urls' /\ PendingOK'
  BY <1>1 DEF OInv, Origin, Numbers, Asked, Urls, PendingOK, LinkOf
<1>3. CallbacksOK'
  <2>1. \A c \in Browsers : c # b => callback'[c] = callback[c]
    BY <1>1 DEF OInv, Origin, Numbers
  <2>2. \/ callback'[b].pc = "idle"
        \/ callback'[b].u = callback[b].u /\ callback'[b].link = callback[b].link
    BY <1>1 DEF OInv, Origin, Numbers, Idle
  <2> QED BY <1>1, <2>1, <2>2 DEF OInv, Origin, CallbacksOK, CallbackOK, LinkOf
<1>4. AccountsOK' /\ OwnSignIn' /\ ConnectedByItself'
  BY <1>1 DEF OInv, AccountsOK, OwnSignIn, ConnectedByItself
<1> QED BY <1>2, <1>3, <1>4 DEF OInv, Origin

\* Whatever account the person gets, the owner's changes only by a sign-in to connect it.
LEMMA Provision ==
    ASSUME AccountsOK, NEW who \in People, NEW link
    PROVE  LET known == Provisioned(Linked(link, who), who)
           IN  /\ known \in Seq(People \cup {None}) /\ Len(known) > 0
               /\ known[Owner] = accounts[Owner] \/ (known[Owner] = who /\ link = Owner)
<1> DEFINE linked == Linked(link, who)
<1>1. /\ linked \in Seq(People \cup {None}) /\ Len(linked) > 0
      /\ linked[Owner] = accounts[Owner] \/ (linked[Owner] = who /\ link = Owner)
  BY DEF Linked, AccountsOK, Owner
<1> HIDE DEF linked
<1>2. Provisioned(linked, who) \in {linked, Append(linked, who)}
  BY DEF Provisioned
<1>3. /\ Append(linked, who) \in Seq(People \cup {None}) /\ Len(Append(linked, who)) > 0
      /\ Append(linked, who)[Owner] = linked[Owner]
  BY <1>1 DEF Owner
<1> QED BY <1>1, <1>2, <1>3 DEF linked

LEMMA FinishKeeps ==
    ASSUME OInv, NEW b \in Browsers, Finish(b)
    PROVE  OInv'
<1> DEFINE c == callback[b]
           known == Provisioned(Linked(c.link, c.u.who), c.u.who)
           session == SessionFrom(b, c.u, known)
<1>1. /\ c.pc = "verify" /\ callback' = [callback EXCEPT ![b] = Idle]
      /\ UNCHANGED <<starts, asking, url, pending, begun>>
      /\ \/ UNCHANGED <<accounts, sessions, cookie>>
         \/ /\ accounts' = known /\ sessions' = sessions \cup {session}
            /\ cookie' = [cookie EXCEPT ![b].session = session.id]
  BY DEF Finish, StartSession, provider
<1>2. c.u \in url /\ c.u.by = b /\ LinkOf(c.link, c.u.start) /\ c.u.who \in People
  BY <1>1 DEF OInv, Origin, CallbacksOK, CallbackOK, Urls
<1>3. /\ known \in Seq(People \cup {None}) /\ Len(known) > 0
      /\ known[Owner] = accounts[Owner] \/ (known[Owner] = c.u.who /\ c.link = Owner)
  BY <1>2, Provision DEF OInv
<1>4. session.id = c.u.start /\ session.who = c.u.who /\ session.by = b
  BY DEF SessionFrom
<1> HIDE DEF known, session
<1>5. Numbers' /\ Asked' /\ Urls'
  <2>1. /\ DOMAIN cookie' = Browsers
        /\ \A d \in Browsers :
             /\ cookie'[d].tx = cookie[d].tx
             /\ cookie'[d] = [tx |-> cookie'[d].tx, session |-> cookie'[d].session]
    BY <1>1 DEF OInv, Origin, Numbers
  <2>2. UNCHANGED <<starts, asking, url, begun>> /\ DOMAIN callback' = Browsers
    BY <1>1 DEF OInv, Origin, Numbers
  <2>3. Numbers'
    BY <2>1, <2>2 DEF OInv, Origin, Numbers
  <2>4. Asked' /\ Urls'
    BY <2>1, <2>2 DEF OInv, Origin, Asked, Urls, IsUrl
  <2> QED BY <2>3, <2>4
<1>6. PendingOK' /\ CallbacksOK'
  BY <1>1 DEF OInv, Origin, Numbers, PendingOK, CallbacksOK, CallbackOK, LinkOf, Idle
<1>7. AccountsOK'
  BY <1>1, <1>3 DEF OInv, AccountsOK
<1>8. OwnSignIn'
  BY <1>1, <1>2, <1>4 DEF OInv, OwnSignIn
<1>9. ConnectedByItself'
  BY <1>1, <1>2, <1>3 DEF OInv, ConnectedByItself, LinkOf, Owner
<1> QED BY <1>5, <1>6, <1>7, <1>8, <1>9 DEF OInv, Origin

-----------------------------------------------------------------------------
\* The invariant: every cookie, URL and callback is where its sign-in set out.
THEOREM OriginInvariant == Spec => []OInv
<1>1. Init => OInv
  <2> SUFFICES ASSUME Init PROVE OInv
    OBVIOUS
  <2>1. Origin
    BY ConsumerAssumption
       DEF Init, Origin, Numbers, Asked, Urls, PendingOK, CallbacksOK, CallbackOK, Idle
  <2>2. AccountsOK /\ OwnSignIn /\ ConnectedByItself
    BY DEF Init, AccountsOK, OwnSignIn, ConnectedByItself, Owner
  <2> QED BY <2>1, <2>2 DEF OInv
<1>2. OInv /\ [Next]_vars => OInv'
  <2> SUFFICES ASSUME OInv, [Next]_vars PROVE OInv'
    OBVIOUS
  <2>1. ASSUME NEW b \in Browsers, Browsing(b) PROVE OInv'
    BY <2>1, Quiet, LoginKeeps, CallbackKeeps, ExchangeKeeps, FinishKeeps, AnswerKeeps DEF Browsing
  <2>2. CASE \/ Tick \/ Rotate \/ UNCHANGED vars
             \/ (\E u \in url : Post(u)) \/ (\E t \in wire : Hear(t))
             \/ \E kid \in 0..MaxKeys : Stray(kid)
    BY <2>2, Quiet
  <2> QED BY <2>1, <2>2 DEF Next
<1> QED BY <1>1, <1>2, PTL DEF Spec

\* For any browsers and people, and any number of sign-ins at once: a session of the app is of
\* the person who signed in at the provider in that browser (examples/express, the callback).
THEOREM SessionsAreOwn == Spec => []OwnSignIn
<1>1. OInv => OwnSignIn
  BY DEF OInv
<1> QED BY <1>1, OriginInvariant, PTL

\* Whatever is linked, unlinked or signed in to meanwhile: the owner's account is connected to a
\* person only by a sign-in that began where the owner was signed in (examples/express).
THEOREM ConnectedFromInside == Spec => []ConnectedByItself
<1>1. OInv => ConnectedByItself
  BY DEF OInv
<1> QED BY <1>1, OriginInvariant, PTL

-----------------------------------------------------------------------------
(* Keys: published long enough before, and kept long enough after. *)

KeyOK ==
    /\ now \in Nat
    /\ key = [oldest |-> key.oldest, signing |-> key.signing, newest |-> key.newest, at |-> key.at]
    /\ key.oldest \in Nat /\ key.signing \in Nat /\ key.newest \in Nat /\ key.at \in 0..now
    /\ 1 <= key.oldest /\ key.oldest <= key.signing
    /\ key.signing <= key.newest /\ key.newest <= key.signing + 1

\* A token of the provider's: the key that signed it has gone only if the token is too old.
Sound(kid, iat) ==
    /\ kid \in 1..key.signing /\ iat \in 0..now
    /\ kid < key.signing => iat <= key.at
    /\ kid < key.oldest => now - iat > MAX_AGE

TokensOK ==
    /\ \A t \in wire : Sound(t.kid, t.iat)
    /\ \A b \in Browsers : callback[b].pc = "verify" => Sound(callback[b].kid, callback[b].iat)
    /\ DOMAIN callback = Browsers

\* A set that lacks the key now signing was fetched before the key's wait.
CacheOK(c) ==
    c # Unfetched =>
        /\ c.from \in Nat /\ c.upto \in Nat /\ c.at \in 0..now
        /\ c.from <= key.oldest /\ c.upto <= key.newest
        /\ c.upto < key.newest => c.at <= key.at
        /\ c.upto < key.signing => c.at + COOLDOWN <= key.at

CachesOK ==
    /\ DOMAIN cache = {"signin", "logout"}
    /\ \A use \in {"signin", "logout"} : CacheOK(cache[use])

KInv == KeyOK /\ TokensOK /\ CachesOK /\ GenuineVerifies

\* What a key set has when it is asked for a key is as good as what it had.
LEMMA KeysGood ==
    ASSUME KeyOK, CachesOK, NEW use \in {"signin", "logout"}, NEW kid
    PROVE  CacheOK(Keys(use, kid)) /\ CacheOK(RefreshIfStale(use))
<1>1. CacheOK(cache[use])
  BY DEF CachesOK
<1>2. CacheOK(Fetched)
  BY ConsumerAssumption DEF CacheOK, Fetched, KeyOK
<1> QED BY <1>1, <1>2 DEF Keys, RefreshIfStale

\* The heart of it: a token of the provider's finds its key, or is too old.
LEMMA KeyFound ==
    ASSUME KeyOK, CachesOK, NEW use \in {"signin", "logout"}, NEW kid, NEW iat, Sound(kid, iat)
    PROVE  Holds(Keys(use, kid), kid) \/ now - iat > MAX_AGE
<1> DEFINE c == cache[use]
<1>1. CacheOK(c)
  BY DEF CachesOK
<1>2. /\ kid \in 1..key.signing /\ iat \in 0..now /\ MAX_AGE \in Nat /\ COOLDOWN \in Nat
      /\ kid < key.oldest => now - iat > MAX_AGE
  BY ConsumerAssumption DEF Sound
<1>3. CASE Holds(c, kid)
  BY <1>3 DEF Keys
<1>4. CASE ~Holds(c, kid) /\ c # Unfetched /\ now - c.at < COOLDOWN
  <2>1. /\ c.from \in Nat /\ c.upto \in Nat /\ c.at \in 0..now /\ c.from <= key.oldest
        /\ c.upto < key.signing => c.at + COOLDOWN <= key.at
    BY <1>1, <1>4 DEF CacheOK
  <2>2. ~(c.upto < key.signing)
    BY <1>2, <1>4, <2>1 DEF KeyOK
  <2>3. kid < c.from
    BY <1>2, <1>4, <2>1, <2>2 DEF Holds, KeyOK
  <2> QED BY <1>2, <2>1, <2>3 DEF KeyOK
<1>5. CASE ~Holds(c, kid) /\ ~(c # Unfetched /\ now - c.at < COOLDOWN)
  <2>1. Keys(use, kid) = Fetched
    BY <1>5 DEF Keys, RefreshIfStale
  <2> QED BY <1>2, <2>1 DEF Fetched, Holds, KeyOK
<1> QED BY <1>3, <1>4, <1>5

\* Time makes a token older and a cache staler, and nothing else.
LEMMA TickGood ==
    ASSUME KInv, Tick PROVE KInv'
<1>1. /\ now' = now + 1
      /\ UNCHANGED <<key, wire, callback, cache, refused>>
  BY DEF Tick, provider
<1>2. KeyOK'
  BY <1>1 DEF KInv, KeyOK
<1>3. ASSUME NEW kid, NEW iat, Sound(kid, iat) PROVE Sound(kid, iat)'
  BY <1>1, <1>3, ConsumerAssumption DEF KInv, KeyOK, Sound
<1>4. TokensOK'
  BY <1>1, <1>3 DEF KInv, TokensOK
<1>5. CachesOK'
  BY <1>1 DEF KInv, KeyOK, CachesOK, CacheOK
<1>6. GenuineVerifies'
  BY <1>1 DEF KInv, GenuineVerifies
<1> QED BY <1>2, <1>4, <1>5, <1>6 DEF KInv

\* A key signs only when the caches that lack it have had their cooldown, and goes only when
\* what it signed is too old.
LEMMA RotateGood ==
    ASSUME KInv, Rotate PROVE KInv'
<1>1. UNCHANGED <<now, wire, callback, cache, refused>> /\ (Publish \/ Promote \/ Withdraw)
  BY DEF Rotate
<1>2. /\ COOLDOWN \in Nat /\ MAX_AGE \in Nat
  BY ConsumerAssumption
<1>3. KeyOK'
  <2>1. CASE Publish
    <3>1. key' = [oldest |-> key.oldest, signing |-> key.signing, newest |-> key.newest + 1, at |-> now]
      BY <2>1 DEF Publish, KInv, KeyOK
    <3>2. key.newest = key.signing /\ now' = now
      BY <1>1, <2>1 DEF Publish
    <3> QED BY <3>1, <3>2 DEF KInv, KeyOK
  <2>2. CASE Promote
    <3>1. key' = [oldest |-> key.oldest, signing |-> key.signing + 1, newest |-> key.newest, at |-> now]
      BY <2>2 DEF Promote, KInv, KeyOK
    <3>2. key.newest > key.signing /\ now' = now
      BY <1>1, <2>2 DEF Promote
    <3> QED BY <3>1, <3>2 DEF KInv, KeyOK
  <2>3. CASE Withdraw
    <3>1. key' = [oldest |-> key.oldest + 1, signing |-> key.signing, newest |-> key.newest,
                  at |-> key.at]
      BY <2>3 DEF Withdraw, KInv, KeyOK
    <3>2. key.oldest < key.signing /\ now' = now
      BY <1>1, <2>3 DEF Withdraw
    <3> QED BY <3>1, <3>2 DEF KInv, KeyOK
  <2> QED BY <1>1, <2>1, <2>2, <2>3
<1>4. ASSUME NEW kid, NEW iat, Sound(kid, iat) PROVE Sound(kid, iat)'
  <2>1. CASE Publish
    BY <1>1, <1>4, <2>1 DEF KInv, KeyOK, Sound, Publish
  <2>2. CASE Promote
    BY <1>1, <1>4, <2>2 DEF KInv, KeyOK, Sound, Promote
  <2>3. CASE Withdraw
    BY <1>1, <1>2, <1>4, <2>3 DEF KInv, KeyOK, Sound, Withdraw
  <2> QED BY <1>1, <2>1, <2>2, <2>3
<1>5. ASSUME NEW c, CacheOK(c) PROVE CacheOK(c)'
  <2>1. CASE Publish
    BY <1>1, <1>2, <1>5, <2>1 DEF KInv, KeyOK, CacheOK, Publish
  <2>2. CASE Promote
    BY <1>1, <1>2, <1>5, <2>2 DEF KInv, KeyOK, CacheOK, Promote
  <2>3. CASE Withdraw
    BY <1>1, <1>2, <1>5, <2>3 DEF KInv, KeyOK, CacheOK, Withdraw
  <2> QED BY <1>1, <2>1, <2>2, <2>3
<1>6. TokensOK'
  BY <1>1, <1>4 DEF KInv, TokensOK
<1>7. CachesOK'
  BY <1>1, <1>5 DEF KInv, CachesOK
<1>8. GenuineVerifies'
  BY <1>1 DEF KInv, GenuineVerifies
<1> QED BY <1>3, <1>6, <1>7, <1>8 DEF KInv

\* A token is signed with the key of the moment.
LEMMA NewToken ==
    ASSUME KeyOK PROVE Sound(key.signing, now)
  BY DEF KeyOK, Sound

LEMMA SoundStays ==
    ASSUME UNCHANGED <<now, key>>, NEW kid, NEW iat, Sound(kid, iat)
    PROVE  Sound(kid, iat)'
  BY DEF Sound

LEMMA CachesStay ==
    ASSUME UNCHANGED <<now, key>>, CachesOK, NEW use \in {"signin", "logout"}, NEW keys,
           CacheOK(keys), cache' = [cache EXCEPT ![use] = keys]
    PROVE  CachesOK'
<1>1. DOMAIN cache' = {"signin", "logout"}
  BY DEF CachesOK
<1>2. ASSUME NEW other \in {"signin", "logout"} PROVE CacheOK(cache'[other])
  <2>1. cache'[other] = IF other = use THEN keys ELSE cache[other]
    BY DEF CachesOK
  <2> QED BY <2>1 DEF CachesOK
<1>3. ASSUME NEW c, CacheOK(c) PROVE CacheOK(c)'
  BY <1>3 DEF CacheOK
<1> QED BY <1>1, <1>2, <1>3 DEF CachesOK

LEMMA BrowsingGood ==
    ASSUME KInv, NEW b \in Browsers, Browsing(b) PROVE KInv'
<1>1. CASE \/ LocalLogin(b) \/ Unlink(b) \/ Logout(b)
           \/ (\E connect \in BOOLEAN : Login(b, connect))
           \/ \E n \in Starts, p \in People : Answer(b, n, p)
  <2>1. UNCHANGED <<now, key, wire, callback, cache, refused>>
    BY <1>1 DEF LocalLogin, Unlink, Logout, Login, Answer, provider
  <2> QED BY <2>1
      DEF KInv, KeyOK, TokensOK, Sound, CachesOK, CacheOK, GenuineVerifies
<1>2. CASE Exchange(b) \/ \E u \in url : Callback(b, u)
  <2>1. UNCHANGED <<now, key, wire, cache, refused>>
    BY <1>2 DEF Exchange, Callback, app, provider
  <2>2. /\ DOMAIN callback' = Browsers
        /\ \A c \in Browsers : c # b => callback'[c] = callback[c]
        /\ \/ callback'[b].pc # "verify"
           \/ callback'[b].kid = key.signing /\ callback'[b].iat = now
    <3>1. CASE Exchange(b)
      BY <3>1 DEF Exchange, KInv, TokensOK, Idle
    <3>2. CASE \E u \in url : Callback(b, u)
      BY <3>2 DEF Callback, KInv, TokensOK, Idle
    <3> QED BY <1>2, <3>1, <3>2
  <2>3. TokensOK'
    BY <2>1, <2>2, NewToken, SoundStays DEF KInv, TokensOK
  <2> QED BY <2>1, <2>3 DEF KInv, KeyOK, CachesOK, CacheOK, GenuineVerifies
<1>3. CASE Finish(b)
  <2> DEFINE c == callback[b]
             keys == Keys("signin", c.kid)
  <2>1. /\ UNCHANGED <<now, key, wire>> /\ c.pc = "verify"
        /\ cache' = [cache EXCEPT !["signin"] = keys]
        /\ callback' = [callback EXCEPT ![b] = Idle]
        /\ refused' = IF Holds(keys, c.kid) THEN refused
                      ELSE refused \cup {[iat |-> c.iat, at |-> now]}
    BY <1>3 DEF Finish, provider
  <2>2. Sound(c.kid, c.iat)
    BY <2>1 DEF KInv, TokensOK
  <2>3. Holds(keys, c.kid) \/ now - c.iat > MAX_AGE
    BY <2>2, KeyFound DEF KInv
  <2>4. CacheOK(keys)
    BY KeysGood DEF KInv
  <2> HIDE DEF keys
  <2>5. CachesOK'
    BY <2>1, <2>4, CachesStay DEF KInv
  <2>6. TokensOK'
    BY <2>1, SoundStays DEF KInv, TokensOK, Idle
  <2>7. GenuineVerifies'
    BY <2>1, <2>3 DEF KInv, GenuineVerifies
  <2>8. KeyOK'
    BY <2>1 DEF KInv, KeyOK
  <2> QED BY <2>5, <2>6, <2>7, <2>8 DEF KInv
<1> QED BY <1>1, <1>2, <1>3 DEF Browsing

LEMMA TokensGood ==
    ASSUME KInv,
           \/ \E u \in url : Post(u)
           \/ \E t \in wire : Hear(t)
           \/ \E kid \in 0..MaxKeys : Stray(kid)
    PROVE  KInv'
<1>1. ASSUME NEW u \in url, Post(u) PROVE KInv'
  <2>1. /\ UNCHANGED <<now, key, callback, cache, refused>>
        /\ wire' = wire \cup {[jti |-> sent + 1, sid |-> u.sid, kid |-> key.signing, iat |-> now]}
    BY <1>1 DEF Post, provider
  <2>2. TokensOK'
    BY <2>1, NewToken, SoundStays DEF KInv, TokensOK
  <2> QED BY <2>1, <2>2 DEF KInv, KeyOK, CachesOK, CacheOK, GenuineVerifies
<1>2. ASSUME NEW t \in wire, Hear(t) PROVE KInv'
  <2> DEFINE keys == Keys("logout", t.kid)
  <2>1. /\ UNCHANGED <<now, key, callback>> /\ wire' \subseteq wire
        /\ cache' = [cache EXCEPT !["logout"] = keys]
        /\ refused' = IF Holds(keys, t.kid) THEN refused
                      ELSE refused \cup {[iat |-> t.iat, at |-> now]}
    BY <1>2 DEF Hear, provider
  <2>2. Holds(keys, t.kid) \/ now - t.iat > MAX_AGE
    BY KeyFound DEF KInv, TokensOK
  <2>3. CacheOK(keys)
    BY KeysGood DEF KInv
  <2> HIDE DEF keys
  <2>4. CachesOK'
    BY <2>1, <2>3, CachesStay DEF KInv
  <2>5. TokensOK'
    BY <2>1, SoundStays DEF KInv, TokensOK
  <2>6. GenuineVerifies'
    BY <2>1, <2>2 DEF KInv, GenuineVerifies
  <2>7. KeyOK'
    BY <2>1 DEF KInv, KeyOK
  <2> QED BY <2>4, <2>5, <2>6, <2>7 DEF KInv
<1>3. ASSUME NEW kid \in 0..MaxKeys, Stray(kid) PROVE KInv'
  <2>1. PICK keys \in {Keys("logout", kid), RefreshIfStale("logout")} :
          cache' = [cache EXCEPT !["logout"] = keys]
    BY <1>3 DEF Stray
  <2>2. UNCHANGED <<now, key, callback, wire, refused>>
    BY <1>3 DEF Stray, provider
  <2>3. CacheOK(keys)
    BY KeysGood DEF KInv
  <2>4. CachesOK'
    BY <2>1, <2>2, <2>3, CachesStay DEF KInv
  <2> QED BY <2>2, <2>4 DEF KInv, KeyOK, TokensOK, Sound, GenuineVerifies
<1> QED BY <1>1, <1>2, <1>3

\* The invariant of the keys, and what it is for: however keys rotate, whatever stray tokens cost
\* a fetch, and at whatever instant a cache is read, a token of the provider's verifies until it
\* is too old (KeySet.keys in logout_token.py, and the TypeScript client's cache).
THEOREM GenuineTokensVerify == Spec => []GenuineVerifies
<1>1. Init => KInv
  BY ConsumerAssumption DEF Init, KInv, KeyOK, TokensOK, CachesOK, CacheOK, GenuineVerifies, Idle
<1>2. KInv /\ [Next]_vars => KInv'
  <2> SUFFICES ASSUME KInv, [Next]_vars PROVE KInv'
    OBVIOUS
  <2>1. CASE UNCHANGED vars
    BY <2>1 DEF vars, provider, KInv, KeyOK, TokensOK, Sound, CachesOK, CacheOK, GenuineVerifies
  <2> QED BY <2>1, TickGood, RotateGood, BrowsingGood, TokensGood DEF Next
<1>3. KInv => GenuineVerifies
  BY DEF KInv
<1> QED BY <1>1, <1>2, <1>3, PTL DEF Spec

-----------------------------------------------------------------------------
(* The page of the console. *)


\* The server carried out what was sent with this click.
CarriedOut(c) ==
    \E d \in ran : d.click = c.click /\ d.button = c.button /\ d.body = c.body

Previewed(draft) == \E d \in ran : d.button \in Looks /\ d.body = draft

\* A registration, sent or held, is of a draft that was previewed.
Fair(h) == h.button = "registerPreset" => Previewed(h.body)

IsCall(c) == c = [click |-> c.click, button |-> c.button, via |-> c.via, body |-> c.body,
                  result |-> c.result]

CallOK(c) == IsCall(c) /\ Fair(c) /\ (c.result = "ok" => CarriedOut(c))

CallsOK == \A c \in calls : CallOK(c)

PromptOK ==
    /\ held # Nothing => Fair(held)
    /\ proof # Nothing => Fair(proof.of) /\ proof = [of |-> proof.of, result |-> proof.result]

ShownOK == shown # Nothing => shown.sent = shown.shows /\ Previewed(shown.shows)

PageOK == dialog = Nothing \/ dialog # "registerPreset"

PageInv == CallsOK /\ PromptOK /\ ShownOK /\ PageOK /\ DoneIsTrue

-----------------------------------------------------------------------------
\* What holds of any page at the start, and after a step of it.
LEMMA PageInitially == ASSUME PageInit PROVE PageInv
  BY DEF PageInit, PageInv, CallsOK, PromptOK, ShownOK, PageOK, DoneIsTrue

\* Requests are only added to those carried out, so what was previewed stays so.
LEMMA RanGrows ==
    ASSUME ran \subseteq ran'
    PROVE  /\ \A c : CarriedOut(c) => CarriedOut(c)'
           /\ \A h : Fair(h) => Fair(h)'
           /\ \A draft : Previewed(draft) => Previewed(draft)'
<1>1. ASSUME NEW c, CarriedOut(c) PROVE CarriedOut(c)'
  BY <1>1 DEF CarriedOut
<1>2. ASSUME NEW draft, Previewed(draft) PROVE Previewed(draft)'
  BY <1>2 DEF Previewed
<1>3. ASSUME NEW h, Fair(h) PROVE Fair(h)'
  BY <1>2, <1>3 DEF Fair
<1> QED BY <1>1, <1>2, <1>3

LEMMA NewCallOK ==
    ASSUME NEW k, NEW n, NEW via, NEW body,
           n = "registerPreset" => Previewed(body)
    PROVE  CallOK(NewCall(k, n, via, body))
  BY DEF CallOK, NewCall, IsCall, Fair

\* A request that starts leaves what is said or takes it down.
LEMMA StartKeeps ==
    ASSUME PageInv, NEW k, NEW n, NEW via, NEW body, Start(k, n, via, body),
           n = "registerPreset" => Previewed(body), UNCHANGED ran
    PROVE  CallsOK' /\ DoneIsTrue'
<1>1. calls' = calls \cup {NewCall(k, n, via, body)} /\ (said' = said \/ said' = Nothing)
  BY DEF Start
<1>2. CallOK(NewCall(k, n, via, body))
  BY NewCallOK
<1>3. \A c \in calls' : CallOK(c)
  BY <1>1, <1>2 DEF PageInv, CallsOK
<1>4. \A c : CallOK(c)' <=> CallOK(c)
  BY DEF CallOK, Fair, CarriedOut, Previewed
<1>5. DoneIsTrue'
  BY <1>1 DEF PageInv, DoneIsTrue
<1> QED BY <1>3, <1>4, <1>5 DEF CallsOK

-----------------------------------------------------------------------------
(* What the person does. *)

LEMMA PressKeeps ==
    ASSUME PageInv, NEW n, Press(n) PROVE PageInv'
<1>1. UNCHANGED <<page, held, proof, shown, ran>>
  BY DEF Press, server
<1>2. PromptOK' /\ ShownOK'
  BY <1>1 DEF PageInv, PromptOK, ShownOK, Fair, Previewed
<1>3. CASE n \in InDialog
  <2>1. dialog' = n /\ UNCHANGED <<calls, said>>
    BY <1>3 DEF Press
  <2> QED BY <1>1, <1>2, <1>3, <2>1
      DEF PageInv, PageOK, InDialog, CallsOK, CallOK, Fair, CarriedOut, Previewed, DoneIsTrue
<1>4. CASE n \notin InDialog
  <2>1. Start(clicks + 1, n, "page", Body(n)) /\ UNCHANGED dialog
    BY <1>4 DEF Press
  <2>2. n = "registerPreset" => Previewed(Body(n))
    BY DEF Press, Offered, Body, Sends, PageInv, ShownOK
  <2>3. CallsOK' /\ DoneIsTrue'
    BY <1>1, <2>1, <2>2, StartKeeps
  <2> QED BY <1>1, <1>2, <2>1, <2>3 DEF PageInv, PageOK
<1> QED BY <1>3, <1>4

LEMMA GoKeeps ==
    ASSUME PageInv, Go PROVE PageInv'
<1>1. UNCHANGED <<page, dialog, held, proof, shown, ran>>
  BY DEF Go, server
<1>2. CallsOK' /\ DoneIsTrue'
  BY <1>1, StartKeeps DEF Go, PageInv, PageOK
<1> QED BY <1>1, <1>2 DEF PageInv, PageOK, PromptOK, ShownOK, Fair, Previewed

LEMMA TypeKeeps ==
    ASSUME PageInv, NEW v, Type(v) PROVE PageInv'
<1>1. UNCHANGED <<page, dialog, held, proof, ran>> /\ (shown' = shown \/ shown' = Nothing)
  BY DEF Type, server
<1>2. CallsOK' /\ DoneIsTrue'
  <2>1. CASE page = "Transfer"
    BY <1>1, <2>1, StartKeeps DEF Type
  <2>2. CASE page # "Transfer"
    BY <1>1, <2>2 DEF Type, PageInv, CallsOK, CallOK, Fair, CarriedOut, Previewed, DoneIsTrue
  <2> QED BY <2>1, <2>2
<1> QED BY <1>1, <1>2 DEF PageInv, PageOK, PromptOK, ShownOK, Fair, Previewed

\* Neither a request nor what is shown or said is touched by these.
LEMMA PageStill ==
    ASSUME PageInv,
           \/ Cancel \/ TryAgain \/ Prove \/ NotNow \/ TimePasses
           \/ \E g \in loads : ServeLoad(g) \/ ArriveLoad(g)
           \/ UNCHANGED pageVars
    PROVE  PageInv'
<1> DEFINE Untouched ==
      /\ UNCHANGED <<page, calls, said, shown, ran>>
      /\ dialog' = dialog \/ dialog' = Nothing
      /\ held' = held \/ held' = Nothing
      /\ \/ proof' = proof
         \/ held # Nothing /\ proof' = [of |-> held, result |-> "sent"]
<1>1. Untouched
  <2>1. CASE Cancel \/ TryAgain \/ NotNow \/ TimePasses \/ UNCHANGED pageVars
    BY <2>1 DEF Cancel, TryAgain, NotNow, TimePasses, pageVars, looks, server
  <2>2. CASE Prove
    BY <2>2 DEF Prove, looks, server
  <2>3. ASSUME NEW g \in loads, ServeLoad(g) PROVE Untouched
    BY <2>3 DEF ServeLoad, looks, server
  <2>4. ASSUME NEW g \in loads, ArriveLoad(g) PROVE Untouched
    BY <2>4 DEF ArriveLoad, server
  <2> HIDE DEF Untouched
  <2> QED BY <2>1, <2>2, <2>3, <2>4
<1>2. PageOK'
  BY <1>1 DEF PageInv, PageOK
<1>3. PromptOK'
  BY <1>1 DEF PageInv, PromptOK, Fair, Previewed
<1> QED BY <1>1, <1>2, <1>3
    DEF PageInv, CallsOK, CallOK, Fair, CarriedOut, Previewed, ShownOK, DoneIsTrue

-----------------------------------------------------------------------------
(* What the server answers, and what the page makes of it. *)

LEMMA ServeKeeps ==
    ASSUME PageInv, NEW c \in calls, Serve(c) PROVE PageInv'
<1>1. UNCHANGED <<page, dialog, held, proof, said, shown>>
  BY DEF Serve, looks
<1>2. PICK r \in Outcomes(c), lost \in BOOLEAN :
        /\ calls' = (calls \ {c}) \cup {[c EXCEPT !.result = IF lost THEN "lost" ELSE r]}
        /\ ran' = IF r = "ok" THEN ran \cup {Carried(c)} ELSE ran
  BY DEF Serve
<1> DEFINE answer == [c EXCEPT !.result = IF lost THEN "lost" ELSE r]
<1>3. ran \subseteq ran'
  BY <1>2
<1>4. IsCall(c) /\ Fair(c)
  BY DEF PageInv, CallsOK, CallOK
<1>5. /\ answer = [click |-> c.click, button |-> c.button, via |-> c.via, body |-> c.body,
                   result |-> IF lost THEN "lost" ELSE r]
  BY <1>4 DEF IsCall
<1>6. CallOK(answer)'
  <2>1. IsCall(answer) /\ Fair(answer)'
    BY <1>3, <1>4, <1>5, RanGrows DEF IsCall, Fair
  <2>2. ASSUME answer.result = "ok" PROVE CarriedOut(answer)'
    <3>1. Carried(c) \in ran'
      BY <1>2, <1>5, <2>2
    <3> QED BY <1>5, <3>1 DEF CarriedOut, Carried
  <2>3. IsCall(answer)'
    BY <2>1 DEF IsCall
  <2> QED BY <2>1, <2>2, <2>3 DEF CallOK
<1>7. ASSUME NEW d \in calls PROVE CallOK(d)'
  <2>1. CallOK(d)
    BY DEF PageInv, CallsOK
  <2> QED BY <1>3, <2>1, RanGrows DEF CallOK, IsCall
<1>8. CallsOK'
  BY <1>2, <1>6, <1>7 DEF CallsOK
<1>9. PromptOK' /\ ShownOK'
  BY <1>1, <1>3, RanGrows DEF PageInv, PromptOK, ShownOK
<1>10. PageOK' /\ DoneIsTrue'
  BY <1>1, <1>3 DEF PageInv, PageOK, DoneIsTrue
<1> QED BY <1>8, <1>9, <1>10 DEF PageInv

\* The page says something only of a request that was carried out, or of disabling.
LEMMA ArriveKeeps ==
    ASSUME PageInv, NEW c \in calls, Arrive(c) PROVE PageInv'
<1>1. UNCHANGED <<page, proof, ran>> /\ calls' \subseteq calls
  BY DEF Arrive, server
<1>2. CallsOK'
  BY <1>1 DEF PageInv, CallsOK, CallOK, IsCall, Fair, CarriedOut, Previewed
<1>3. CallOK(c)
  BY DEF PageInv, CallsOK
<1>4. CASE c.result \in {"sign_in_required", "roles_in_use"}
  <2>1. UNCHANGED <<held, said, shown>> /\ (dialog' = dialog \/ dialog' = "removeRoles")
    BY <1>4 DEF Arrive, Departs, Asks, looks
  <2> QED BY <1>1, <1>2, <2>1
      DEF PageInv, PageOK, PromptOK, ShownOK, DoneIsTrue, Fair, Previewed
<1>5. CASE c.result = "ok"
  <2>1. Done(c)
    BY <1>5 DEF Arrive, Asks
  <2>2. /\ held' = held
        /\ said' = said \/ (said' = [click |-> c.click, button |-> c.button])
        /\ dialog' = dialog \/ dialog' = Nothing
        /\ \/ shown' = shown \/ shown' = Nothing
           \/ c.button \in Looks /\ shown' = [sent |-> c.body, shows |-> c.body]
    BY <2>1 DEF Done, Say, Sent
  <2>3. CarriedOut(c)
    BY <1>3, <1>5 DEF CallOK
  <2>4. DoneIsTrue'
    <3>1. CASE said' = said
      BY <1>1, <3>1 DEF PageInv, DoneIsTrue
    <3>2. CASE said' = [click |-> c.click, button |-> c.button]
      BY <1>1, <2>3, <3>2 DEF DoneIsTrue, CarriedOut
    <3> QED BY <2>2, <3>1, <3>2
  <2>5. ShownOK'
    BY <1>1, <2>2, <2>3 DEF PageInv, ShownOK, CarriedOut, Previewed
  <2> QED BY <1>1, <1>2, <2>2, <2>4, <2>5 DEF PageInv, PageOK, PromptOK, Fair, Previewed
<1>6. CASE c.result \notin {"sign_in_required", "roles_in_use", "ok"} /\ Asks(c)
  <2>1. Ask(c)
    BY <1>6 DEF Arrive
  <2>2. /\ held' = [click |-> c.click, button |-> c.button, body |-> c.body]
        /\ said' = said \/ (c.button = "disable" /\ said' = [click |-> c.click, button |-> c.button])
        /\ dialog' = dialog \/ dialog' = Nothing
        /\ shown' = shown
    BY <2>1 DEF Ask, TellsWhileHeld, Say
  <2>3. DoneIsTrue' /\ ShownOK'
    BY <1>1, <2>2 DEF PageInv, DoneIsTrue, ShownOK, Previewed
  <2>4. PromptOK'
    BY <1>1, <1>3, <2>2 DEF PageInv, PromptOK, CallOK, Fair, Previewed
  <2> QED BY <1>2, <2>2, <2>3, <2>4 DEF PageInv, PageOK
<1>7. CASE c.result \notin {"sign_in_required", "roles_in_use", "ok"} /\ ~Asks(c)
  <2>1. Fails(c)
    BY <1>7 DEF Arrive
  <2>2. /\ UNCHANGED <<dialog, held>>
        /\ said' = said \/ said' = Nothing
        /\ shown' = shown \/ shown' = Nothing
    BY <2>1 DEF Fails
  <2> QED BY <1>1, <1>2, <2>2
      DEF PageInv, PageOK, PromptOK, ShownOK, DoneIsTrue, Fair, Previewed
<1> QED BY <1>4, <1>5, <1>6, <1>7

\* The proof's answer: the click it was asked for goes again, with the draft it had.
LEMMA ProofKeeps ==
    ASSUME PageInv, ServeProof \/ ArriveProof PROVE PageInv'
<1>1. CASE ServeProof
  <2>1. UNCHANGED <<page, dialog, held, said, shown, calls, ran>>
    BY <1>1 DEF ServeProof, looks
  <2>2. PICK r : proof' = [proof EXCEPT !.result = r]
    BY <1>1 DEF ServeProof
  <2>3. proof # Nothing /\ proof = [of |-> proof.of, result |-> proof.result] /\ Fair(proof.of)
    BY <1>1 DEF ServeProof, PageInv, PromptOK
  <2>4. proof' = [of |-> proof.of, result |-> r]
    BY <2>2, <2>3
  <2>5. PromptOK'
    BY <2>1, <2>3, <2>4 DEF PageInv, PromptOK, Fair, Previewed
  <2> QED BY <2>1, <2>5
      DEF PageInv, PageOK, CallsOK, CallOK, Fair, CarriedOut, Previewed, ShownOK, DoneIsTrue
<1>2. CASE ArriveProof
  <2>1. /\ UNCHANGED <<page, dialog, shown, ran>> /\ proof # Nothing /\ proof' = Nothing
        /\ held' = held \/ held' = Nothing
    BY <1>2 DEF ArriveProof, server
  <2>2. CallsOK' /\ DoneIsTrue'
    <3>1. CASE UNCHANGED <<calls, said>>
      BY <2>1, <3>1 DEF PageInv, CallsOK, CallOK, Fair, CarriedOut, Previewed, DoneIsTrue
    <3>2. CASE Again(proof.of) /\ ~UNCHANGED <<calls, said>>
      <4>1. PICK via : Start(proof.of.click, proof.of.button, via, proof.of.body)
        BY <3>2 DEF Again
      <4>2. Fair(proof.of)
        BY <2>1 DEF PageInv, PromptOK
      <4> QED BY <2>1, <4>1, <4>2, StartKeeps DEF Fair
    <3> QED BY <1>2, <3>1, <3>2 DEF ArriveProof
  <2> QED BY <2>1, <2>2 DEF PageInv, PageOK, PromptOK, ShownOK, Fair, Previewed
<1> QED BY <1>1, <1>2

-----------------------------------------------------------------------------
\* The invariant: what is known of every request, held click and preview of a page.
THEOREM PageInvariant == PageSpec => []PageInv
<1>1. PageInit => PageInv
  BY PageInitially
<1>2. PageInv /\ [PageNext]_pageVars => PageInv'
  <2> SUFFICES ASSUME PageInv, [PageNext]_pageVars PROVE PageInv'
    OBVIOUS
  <2>1. CASE \E n \in DOMAIN Page[page] : Press(n)
    BY <2>1, PressKeeps
  <2>2. CASE Go
    BY <2>2, GoKeeps
  <2>3. CASE \E v \in Drafts : Type(v)
    BY <2>3, TypeKeeps
  <2>4. CASE \E k \in 1..MaxClicks : Answered(k)
    BY <2>4, ServeKeeps, ArriveKeeps DEF Answered
  <2>5. CASE ServeProof \/ ArriveProof
    BY <2>5, ProofKeeps
  <2>6. CASE \E k \in 0..MaxClicks : LoadAnswered(k)
    BY <2>6, PageStill DEF LoadAnswered
  <2>7. CASE Cancel \/ TryAgain \/ Prove \/ NotNow \/ TimePasses \/ UNCHANGED pageVars
    BY <2>7, PageStill
  <2> QED BY <2>1, <2>2, <2>3, <2>4, <2>5, <2>6, <2>7 DEF PageNext
<1> QED BY <1>1, <1>2, PTL DEF PageSpec

\* For any pages, drafts and number of clicks: a page that says a click is done says it of one
\* the server carried out; disabling an app is the exception (AppDetail.tsx act and its likes).
THEOREM DoneMeansDone == PageSpec => []DoneIsTrue
<1>1. PageInv => DoneIsTrue
  BY DEF PageInv
<1> QED BY <1>1, PageInvariant, PTL

\* For any drafts, whatever is typed, held or proved meanwhile: what is sent to be registered
\* from a preset is a draft the server has previewed (PresetForm.tsx).
THEOREM NothingUnseenRegistered == PageSpec => []RegisteredAsPreviewed
<1>1. PageInv => RegisteredAsPreviewed
  BY DEF PageInv, CallsOK, CallOK, Fair, Previewed, RegisteredAsPreviewed
<1> QED BY <1>1, PageInvariant, PTL

=============================================================================
