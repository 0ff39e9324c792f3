------------------------------- MODULE Guard -------------------------------
(***************************************************************************)
(* Proving it is you: one person's password, authenticator codes, the      *)
(* throttle before both (security/throttle.ts, security/totp.ts), and the  *)
(* five minutes a proof is good for (console/auth.ts, account/routes.ts).  *)
(* A browser of a person holds a session; the app on a phone holds a grant *)
(* and proves itself with a code alone.  The password changes in a browser *)
(* (A-3) or from the host (setup/owner-password.ts), and ends what the old *)
(* one had begun.  The console's prompt (shared/StepUp.tsx) holds a click  *)
(* that was refused until the person has proved themselves.                *)
(*                                                                         *)
(* `req` is a request in the server, cut at each await.  Left out: passkeys*)
(* (SignIn), how a sign-in is led through its steps (SignIn), telling apps *)
(* (Sessions), an address's counter, which is the same code with another   *)
(* number of free attempts, and the seconds: an instant is as long as a    *)
(* step of the authenticator.                                              *)
(***************************************************************************)
EXTENDS Integers, FiniteSets

CONSTANTS
    Browsers,         \* and apps on phones
    Native,           \* the apps
    Requests,
    None,
    freeAttempts, baseDelay, maxDelay,   \* ACCOUNT_POLICY
    Window,           \* steps a code may be away from now
    STEP_UP_WINDOW, SESSION_ABSOLUTE,
    MaxTime,          \* bound: instants
    MaxRequests,      \* bound: requests
    MaxPasswords      \* bound: changes of the password

ASSUME GuardAssumption ==
    /\ Native \subseteq Browsers /\ None \notin Browsers
    /\ {freeAttempts, baseDelay, maxDelay, Window, STEP_UP_WINDOW, SESSION_ABSOLUTE,
        MaxTime, MaxRequests, MaxPasswords} \subseteq Nat

VARIABLES
    now,
    counter,       \* the throttle's row; none is one without failures
    password,      \* which one is the person's: they are counted
    lastUsedStep,  \* of the authenticator
    session,       \* browser -> the provider's session, or the app's grant
    row,           \* browser -> our row of it
    req,
    host,          \* set-password in a shell
    prompt,        \* browser -> the console's page
    requests,      \* bound: requests so far
    proved,        \* history: browser -> when a proof made there was accepted
    accepted,      \* history: the steps of accepted codes
    crossed,       \* history: a code was written over one not read
    kept, missed,  \* history: sessions a change of the password is not meant to end, or cannot
    acted, clicked \* history: browser -> what was done there, and what was asked

stores == <<counter, password, lastUsedStep, session, row>>
histories == <<proved, accepted, crossed, kept, missed, acted, clicked>>
vars == <<now, stores, req, host, prompt, requests, histories>>

Never == -10  \* longer ago than any window

-----------------------------------------------------------------------------

Counter == [failures : 0..MaxRequests, at : Int, until : Int]
NoFailures == [failures |-> 0, at |-> Never, until |-> Never]

Session == [there : BOOLEAN, login : Int, by : 0..MaxPasswords]
NoSession == [there |-> FALSE, login |-> Never, by |-> 0]
Row == [there : BOOLEAN, revoked : BOOLEAN, steppedUpAt : Int]
NoRow == [there |-> FALSE, revoked |-> FALSE, steppedUpAt |-> Never]

Ops == {"signin", "factor", "stepup", "password", "act"}
Request == [pc : {"idle", "check", "verify", "count", "counted", "clear", "code", "spend",
                  "effect", "list", "end", "act"},
            op : Ops \cup {"none"}, from : Browsers \cup {None},
            saw : Counter, when : Int, code : Int, used : Int, by : 0..MaxPasswords, todo : SUBSET Browsers]

\* A request that has nothing in hand but what it is for.
Going(pc, op, from, by) ==
    [pc |-> pc, op |-> op, from |-> from, by |-> by,
     saw |-> NoFailures, when |-> Never, code |-> Never, used |-> Never, todo |-> {}]
Idle == Going("idle", "none", None, 0)

Host == [pc : {"ready", "write", "tokens", "done"}, uids : SUBSET Browsers]

Init ==
    /\ now = 0 /\ requests = 0
    /\ counter = NoFailures /\ password = 0 /\ lastUsedStep = Never
    /\ session = [b \in Browsers |-> [there |-> b \in Native, login |-> Never, by |-> 0]]
    /\ row = [b \in Browsers |-> NoRow]
    /\ req = [r \in Requests |-> Idle]
    /\ host = [pc |-> "ready", uids |-> {}]
    /\ prompt = [b \in Browsers |-> "none"]
    /\ proved = [b \in Browsers |-> Never]
    /\ accepted = {} /\ crossed = FALSE /\ kept = {} /\ missed = {}
    /\ acted = [b \in Browsers |-> 0] /\ clicked = [b \in Browsers |-> 0]

Tick ==
    /\ now < MaxTime
    /\ now' = now + 1
    /\ UNCHANGED <<stores, req, host, prompt, requests, histories>>

-----------------------------------------------------------------------------
(* The guards. *)

\* current: a session of a browser lasts SESSION_ABSOLUTE at most.
Current(b) == session[b].there /\ (b \in Native \/ now - session[b].login < SESSION_ABSOLUTE)

\* The freshest of the sign-in and the last step-up; an app's grant has no
\* sign-in to go by.
Freshest(b) ==
    LET login == IF b \in Native THEN Never ELSE session[b].login
    IN  IF row[b].there /\ row[b].steppedUpAt > login THEN row[b].steppedUpAt ELSE login

Fresh(b) == now - Freshest(b) <= STEP_UP_WINDOW

-----------------------------------------------------------------------------
(* The throttle. *)

\* A mutant: no greatest delay.
DelayAfterUncapped(failures) ==
    LET over == failures - freeAttempts
    IN  IF over <= 0 THEN 0 ELSE baseDelay * 2 ^ (over - 1)

\* delayAfter: doubling from the first failure that is not free.
DelayAfter(failures) ==
    LET over == failures - freeAttempts
        doubled == baseDelay * 2 ^ (over - 1)
    IN  IF over <= 0 THEN 0 ELSE IF doubled < maxDelay THEN doubled ELSE maxDelay

To(r, pc) == req' = [req EXCEPT ![r].pc = pc]

\* On to pc, with nothing in hand but what it is for.
On(r, pc) == req' = [req EXCEPT ![r] = Going(pc, req[r].op, req[r].from, req[r].by)]
Answer(r) == req' = [req EXCEPT ![r] = Idle]

\* Proved by a code alone: an app, and the second step of a sign-in.
ByCode(r) == req[r].from \in Native \/ req[r].op = "factor"

Blocked == counter.until > now

\* Before any work on a password or a code.
Check(r) ==
    /\ req[r].pc = "check"
    /\ IF Blocked THEN Answer(r)
       ELSE req' = [req EXCEPT ![r].pc = IF ByCode(r) THEN "code" ELSE "verify", ![r].saw = counter]
    /\ UNCHANGED <<now, stores, host, prompt, requests, histories>>

\* recordFailure reads the row ...
CountRead(r) ==
    /\ req[r].pc = "count"
    /\ req' = [req EXCEPT ![r].pc = "counted", ![r].when = now, ![r].used = counter.failures]
    /\ UNCHANGED <<now, stores, host, prompt, requests, histories>>

\* A mutant: the delay of the failure before.
CountWriteLate(r) ==
    LET when == req[r].when
        delay == DelayAfter(req[r].used)
    IN  /\ req[r].pc = "counted"
        /\ counter' = [failures |-> req[r].used + 1, at |-> when,
                       until |-> IF delay > 0 THEN when + delay ELSE Never]
        /\ Answer(r)
        /\ UNCHANGED <<now, password, lastUsedStep, session, row, host, prompt, requests, histories>>

\* ... and writes what it makes of it, whatever is there by then.
CountWrite(r) ==
    LET when == req[r].when
        failures == req[r].used + 1
        delay == DelayAfter(failures)
    IN  /\ req[r].pc = "counted"
        /\ counter' = [failures |-> failures, at |-> when,
                       until |-> IF delay > 0 THEN when + delay ELSE Never]
        /\ Answer(r)
        /\ UNCHANGED <<now, password, lastUsedStep, session, row, host, prompt, requests, histories>>

\* A success clears the row; the second step of a sign-in is another request.
Clear(r) ==
    /\ req[r].pc = "clear"
    /\ counter' = NoFailures
    /\ IF req[r].op = "signin"
       THEN req' = [req EXCEPT ![r].pc = "check", ![r].op = "factor"]
       ELSE To(r, IF ByCode(r) THEN "effect" ELSE "code")
    /\ UNCHANGED <<now, password, lastUsedStep, session, row, host, prompt, requests, histories>>

-----------------------------------------------------------------------------
(* The password, and the code. *)

\* The password that was typed, against the newest hash.
Verify(r) ==
    /\ req[r].pc = "verify"
    /\ \/ To(r, "count")
       \/ req' = [req EXCEPT ![r] = Going("clear", req[r].op, req[r].from, password)]
    /\ UNCHANGED <<now, stores, host, prompt, requests, histories>>

\* A mutant: the code that was accepted last is accepted again.
ReplayOffByOne(step) == step < lastUsedStep

\* This code, or a newer one, has been accepted.
Replay(step) == step <= lastUsedStep

\* A code of about now, which was typed a moment ago: the step it is of.
CodeRead(r) ==
    /\ req[r].pc = "code"
    /\ \E step \in 0..MaxTime :
         IF step \in now - Window .. now + Window /\ ~Replay(step)
         THEN req' = [req EXCEPT ![r].pc = "spend", ![r].code = step, ![r].used = lastUsedStep]
         ELSE IF ByCode(r) THEN To(r, "count") ELSE Answer(r)
    /\ UNCHANGED <<now, stores, host, prompt, requests, histories>>

CodeWrite(r) ==
    LET step == req[r].code
    IN  /\ req[r].pc = "spend"
        /\ lastUsedStep' = step
        /\ accepted' = accepted \cup {step}
        /\ crossed' = (crossed \/ lastUsedStep # req[r].used)
        /\ On(r, IF ByCode(r) THEN "clear" ELSE "effect")
        /\ UNCHANGED <<now, counter, password, session, row, host, prompt, requests,
                       proved, kept, missed, acted, clicked>>

-----------------------------------------------------------------------------
(* What it was for. *)

\* The row may be lost without breaking the sign-in (interaction/sessions.ts).
SignedIn(r) ==
    LET b == req[r].from
    IN  /\ req[r].pc = "effect" /\ req[r].op = "factor"
        /\ session' = [session EXCEPT ![b] = [there |-> TRUE, login |-> now, by |-> req[r].by]]
        /\ \E there \in BOOLEAN :
             /\ row' = [row EXCEPT ![b] = [there |-> there, revoked |-> FALSE, steppedUpAt |-> Never]]
             /\ missed' = IF there /\ req[r].by = password /\ host.pc # "write" THEN missed \ {b}
                          ELSE missed \cup {b}
        /\ kept' = kept \ {b}
        /\ proved' = [proved EXCEPT ![b] = now]
        /\ Answer(r)
        /\ UNCHANGED <<now, counter, password, lastUsedStep, host, prompt, requests, accepted,
                       crossed, acted, clicked>>

\* A mutant: the rows of every session.
SteppedUpEverywhere(b) ==
    [c \in Browsers |-> IF row[c].there THEN [row[c] EXCEPT !.steppedUpAt = now] ELSE row[c]]

\* The row of this session, if it is there; an app's is created.
SteppedUpHere(b) ==
    IF b \in Native THEN [row EXCEPT ![b] = [there |-> TRUE, revoked |-> FALSE, steppedUpAt |-> now]]
    ELSE IF row[b].there THEN [row EXCEPT ![b].steppedUpAt = now] ELSE row

\* Then the prompt closes, and what it held runs again, also when the person
\* had closed it before the answer came.
SteppedUp(r) ==
    LET b == req[r].from
    IN  /\ req[r].pc = "effect" /\ req[r].op = "stepup"
        /\ row' = SteppedUpHere(b)
        /\ proved' = [proved EXCEPT ![b] = now]
        /\ prompt' = [prompt EXCEPT ![b] = IF @ \in {"proving", "away"} THEN "retry" ELSE @]
        /\ Answer(r)
        /\ UNCHANGED <<now, counter, password, lastUsedStep, session, host, requests, accepted,
                       crossed, kept, missed, acted, clicked>>

Held(b) == [prompt EXCEPT ![b] = "held"]

PasswordWrite(r) ==
    LET b == req[r].from
    IN  /\ req[r].pc = "effect" /\ req[r].op = "password" /\ password < MaxPasswords
        /\ password' = password + 1
        /\ kept' = IF b \in Native THEN {} ELSE {b}
        /\ To(r, "list")
        /\ UNCHANGED <<now, counter, lastUsedStep, session, row, host, prompt, requests, proved,
                       accepted, crossed, missed, acted, clicked>>

\* A mutant: those that stepped up.
OthersSteppedUp(b) == {c \in Browsers \ Native : row[c].there /\ ~row[c].revoked /\ c # b /\ row[c].steppedUpAt # Never}

\* Every other session; an app has no session to keep.
Others(b) == {c \in Browsers \ Native : row[c].there /\ ~row[c].revoked /\ c # b}

PasswordList(r) ==
    /\ req[r].pc = "list"
    /\ req' = [req EXCEPT ![r].pc = "end", ![r].todo = Others(req[r].from)]
    /\ UNCHANGED <<now, stores, host, prompt, requests, histories>>

\* One by one; then the rows, and without a session to keep every token too.
PasswordEnd(r) ==
    LET b == req[r].from
    IN  /\ req[r].pc = "end"
        /\ session' = [c \in Browsers |-> IF c \in req[r].todo \/ (b \in Native /\ c \in Native)
                                          THEN NoSession ELSE session[c]]
        /\ row' = [c \in Browsers |-> IF c \in req[r].todo THEN [row[c] EXCEPT !.revoked = TRUE] ELSE row[c]]
        /\ Answer(r)
        /\ UNCHANGED <<now, counter, password, lastUsedStep, host, prompt, requests, histories>>

Act(r) ==
    /\ req[r].pc = "act"
    /\ acted' = [acted EXCEPT ![req[r].from] = @ + 1]
    /\ Answer(r)
    /\ UNCHANGED <<now, stores, host, prompt, requests, proved, accepted, crossed, kept, missed, clicked>>

-----------------------------------------------------------------------------
(* Requests. *)

Proof(r, op, b) == req' = [req EXCEPT ![r] = Going("check", op, b, 0)]

Starting(r) ==
    /\ req[r].pc = "idle" /\ requests < MaxRequests
    /\ requests' = requests + 1

SignIn(r, b) ==
    /\ Starting(r)
    /\ b \notin Native /\ ~Current(b)
    /\ Proof(r, "signin", b)
    /\ UNCHANGED <<now, stores, host, prompt, histories>>

ChangePassword(r, b) ==
    /\ Starting(r)
    /\ Current(b) /\ password < MaxPasswords
    /\ Proof(r, "password", b)
    /\ UNCHANGED <<now, stores, host, prompt, histories>>

\* A mutant: the click stays held after it has run.
AskAndKeep(r, b) ==
    IF ~Current(b) THEN /\ UNCHANGED req
                        /\ prompt' = [prompt EXCEPT ![b] = "none"]
    ELSE IF Fresh(b) THEN /\ req' = [req EXCEPT ![r] = Going("act", "act", b, 0)]
                          /\ UNCHANGED prompt
    ELSE /\ UNCHANGED req
         /\ prompt' = Held(b)

\* requireFresh, and what the console makes of its refusal: the click is held.
Ask(r, b) ==
    IF ~Current(b) THEN /\ UNCHANGED req
                        /\ prompt' = [prompt EXCEPT ![b] = "none"]
    ELSE IF Fresh(b) THEN /\ req' = [req EXCEPT ![r] = Going("act", "act", b, 0)]
                          /\ prompt' = [prompt EXCEPT ![b] = "none"]
    ELSE /\ UNCHANGED req
         /\ prompt' = Held(b)

\* One click is followed, in one of the browsers (bound).
Click(r, b) ==
    /\ req[r].pc = "idle" /\ \A c \in Browsers : clicked[c] = 0
    /\ prompt[b] = "none"
    /\ Ask(r, b)
    /\ clicked' = [clicked EXCEPT ![b] = @ + 1]
    /\ UNCHANGED <<now, stores, host, requests, proved, accepted, crossed, kept, missed, acted>>

Retry(r, b) ==
    /\ req[r].pc = "idle"
    /\ prompt[b] = "retry"
    /\ Ask(r, b)
    /\ UNCHANGED <<now, stores, host, requests, histories>>

\* The prompt is not shown again while its proof is on its way.
Prove(r, b) ==
    /\ Starting(r)
    /\ prompt[b] = "held" /\ Current(b)
    /\ Proof(r, "stepup", b)
    /\ prompt' = [prompt EXCEPT ![b] = "proving"]
    /\ UNCHANGED <<now, stores, host, histories>>

\* The proof was refused: the person tries again.
TryAgain(b) ==
    /\ prompt[b] \in {"proving", "away"}
    /\ \A r \in Requests : req[r].op = "stepup" => req[r].from # b
    /\ prompt' = [prompt EXCEPT ![b] = IF @ = "proving" THEN "held" ELSE "none"]
    /\ UNCHANGED <<now, stores, req, host, requests, histories>>

\* The button is off while a proof is on its way; the dialog still closes.
NotNow(b) ==
    /\ prompt[b] \in {"held", "proving"}
    /\ prompt' = [prompt EXCEPT ![b] = IF @ = "held" THEN "none" ELSE "away"]
    /\ UNCHANGED <<now, stores, req, host, requests, histories>>

-----------------------------------------------------------------------------
(* set-password, in a shell. *)

HostRead ==
    /\ host.pc = "ready" /\ password < MaxPasswords
    /\ host' = [pc |-> "write", uids |-> {b \in Browsers \ Native : row[b].there /\ ~row[b].revoked}]
    /\ UNCHANGED <<now, stores, req, prompt, requests, histories>>

\* One transaction: the sessions it had listed, every row, and the throttle.
HostWrite ==
    /\ host.pc = "write"
    /\ password < MaxPasswords
    /\ password' = password + 1
    /\ session' = [b \in Browsers |-> IF b \in host.uids THEN NoSession ELSE session[b]]
    /\ row' = [b \in Browsers |-> IF b \notin Native /\ row[b].there THEN [row[b] EXCEPT !.revoked = TRUE] ELSE row[b]]
    /\ counter' = NoFailures
    /\ kept' = {}
    /\ host' = [host EXCEPT !.pc = "tokens"]
    /\ UNCHANGED <<now, lastUsedStep, req, prompt, requests, proved, accepted, crossed, missed, acted, clicked>>

HostTokens ==
    /\ host.pc = "tokens"
    /\ session' = [b \in Browsers |-> IF b \in Native THEN NoSession ELSE session[b]]
    /\ host' = [host EXCEPT !.pc = "done"]
    /\ UNCHANGED <<now, counter, password, lastUsedStep, row, req, prompt, requests, histories>>

-----------------------------------------------------------------------------

Proving(r) ==
    \/ Check(r) \/ CountRead(r) \/ CountWrite(r) \/ Clear(r)
    \/ Verify(r) \/ CodeRead(r) \/ CodeWrite(r)

Effects(r) ==
    \/ SignedIn(r) \/ SteppedUp(r) \/ Act(r)
    \/ PasswordWrite(r) \/ PasswordList(r) \/ PasswordEnd(r)

Asking(r, b) == SignIn(r, b) \/ ChangePassword(r, b) \/ Click(r, b) \/ Retry(r, b) \/ Prove(r, b)

Next ==
    \/ Tick
    \/ HostRead \/ HostWrite \/ HostTokens
    \/ \E r \in Requests : Proving(r) \/ Effects(r) \/ \E b \in Browsers : Asking(r, b)
    \/ \E b \in Browsers : TryAgain(b) \/ NotNow(b)

Spec == Init /\ [][Next]_vars

-----------------------------------------------------------------------------
(* Properties. *)

\* The rows hold what the schema says; and "nobody can lock a person out by guessing
\* at their email" (throttle.ts): no row blocks for longer than the greatest delay.
TypeOK ==
    /\ counter \in Counter /\ counter.until <= now + maxDelay
    /\ password \in 0..MaxPasswords
    /\ session \in [Browsers -> Session] /\ row \in [Browsers -> Row]
    /\ req \in [Requests -> Request] /\ host \in Host
    /\ prompt \in [Browsers -> {"none", "held", "proving", "away", "retry"}]

\* requireFresh (auth.ts): it admits a session exactly while a proof made in that
\* session, by signing in or in the prompt, is not older than the window; a proof
\* made elsewhere opens nothing, and one made here is not asked for twice.
FreshIffProved ==
    \A b \in Browsers : session[b].there /\ (row[b].there \/ b \in Native) =>
        (Fresh(b) <=> now - proved[b] <= STEP_UP_WINDOW)

\* "This code, or an older one, has already been accepted" (totp.ts): with no two
\* checks of a code overlapping, what is accepted is newer than all accepted before.
CodeSpentOnce ==
    [][\A r \in Requests : req[r].pc = "spend" /\ req'[r].pc # "spend" /\ ~crossed'
         => req[r].code \notin accepted]_vars

\* throttle.ts: a failure nobody raced with comes no sooner after the one before
\* than that one's delay.
GuessesSpaced ==
    [][\A r \in Requests : req[r].pc = "counted" /\ req'[r].pc = "idle" /\ counter = req[r].saw
         => req[r].when >= counter.at + DelayAfter(counter.failures)]_vars

Quiet == host.pc # "tokens" /\ \A r \in Requests : req[r].pc \notin {"list", "end"}

\* "Every other session belonged to the old password" (account/routes.ts): when no
\* change is under way, a browser's session was begun with the password there is
\* now, or is the one that changed it -- but for a session that began while the
\* password changed, or whose row was lost.
OldPasswordOut ==
    Quiet => \A b \in Browsers \ Native :
        session[b].there => session[b].by = password \/ b \in kept \cup missed

\* StepUp.tsx: the click that asked is held and runs once; nothing is done that
\* nobody asked for, however often the proof is refused or put off.
DoneOnce == \A b \in Browsers : acted[b] <= clicked[b]

=============================================================================
