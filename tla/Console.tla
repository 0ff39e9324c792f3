------------------------------ MODULE Console ------------------------------
(***************************************************************************)
(* A page of the console (apps/console/src): one person, one tab.  Every   *)
(* page is made of the same parts, shared/load.ts, shared/Confirm.tsx,     *)
(* shared/StepUp.tsx and an `act` of its own, and differs in its buttons:  *)
(* which ask first, which wait for one another, which hold the click when  *)
(* the server wants proof, what they do once it answered.  The pages below *)
(* are tables of that; the rest is what the parts do while requests are    *)
(* under way.                                                              *)
(*                                                                         *)
(* Left out: what a row shows and says, a field's own text except the four *)
(* drafts that are checked or confirmed before they are sent, lists loaded *)
(* beside a page's main one, the audit page's filters.  The prompt's proof *)
(* itself is in Guard, what a handler changes in the other modules.        *)
(***************************************************************************)
EXTENDS Integers, FiniteSets, TLC

CONSTANTS
    Pages,       \* those looked at: names of `Page`
    Drafts,      \* what may be typed, pasted or chosen
    Registered,  \* the draft that is what is registered already
    Nothing,
    MaxClicks,   \* bound: clicks that change something
    MaxTroubles    \* bound: requests or answers lost

ASSUME ConsoleAssumption ==
    Registered \in Drafts /\ Nothing \notin Drafts /\ {MaxClicks, MaxTroubles} \subseteq Nat

-----------------------------------------------------------------------------
(* The buttons.                                                            *)

\* Posts at once, shares the page's `busy`, says what happened and reloads.
Click == [waits |-> TRUE,     \* disabled while the page is busy
          shares |-> TRUE,    \* makes the page busy
          again |-> "never",  \* what is held when the server wants proof
          says |-> TRUE, reloads |-> TRUE, leaves |-> FALSE]
Asking == [Click EXCEPT !.again = "whole"]
Calling == [Click EXCEPT !.again = "call"]

\* These are asked again, in a dialog.
InDialog == {"rotate", "disable", "removeRoles", "reset", "invite", "remove", "create", "retire"}

Unheeding(b) == [b EXCEPT !.waits = FALSE]
Still(b) == [b EXCEPT !.reloads = FALSE]
Leaving(b) == [b EXCEPT !.reloads = FALSE, !.leaves = TRUE]

AppDetail == [
    revoke |-> Asking,
    manifest |-> Asking,
    enable |-> Asking,
    rotate |-> Still(Calling),
    disable |-> Calling]

\* Opened by the answer to `manifest`, never by a button.
RemoveRoles == Calling

PersonRow == [
    suspend |-> Click,
    kind |-> Unheeding(Click),
    reset |-> Unheeding(Click)]

InviteModal == [invite |-> Unheeding(Click)]

PersonDetail == [
    kind |-> Click,
    suspend |-> Click,
    grant |-> Click,
    revoke |-> Click,
    reset |-> Click]

GroupDetail == [
    members |-> Click,
    grant |-> Click,
    revoke |-> Click,
    remove |-> Leaving([Click EXCEPT !.says = FALSE])]

Groups == [create |-> Unheeding(Click)]

KeysPage == [
    generate |-> Asking,
    promote |-> Asking,
    retire |-> Asking]

Settings == [
    mail |-> Asking,
    alerts |-> Asking,
    lifetimes |-> Asking,
    test |-> Still(Click)]

Transfer == [import |-> Still(Asking)]
RegisterApp == [check |-> Still([Asking EXCEPT !.says = FALSE]), registerApp |-> Leaving(Asking)]
PresetForm == [preview |-> Still([Click EXCEPT !.says = FALSE]), registerPreset |-> Leaving(Asking)]

Security == [
    addPasskey |-> Asking,
    startTotp |-> Still([Asking EXCEPT !.says = FALSE]),
    confirmTotp |-> [Asking EXCEPT !.again = "nothing"],
    endOthers |-> Still(Asking),
    forget |-> Unheeding([Click EXCEPT !.shares = FALSE]),
    remove |-> Unheeding([Asking EXCEPT !.shares = FALSE, !.says = FALSE])]

Sessions == [end |-> Asking, endOthers |-> Asking, forgetDevice |-> Asking]
Password == [change |-> Still(Click)]
Profile == [save |-> Still(Click)]

Page == [AppDetail |-> AppDetail @@ "removeRoles" :> RemoveRoles,
         People |-> PersonRow @@ InviteModal, PersonDetail |-> PersonDetail,
         GroupDetail |-> GroupDetail, Groups |-> Groups, Keys |-> KeysPage, Settings |-> Settings,
         Transfer |-> Transfer @@ "look" :> Still([Unheeding(Click) EXCEPT !.says = FALSE]),
         RegisterApp |-> RegisterApp, PresetForm |-> PresetForm,
         Security |-> Security, Sessions |-> Sessions, Password |-> Password, Profile |-> Profile]

Drafted == {"AppDetail", "Transfer", "RegisterApp", "PresetForm"}
Account == {"Security", "Sessions", "Password", "Profile"}
Loaded == DOMAIN Page \ {"Transfer", "RegisterApp", "Password"}

\* The routes behind requireFreshOwner and requireFreshUser.
NeedsProof == {"manifest", "removeRoles", "rotate", "disable", "enable", "registerApp", "registerPreset",
               "mail", "import", "generate", "promote", "retire",
               "addPasskey", "startTotp", "confirmTotp", "remove", "end", "endOthers"}
Proving(p) == NeedsProof \ (IF p = "GroupDetail" THEN {"remove"} ELSE {})

Sends == {"manifest", "removeRoles", "import", "check", "registerApp", "preview", "registerPreset", "look"}
Looks == {"check", "preview", "look"}  \* answer with what a draft would do

-----------------------------------------------------------------------------

VARIABLES
    page,
    up,       \* the tab is still on it
    screen,   \* of useLoad
    busy,
    dialog,   \* the Confirm that is open
    held,     \* the click the prompt holds
    proof,    \* the prompt's request under way
    said,     \* the click the page says is done; a problem takes its place
    typed,    \* the draft
    shown,    \* the preview, plan or diff shown, and what it was asked of
    calls,    \* posts under way
    loads,    \* gets under way
    fresh, signed, allowed,  \* at the server: proved lately, signed in, may do this
    clicks, troubles,          \* bounds
    ran       \* history: the requests the server has carried out, by their click

looks == <<screen, said, typed, shown>>
server == <<fresh, signed, allowed, ran>>
pageVars == <<page, up, busy, dialog, held, proof, looks, calls, loads, server, clicks, troubles>>

Button(n) == Page[page][n]
NewCall(k, n, via, body) == [click |-> k, button |-> n, via |-> via, body |-> body, result |-> "sent"]
Carried(c) == [click |-> c.click, button |-> c.button, body |-> c.body]
NewLoad(k, loud) == [by |-> k, loud |-> loud, result |-> "sent"]

PageInit ==
    /\ page \in Pages
    /\ up = TRUE /\ busy = FALSE
    /\ screen = IF page \in Loaded THEN "loading" ELSE "ready"
    /\ loads = IF page \in Loaded THEN {NewLoad(0, TRUE)} ELSE {}
    /\ dialog = Nothing /\ held = Nothing /\ proof = Nothing /\ said = Nothing /\ shown = Nothing
    /\ typed = Registered
    /\ calls = {}
    /\ fresh = TRUE /\ signed = TRUE /\ allowed = TRUE
    /\ clicks = 0 /\ troubles = 0 /\ ran = {}

-----------------------------------------------------------------------------
(* What the person does.                                                   *)

\* A Confirm and the prompt are modal: nothing behind them is clicked.
AtHand == up /\ screen = "ready" /\ dialog = Nothing /\ held = Nothing

Start(k, n, via, body) ==
    /\ calls' = calls \cup {NewCall(k, n, via, body)}
    /\ IF via = "page"
       THEN /\ busy' = (busy \/ Button(n).shares)
            /\ said' = Nothing
       ELSE UNCHANGED <<busy, said>>

Body(n) == IF n \in Sends THEN typed ELSE Registered

Offered(n) ==
    /\ n \notin {"removeRoles", "look"}
    /\ n = "import" => shown # Nothing
    /\ n = "registerPreset" => shown # Nothing /\ shown.sent = typed
    /\ n = "preview" => ~(shown # Nothing /\ shown.sent = typed)

Press(n) ==
    /\ AtHand /\ Offered(n)
    /\ Button(n).waits => ~busy
    /\ IF n \in InDialog
       THEN dialog' = n /\ UNCHANGED <<calls, busy, said, clicks>>
       ELSE /\ clicks < MaxClicks /\ clicks' = clicks + 1
            /\ Start(clicks + 1, n, "page", Body(n))
            /\ UNCHANGED dialog
    /\ UNCHANGED <<page, up, held, proof, screen, typed, shown, loads, server, troubles>>

\* Confirm's own button, which is busy while its request is under way.
Go ==
    /\ up /\ dialog # Nothing /\ clicks < MaxClicks
    /\ \A c \in calls : c.via = "dialog" => c.button # dialog
    /\ clicks' = clicks + 1
    /\ Start(clicks + 1, dialog, "dialog", Body(dialog))
    /\ UNCHANGED <<page, up, dialog, held, proof, screen, typed, shown, loads, server, troubles>>

Cancel ==
    /\ up /\ dialog # Nothing /\ dialog' = Nothing
    /\ UNCHANGED <<page, up, busy, held, proof, looks, calls, loads, server, clicks, troubles>>

\* Typing waits for nothing.  A new draft takes down what the old one would do where the page
\* says so; a file chosen on the transfer page is looked at without a click.
Type(v) ==
    /\ AtHand /\ page \in Drafted /\ v # typed
    /\ typed' = v
    /\ shown' = IF page \in {"Transfer", "RegisterApp"} THEN Nothing ELSE shown
    /\ IF page = "Transfer"
       THEN /\ clicks < MaxClicks /\ clicks' = clicks + 1
            /\ Start(clicks + 1, "look", "page", v)
       ELSE UNCHANGED <<clicks, calls, busy, said>>
    /\ UNCHANGED <<page, up, dialog, held, proof, screen, loads, server, troubles>>

\* "Try again" on the error screen.
TryAgain ==
    /\ up /\ screen = "failed" /\ screen' = "loading"
    /\ loads' = loads \cup {NewLoad(clicks, TRUE)}
    /\ UNCHANGED <<page, up, busy, dialog, held, proof, said, typed, shown, calls, server, clicks, troubles>>

Prove ==
    /\ up /\ held # Nothing /\ proof = Nothing
    /\ proof' = [of |-> held, result |-> "sent"]
    /\ UNCHANGED <<page, up, busy, dialog, held, looks, calls, loads, server, clicks, troubles>>

NotNow ==
    /\ up /\ held # Nothing /\ held' = Nothing
    /\ UNCHANGED <<page, up, busy, dialog, proof, looks, calls, loads, server, clicks, troubles>>

-----------------------------------------------------------------------------
(* What the server and the network do.                                     *)

Trouble == troubles < MaxTroubles
MayDo == allowed \/ page \in Account

\* Where a request gets to: its guards in order, then its handler.
Outcomes(c) ==
    CASE ~signed -> {"sign_in_required"}
      [] signed /\ ~MayDo -> {"refused"}
      [] signed /\ MayDo /\ c.button \in Proving(page) /\ ~fresh -> {"step_up_required"}
      [] OTHER -> {"ok", "refused"} \cup (IF c.button = "manifest" THEN {"roles_in_use"} ELSE {})

Serve(c) ==
    /\ c.result = "sent"
    /\ \E r \in Outcomes(c), lost \in BOOLEAN :
         /\ lost => Trouble
         /\ troubles' = troubles + (IF lost THEN 1 ELSE 0)
         /\ calls' = (calls \ {c}) \cup {[c EXCEPT !.result = IF lost THEN "lost" ELSE r]}
         /\ ran' = IF r = "ok" THEN ran \cup {Carried(c)} ELSE ran
    /\ UNCHANGED <<page, up, busy, dialog, held, proof, looks, loads, fresh, signed, allowed, clicks>>

ServeLoad(g) ==
    /\ g.result = "sent"
    /\ \E lost \in BOOLEAN :
         /\ lost => Trouble
         /\ troubles' = troubles + (IF lost THEN 1 ELSE 0)
         /\ loads' = (loads \ {g}) \cup {[g EXCEPT !.result =
              IF lost THEN "failed" ELSE IF ~signed THEN "sign_in_required" ELSE IF ~MayDo THEN "denied" ELSE "data"]}
    /\ UNCHANGED <<page, up, busy, dialog, held, proof, looks, calls, server, clicks>>

ServeProof ==
    /\ proof # Nothing /\ proof.result = "sent"
    /\ \E r \in {"ok", "refused"} :
         /\ proof' = [proof EXCEPT !.result = IF signed THEN r ELSE "sign_in_required"]
         /\ fresh' = (fresh \/ (signed /\ r = "ok"))
    /\ UNCHANGED <<page, up, busy, dialog, held, looks, calls, loads, signed, allowed, ran, clicks, troubles>>

\* Five minutes pass; the session ends elsewhere; somebody makes them a guest.
TimePasses ==
    /\ \/ fresh /\ fresh' = FALSE /\ UNCHANGED <<signed, allowed>>
       \/ Trouble /\ signed /\ signed' = FALSE /\ UNCHANGED <<fresh, allowed>>
       \/ Trouble /\ allowed /\ allowed' = FALSE /\ UNCHANGED <<fresh, signed>>
    /\ troubles' = IF fresh' = fresh THEN troubles + 1 ELSE troubles
    /\ UNCHANGED <<page, up, busy, dialog, held, proof, looks, calls, loads, ran, clicks>>

-----------------------------------------------------------------------------
(* What the page does with an answer.                                      *)

\* A missing session sends the browser to sign in, and the request never settles.
Departs == up' = FALSE /\ UNCHANGED <<screen, said, typed, shown, busy, dialog, held, loads>>

SentNow(c) == typed
\* The fields a preview was asked of: those at the click, whatever has been typed since.
Sent(c) == c.body

Say(c) == said' = [click |-> c.click, button |-> c.button]

BusyWhileHeld(c) == busy /\ ~(c.via = "page" /\ Button(c.button).shares /\ c.result # "step_up_required")

\* `finally`: whatever the answer, the page is free again.
BusyAfter(c) == busy /\ ~(c.via = "page" /\ Button(c.button).shares)

Reload(c) == loads' = IF Button(c.button).reloads THEN loads \cup {NewLoad(c.click, FALSE)} ELSE loads

TellsWhileHeldAll(c) == c.via = "dialog"

\* The confirmation of disabling says so after its `try`, which a held click leaves as well.
TellsWhileHeld(c) == c.via = "dialog" /\ c.button = "disable"

\* Its repeated call, once they have proved it is them, is the request alone.
Silent(c) == c.via = "call" /\ c.button = "disable"

Done(c) ==
    /\ IF Button(c.button).says /\ ~Silent(c) THEN Say(c) ELSE UNCHANGED said
    /\ IF Silent(c) THEN UNCHANGED loads ELSE Reload(c)
    /\ shown' = IF c.button \in Looks THEN [sent |-> Sent(c), shows |-> c.body]
                ELSE IF c.button = "import" THEN Nothing ELSE shown
    /\ dialog' = IF dialog = c.button THEN Nothing ELSE dialog
    /\ up' = ~Button(c.button).leaves
    /\ UNCHANGED held

Asks(c) == c.result = "step_up_required" /\ c.via # "call" /\ Button(c.button).again # "never"

Ask(c) ==
    /\ held' = [click |-> c.click, button |-> c.button, body |-> c.body]
    /\ dialog' = IF c.via = "dialog" /\ dialog = c.button THEN Nothing ELSE dialog
    /\ IF TellsWhileHeld(c) THEN Say(c) /\ Reload(c) ELSE UNCHANGED <<said, loads>>
    /\ UNCHANGED <<up, shown>>

\* A dialog that failed stays open and says why; a repeated call that fails says nothing.
Fails(c) ==
    /\ IF c.via = "page" THEN said' = Nothing ELSE UNCHANGED said
    /\ shown' = IF c.button = "preview" THEN Nothing ELSE shown
    /\ UNCHANGED <<up, dialog, held, loads>>

Arrive(c) ==
    /\ up /\ c.result # "sent"
    /\ calls' = calls \ {c}
    /\ CASE c.result = "sign_in_required" -> Departs
         [] c.result = "roles_in_use" -> /\ dialog' = "removeRoles" /\ busy' = BusyAfter(c)
                                         /\ UNCHANGED <<up, held, looks, loads>>
         [] c.result = "ok" -> Done(c) /\ busy' = BusyAfter(c) /\ UNCHANGED <<screen, typed>>
         [] Asks(c) -> Ask(c) /\ busy' = BusyAfter(c) /\ UNCHANGED <<screen, typed>>
         [] OTHER -> Fails(c) /\ busy' = BusyAfter(c) /\ UNCHANGED <<screen, typed>>
    /\ UNCHANGED <<page, proof, server, clicks, troubles>>

\* The app's page puts the manifest of what it loaded back in the box, whatever was being written.
ArriveLoad(g) ==
    /\ up /\ g.result # "sent"
    /\ loads' = loads \ {g}
    /\ CASE g.result = "sign_in_required" -> up' = FALSE /\ UNCHANGED <<screen, typed>>
         [] g.result = "data" -> /\ screen' = "ready" /\ UNCHANGED up
                                 /\ typed' = IF page = "AppDetail" THEN Registered ELSE typed
         [] OTHER -> /\ screen' = IF screen = "ready" /\ ~g.loud THEN screen ELSE g.result
                     /\ UNCHANGED <<up, typed>>
    /\ UNCHANGED <<page, busy, dialog, held, proof, said, shown, calls, server, clicks, troubles>>

\* The prompt closes, whichever click it holds by now, and the one it was opened for goes again.
Again(h) ==
    CASE Button(h.button).again = "whole" -> Start(h.click, h.button, "page", h.body)
      [] Button(h.button).again = "call" -> Start(h.click, h.button, "call", h.body)
      [] OTHER -> UNCHANGED <<calls, busy, said>>

ArriveProof ==
    /\ up /\ proof # Nothing /\ proof.result # "sent"
    /\ proof' = Nothing
    /\ CASE proof.result = "ok" -> held' = Nothing /\ Again(proof.of) /\ UNCHANGED up
         [] proof.result = "refused" -> UNCHANGED <<held, calls, busy, said, up>>
         [] OTHER -> up' = FALSE /\ UNCHANGED <<held, calls, busy, said>>
    /\ UNCHANGED <<page, dialog, screen, typed, shown, loads, server, clicks, troubles>>

-----------------------------------------------------------------------------

Answered(k) == \E c \in calls : c.click = k /\ (Serve(c) \/ Arrive(c))
LoadAnswered(k) == \E g \in loads : g.by = k /\ (ServeLoad(g) \/ ArriveLoad(g))

PageNext ==
    \/ \E n \in DOMAIN Page[page] : Press(n)
    \/ \E v \in Drafts : Type(v)
    \/ Go \/ Cancel \/ TryAgain \/ Prove \/ NotNow
    \/ TimePasses
    \/ \E k \in 1..MaxClicks : Answered(k)
    \/ \E k \in 0..MaxClicks : LoadAnswered(k)
    \/ ServeProof \/ ArriveProof

\* A request is answered or fails in the end, and the page takes the answer; nobody has to click.
PageSpec ==
    /\ PageInit /\ [][PageNext]_pageVars
    /\ \A k \in 1..MaxClicks : WF_pageVars(Answered(k))
    /\ \A k \in 0..MaxClicks : WF_pageVars(LoadAnswered(k))
    /\ WF_pageVars(ServeProof) /\ WF_pageVars(ArriveProof)

-----------------------------------------------------------------------------
(* What a page promises.                                                   *)

\* "Done" on a page is true: the server carried that click out (AppDetail.tsx act, and its likes).
\* Disabling an app is the one button that says it while the prompt still holds the click.
DoneIsTrue ==
    said # Nothing => said.button = "disable" \/ \E d \in ran : d.click = said.click

\* What an app is registered with has been previewed (PresetForm.tsx): an edit, a late preview,
\* a proof that comes after the prompt was closed or the prompt in between does not put other
\* answers in.
RegisteredAsPreviewed ==
    \A c \in calls : c.button = "registerPreset" =>
        \E d \in ran : d.button \in Looks /\ d.body = c.body

\* A page comes back to the person: its buttons are free again after any answer, and what it loads
\* replaces the skeleton by something, unless the browser has gone to sign in.
PageComesBack ==
    /\ busy ~> (~busy \/ ~up)
    /\ (screen = "loading") ~> (screen # "loading" \/ ~up)

=============================================================================
