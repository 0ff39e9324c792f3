------------------------------ MODULE Accounts ------------------------------
(***************************************************************************)
(* The accounts: who may exist, as what, and with what to sign in.  First  *)
(* run (setup/first-run.ts), invites and re-enrol links (admin/invites.ts),*)
(* the admin handlers on a person (admin/routes.ts), a person's own factors*)
(* and password (account/routes.ts), asking for deletion and the daily     *)
(* purge (account/deletion.ts), and break-glass (setup/recovery.ts).       *)
(*                                                                         *)
(* A handler reads, awaits, and writes: `task` is what each one in flight  *)
(* has read.  A transaction is one step.  Left out: the sessions, tokens,  *)
(* devices and registrations that these handlers end (SignIn has the       *)
(* trusted devices), an invite's initial access, mail, audit rows, field   *)
(* validation, step-up freshness; and the sealed admin, the host's commands*)
(* and the state import, which also write user rows.                       *)
(***************************************************************************)
EXTENDS Naturals, FiniteSets

CONSTANTS
    Ids,        \* user ids that may be minted; one is never used twice
    Emails,
    Factors,    \* passkeys and confirmed authenticator apps
    Codes,      \* those that are authenticator apps
    InviteIds,
    Tasks,      \* handlers in flight at once
    Nobody,
    MaxTasks    \* bound: handlers that get past their first check

ASSUME AccountsAssumption ==
    /\ Nobody \notin Ids \cup Emails \cup InviteIds
    /\ Codes \subseteq Factors
    /\ MaxTasks \in Nat

VARIABLES
    user,      \* id -> its row
    invite,    \* invite id -> its row
    setupCode, \* whether a setup code is stored
    links,     \* accounts with an unopened break-glass link
    task,      \* handler -> where it stands
    spent,     \* history: invite id -> how often it was accepted
    asked,     \* history: accounts that asked for deletion, and were not reactivated
    cleared,   \* history: accounts whose factors an admin or break-glass took
    begun      \* bound: handlers so far

history == <<spent, asked, cleared>>
vars == <<user, invite, setupCode, links, task, history, begun>>

Kind == {"owner", "admin", "guest"}

\* "absent": not minted yet; "gone": purged.  deleteAfter is a date that is
\* unset, still to come, or passed.
User == [status : {"absent", "active", "suspended", "gone"},
         email : Emails \cup {Nobody}, kind : Kind,
         deleteAfter : {"unset", "coming", "passed"},
         password : BOOLEAN, factors : SUBSET Factors, unconfirmed : SUBSET Codes]

Absent == [status |-> "absent", email |-> Nobody, kind |-> "guest",
           deleteAfter |-> "unset", password |-> FALSE, factors |-> {},
           unconfirmed |-> {}]

Created(e, k) == [Absent EXCEPT !.status = "active", !.email = e, !.kind = k,
                                !.password = TRUE]

\* A row no longer there.
Purged == [Absent EXCEPT !.status = "gone"]

\* expiresAt has passed in "expired", by time or because it was revoked.
Invite == [state : {"unborn", "open", "expired", "accepted"},
           email : Emails \cup {Nobody}]

Unborn == [state |-> "unborn", email |-> Nobody]

Task == [pc : {"idle", "claim", "claimed", "invite", "accept", "kind", "suspend",
               "reactivate", "reset", "resetLink", "enrol", "remove", "password",
               "delete", "purge", "recover", "recoverClear"},
         id : Ids \cup {Nobody}, email : Emails \cup {Nobody},
         invite : InviteIds \cup {Nobody}, kind : Kind,
         factor : Factors \cup {Nobody}, due : SUBSET Ids]

Idle == [pc |-> "idle", id |-> Nobody, email |-> Nobody, invite |-> Nobody,
         kind |-> "guest", factor |-> Nobody, due |-> {}]

TypeOK ==
    /\ user \in [Ids -> User]
    /\ invite \in [InviteIds -> Invite]
    /\ setupCode \in BOOLEAN
    /\ links \subseteq Ids
    /\ task \in [Tasks -> Task]
    /\ spent \in [InviteIds -> Nat]
    /\ asked \subseteq Ids
    /\ cleared \subseteq Ids
    /\ begun \in Nat

Present(u) == user[u].status \in {"active", "suspended"}
Active(u) == user[u].status = "active"
WithEmail(e) == {u \in Ids : Present(u) /\ user[u].email = e}
isAdmin(u) == user[u].kind \in {"owner", "admin"}

\* An instance nobody has claimed, or one with its owner and some guests.
Unclaimed == user = [u \in Ids |-> Absent]
People(owner, guests, f, e) ==
    [u \in Ids |->
       IF u = owner THEN [Created(e[u], "owner") EXCEPT !.factors = f[u]]
       ELSE IF u \in guests THEN [Created(e[u], "guest") EXCEPT !.factors = f[u]]
       ELSE Absent]
Settled ==
    \E owner \in Ids, guests \in SUBSET Ids, f \in [Ids -> SUBSET Factors],
       e \in [Ids -> Emails] :
        /\ owner \notin guests
        /\ \A u, v \in guests \cup {owner} : u # v => e[u] # e[v]
        /\ f[owner] # {}
        /\ user = People(owner, guests, f, e)

Init ==
    /\ Unclaimed \/ Settled
    /\ invite = [i \in InviteIds |-> Unborn]
    /\ setupCode = FALSE
    /\ links = {}
    /\ task = [t \in Tasks |-> Idle]
    /\ spent = [i \in InviteIds |-> 0]
    /\ asked = {}
    /\ cleared = {}
    /\ begun = 0

\* Every passkey and every authenticator app, confirmed or not, deleted.
NoFactors(row) == [row EXCEPT !.factors = {}, !.unconfirmed = {}]

-----------------------------------------------------------------------------
(* Handlers in flight. *)

Start(t, next) ==
    /\ task[t] = Idle
    /\ begun < MaxTasks
    /\ begun' = begun + 1
    /\ task' = [task EXCEPT ![t] = next]
    /\ UNCHANGED <<user, invite, setupCode, links, history>>

At(t, pc) == task[t].pc = pc

Done(t) == task' = [task EXCEPT ![t] = Idle]

Write(u, row) == user' = [user EXCEPT ![u] = row]

\* update() on a row that is no longer there throws: 500, nothing written.
Update(u, row) == Write(u, IF Present(u) THEN row ELSE user[u])

-----------------------------------------------------------------------------
(* First run: setup/first-run.ts. *)

\* The process starts: handlers in flight are lost, and a code is minted if
\* there is no account.
Boot ==
    /\ task' = [t \in Tasks |-> Idle]
    /\ setupCode' = (setupCode \/ \A u \in Ids : ~Present(u))
    /\ UNCHANGED <<user, invite, links, history, begun>>

\* claim: no account yet, and the right code.
ClaimRead(t) ==
    /\ \A u \in Ids : ~Present(u)
    /\ setupCode
    /\ Start(t, [Idle EXCEPT !.pc = "claim"])

\* A mutant: not asked again inside the transaction.
ClaimCreateUnasked(t, u, e) ==
    /\ At(t, "claim")
    /\ user[u].status = "absent"
    /\ WithEmail(e) = {}
    /\ Write(u, Created(e, "owner"))
    /\ task' = [task EXCEPT ![t].pc = "claimed"]
    /\ UNCHANGED <<invite, setupCode, links, history, begun>>

\* The transaction asks again, under a lock, before it creates the owner.
ClaimCreate(t, u, e) ==
    /\ At(t, "claim")
    /\ user[u].status = "absent"
    /\ \A v \in Ids : ~Present(v)
    /\ Write(u, Created(e, "owner"))
    /\ task' = [task EXCEPT ![t].pc = "claimed"]
    /\ UNCHANGED <<invite, setupCode, links, history, begun>>

ClaimRefused(t) ==
    /\ At(t, "claim")
    /\ \E v \in Ids : Present(v)
    /\ Done(t)
    /\ UNCHANGED <<user, invite, setupCode, links, history, begun>>

\* The code is destroyed once the owner exists.
ClaimTidy(t) ==
    /\ At(t, "claimed")
    /\ setupCode' = FALSE
    /\ Done(t)
    /\ UNCHANGED <<user, invite, links, history, begun>>

-----------------------------------------------------------------------------
(* Invites: admin/invites.ts. *)

\* An admin invites an email that has no account.
InviteRead(t, a, e) ==
    /\ Active(a) /\ isAdmin(a)
    /\ WithEmail(e) = {}
    /\ Start(t, [Idle EXCEPT !.pc = "invite", !.email = e])

Mint(i, e) ==
    /\ invite[i] = Unborn
    /\ invite' = [invite EXCEPT ![i] = [state |-> "open", email |-> e]]

InviteMint(t, i) ==
    /\ At(t, "invite") \/ At(t, "resetLink")
    /\ Mint(i, task[t].email)
    /\ Done(t)
    /\ UNCHANGED <<user, setupCode, links, history, begun>>

\* An admin revokes it, or its hours pass.
InviteExpire(i) ==
    /\ invite[i].state = "open"
    /\ invite' = [invite EXCEPT ![i].state = "expired"]
    /\ UNCHANGED <<user, setupCode, links, task, history, begun>>

AcceptRead(t, i) ==
    /\ invite[i].state = "open"
    /\ Start(t, [Idle EXCEPT !.pc = "accept", !.invite = i])

Claim(i) ==
    /\ invite' = [invite EXCEPT ![i].state = "accepted"]
    /\ spent' = [spent EXCEPT ![i] = @ + 1]
    /\ UNCHANGED <<setupCode, links, asked, cleared, begun>>

\* The account of that email gets a new password, and is active.
Reenrolled(row) == [row EXCEPT !.password = TRUE, !.status = "active"]

\* A mutant: the invite is not claimed.
AcceptUnclaimed(t, u) ==
    LET i == task[t].invite  e == invite[i].email
    IN  /\ At(t, "accept")
        /\ IF WithEmail(e) # {}
             THEN u \in WithEmail(e) /\ Write(u, Reenrolled(user[u]))
             ELSE user[u].status = "absent" /\ Write(u, Created(e, "guest"))
        /\ Claim(i)
        /\ Done(t)

\* accept's transaction: claimed by acceptedAt alone, whatever has become of
\* the expiry; an account of that email is re-enrolled, else a guest is created.
Accept(t, u) ==
    LET i == task[t].invite  e == invite[i].email
    IN  /\ At(t, "accept")
        /\ invite[i].state # "accepted"
        /\ IF WithEmail(e) # {}
             THEN u \in WithEmail(e) /\ Write(u, Reenrolled(user[u]))
             ELSE user[u].status = "absent" /\ Write(u, Created(e, "guest"))
        /\ Claim(i)
        /\ Done(t)

AcceptTooLate(t) ==
    /\ At(t, "accept")
    /\ invite[task[t].invite].state = "accepted"
    /\ Done(t)
    /\ UNCHANGED <<user, invite, setupCode, links, history, begun>>

-----------------------------------------------------------------------------
(* What an admin does to a person: admin/routes.ts. *)

\* target(): not yourself, and not the owner.
TargetRead(t, a, u, what) ==
    /\ what \in {"suspend", "reactivate", "reset"}
    /\ Active(a) /\ isAdmin(a)
    /\ Present(u) /\ u # a /\ user[u].kind # "owner"
    /\ Start(t, [Idle EXCEPT !.pc = what, !.id = u, !.email = user[u].email])

Suspend(t) ==
    LET u == task[t].id
    IN  /\ At(t, "suspend")
        /\ Update(u, [user[u] EXCEPT !.status = "suspended"])
        /\ Done(t)
        /\ UNCHANGED <<invite, setupCode, links, history, begun>>

\* Reactivating also cancels a deletion the person asked for.
Reactivate(t) ==
    LET u == task[t].id
    IN  /\ At(t, "reactivate")
        /\ Update(u, [user[u] EXCEPT !.status = "active", !.deleteAfter = "unset"])
        /\ asked' = IF Present(u) THEN asked \ {u} ELSE asked
        /\ Done(t)
        /\ UNCHANGED <<invite, setupCode, links, spent, cleared, begun>>

\* Reset: every credential goes, then a re-enrol link is minted for the email.
Reset(t) ==
    LET u == task[t].id
    IN  /\ At(t, "reset")
        /\ Write(u, [NoFactors(user[u]) EXCEPT !.password = FALSE])
        /\ cleared' = cleared \cup {u}
        /\ task' = [task EXCEPT ![t].pc = "resetLink"]
        /\ UNCHANGED <<invite, setupCode, links, spent, asked, begun>>

\* The owner makes a person an admin, who must hold a factor, or a guest.
KindRead(t, a, u, k) ==
    /\ k \in {"admin", "guest"}
    /\ Active(a) /\ user[a].kind = "owner"
    /\ Present(u) /\ user[u].kind # "owner"
    /\ k = "admin" => user[u].factors # {}
    /\ Start(t, [Idle EXCEPT !.pc = "kind", !.id = u, !.kind = k])

KindWrite(t) ==
    LET u == task[t].id
    IN  /\ At(t, "kind")
        /\ Update(u, [user[u] EXCEPT !.kind = task[t].kind])
        /\ Done(t)
        /\ UNCHANGED <<invite, setupCode, links, history, begun>>

-----------------------------------------------------------------------------
(* What a person does to their own account: account/routes.ts. *)

\* totp.begin: a secret the person has yet to confirm.
BeginCode(u, c) ==
    /\ Active(u)
    /\ c \notin user[u].factors
    /\ Write(u, [user[u] EXCEPT !.unconfirmed = @ \cup {c}])
    /\ UNCHANGED <<invite, setupCode, links, task, history, begun>>

\* A passkey ceremony, or the code of an unconfirmed authenticator app.
EnrolRead(t, u, f) ==
    /\ Active(u)
    /\ f \in Codes => f \in user[u].unconfirmed
    /\ Start(t, [Idle EXCEPT !.pc = "enrol", !.id = u, !.factor = f])

\* A passkey is stored for whoever was signed in then; an authenticator app is
\* confirmed, which throws if its row has been deleted meanwhile.
Enrol(t) ==
    LET u == task[t].id  f == task[t].factor
    IN  /\ At(t, "enrol")
        /\ IF f \in Codes \ (user[u].unconfirmed \cup user[u].factors)
             THEN UNCHANGED user
             ELSE Update(u, [user[u] EXCEPT !.factors = @ \cup {f}, !.unconfirmed = @ \ {f}])
        /\ Done(t)
        /\ UNCHANGED <<invite, setupCode, links, history, begun>>

\* An admin keeps one: the factors are counted, and one is removed later.
RemoveRead(t, u, f) ==
    /\ Active(u)
    /\ isAdmin(u) => Cardinality(user[u].factors) > 1
    /\ Start(t, [Idle EXCEPT !.pc = "remove", !.id = u, !.factor = f])

Remove(t) ==
    LET u == task[t].id
    IN  /\ At(t, "remove")
        /\ Update(u, [user[u] EXCEPT !.factors = @ \ {task[t].factor},
                                    !.unconfirmed = @ \ {task[t].factor}])
        /\ Done(t)
        /\ UNCHANGED <<invite, setupCode, links, history, begun>>

\* The current password was right.
PasswordRead(t, u) ==
    /\ Active(u)
    /\ user[u].password
    /\ Start(t, [Idle EXCEPT !.pc = "password", !.id = u])

Password(t) ==
    LET u == task[t].id
    IN  /\ At(t, "password")
        /\ Update(u, [user[u] EXCEPT !.password = TRUE])
        /\ Done(t)
        /\ UNCHANGED <<invite, setupCode, links, history, begun>>

-----------------------------------------------------------------------------
(* Deletion: account/deletion.ts. *)

\* Asked for with a current authenticator code.
DeleteRead(t, u) ==
    /\ Active(u)
    /\ user[u].factors \cap Codes # {}
    /\ Start(t, [Idle EXCEPT !.pc = "delete", !.id = u])

OtherOwners(u) == {v \in Ids : Active(v) /\ user[v].kind = "owner"} \ {u}

\* A mutant: any owner may leave.
DeleteAnyOwner(t) ==
    LET u == task[t].id
    IN  /\ At(t, "delete")
        /\ Active(u)
        /\ Write(u, [user[u] EXCEPT !.status = "suspended", !.deleteAfter = "coming"])
        /\ asked' = asked \cup {u}
        /\ Done(t)
        /\ UNCHANGED <<invite, setupCode, links, spent, cleared, begun>>

\* requestDeletion's transaction, the active owners locked.
Delete(t) ==
    LET u == task[t].id
    IN  /\ At(t, "delete")
        /\ Active(u)
        /\ user[u].kind = "owner" => OtherOwners(u) # {}
        /\ Write(u, [user[u] EXCEPT !.status = "suspended", !.deleteAfter = "coming"])
        /\ asked' = asked \cup {u}
        /\ Done(t)
        /\ UNCHANGED <<invite, setupCode, links, spent, cleared, begun>>

\* "gone", or "last_owner".
DeleteRefused(t) ==
    LET u == task[t].id
    IN  /\ At(t, "delete")
        /\ ~Active(u) \/ (user[u].kind = "owner" /\ OtherOwners(u) = {})
        /\ Done(t)
        /\ UNCHANGED <<user, invite, setupCode, links, history, begun>>

\* The week of grace passes.
GracePasses(u) ==
    /\ user[u].deleteAfter = "coming"
    /\ Write(u, [user[u] EXCEPT !.deleteAfter = "passed"])
    /\ UNCHANGED <<invite, setupCode, links, task, history, begun>>

Due(u) == user[u].status = "suspended" /\ user[u].deleteAfter = "passed"

PurgeRead(t) ==
    /\ \E u \in Ids : Due(u)
    /\ Start(t, [Idle EXCEPT !.pc = "purge", !.due = {u \in Ids : Due(u)}])

\* On to the next account found.
NextDue(t, u) ==
    LET left == task[t].due \ {u}
    IN  task' = [task EXCEPT ![t] =
                   IF left = {} THEN Idle ELSE [task[t] EXCEPT !.due = left]]

\* A mutant: deleted by id, on what was found.
PurgeFound(t, u) ==
    /\ At(t, "purge")
    /\ u \in task[t].due
    /\ Write(u, Purged)
    /\ NextDue(t, u)
    /\ UNCHANGED <<invite, setupCode, links, history, begun>>

\* Each account found is deleted by a statement of its own that asks again.
Purge(t, u) ==
    /\ At(t, "purge")
    /\ u \in task[t].due
    /\ Write(u, IF Due(u) THEN Purged ELSE user[u])
    /\ NextDue(t, u)
    /\ UNCHANGED <<invite, setupCode, links, history, begun>>

-----------------------------------------------------------------------------
(* Break-glass: setup/recovery.ts. *)

\* The host mints a link; or it runs out.
LinkMint(u) ==
    /\ Present(u)
    /\ links' = links \cup {u}
    /\ UNCHANGED <<user, invite, setupCode, task, history, begun>>

LinkExpire(u) ==
    /\ links' = links \ {u}
    /\ UNCHANGED <<user, invite, setupCode, task, history, begun>>

RecoverRead(t, u) ==
    /\ u \in links
    /\ Start(t, [Idle EXCEPT !.pc = "recover", !.id = u])

\* The link is destroyed first; a suspended account goes no further.
RecoverDestroy(t) ==
    LET u == task[t].id
    IN  /\ At(t, "recover")
        /\ links' = links \ {u}
        /\ IF Active(u) THEN task' = [task EXCEPT ![t].pc = "recoverClear"] ELSE Done(t)
        /\ UNCHANGED <<user, invite, setupCode, history, begun>>

\* Every factor goes, whatever has become of the account since.
RecoverClear(t) ==
    LET u == task[t].id
    IN  /\ At(t, "recoverClear")
        /\ Write(u, NoFactors(user[u]))
        /\ cleared' = cleared \cup {u}
        /\ Done(t)
        /\ UNCHANGED <<invite, setupCode, links, spent, asked, begun>>

-----------------------------------------------------------------------------
Handler(t) ==
    \/ ClaimRead(t)
    \/ \E u \in Ids, e \in Emails : ClaimCreate(t, u, e)
    \/ ClaimRefused(t)
    \/ ClaimTidy(t)
    \/ \E a \in Ids, e \in Emails : InviteRead(t, a, e)
    \/ \E i \in InviteIds : InviteMint(t, i) \/ AcceptRead(t, i)
    \/ \E u \in Ids : Accept(t, u)
    \/ AcceptTooLate(t)
    \/ \E a, u \in Ids, what \in {"suspend", "reactivate", "reset"} :
         TargetRead(t, a, u, what)
    \/ Suspend(t)
    \/ Reactivate(t)
    \/ Reset(t)
    \/ \E a, u \in Ids, k \in {"admin", "guest"} : KindRead(t, a, u, k)
    \/ KindWrite(t)
    \/ \E u \in Ids, f \in Factors : EnrolRead(t, u, f) \/ RemoveRead(t, u, f)
    \/ Enrol(t)
    \/ Remove(t)
    \/ \E u \in Ids : PasswordRead(t, u)
    \/ Password(t)
    \/ \E u \in Ids : DeleteRead(t, u)
    \/ Delete(t)
    \/ DeleteRefused(t)
    \/ PurgeRead(t)
    \/ \E u \in Ids : Purge(t, u)
    \/ \E u \in Ids : RecoverRead(t, u)
    \/ RecoverDestroy(t)
    \/ RecoverClear(t)

Around ==
    \/ Boot
    \/ \E i \in InviteIds : InviteExpire(i)
    \/ \E u \in Ids : GracePasses(u) \/ LinkMint(u) \/ LinkExpire(u)
    \/ \E u \in Ids, c \in Codes : BeginCode(u, c)

Next == (\E t \in Tasks : Handler(t)) \/ Around

Spec == Init /\ [][Next]_vars

-----------------------------------------------------------------------------
(* Properties. *)

Owners == {u \in Ids : user[u].status # "absent" /\ user[u].kind = "owner"}

\* "The browser can claim the instance once -- and exactly once" (first-run.ts):
\* whatever claims race, there is never a second owner.
ClaimedOnce == \A u, v \in Owners : u = v

\* An instance that has people has an active owner: neither deletion, purge,
\* suspension nor demotion takes the last one (deletion.ts, admin/routes.ts).
OwnerRemains ==
    (\E u \in Ids : user[u].status # "absent") => \E u \in Owners : Active(u)

\* "Two taps on the same link: only the first one gets to create the account"
\* (invites.ts): an invite is accepted at most once.
InviteSpentOnce == \A i \in InviteIds : spent[i] <= 1

\* Nobody is purged who did not ask to be, and reactivating an account inside
\* the grace period cancels (deletion.ts): not even a purge that has already
\* found it deletes it.
PurgedOnRequest == \A u \in Ids : user[u].status = "gone" => u \in asked

-----------------------------------------------------------------------------
(* What comments promise and the code does not keep: TLC finds each of     *)
(* these violated (README, Known disagreements), and no run asks for them. *)

\* "An account cannot be made an admin without a factor, and an admin cannot
\* remove their way down to none" (factors.ts): an admin holds a factor, unless a
\* reset or break-glass took them.  (The owner starts out with none.)
AdminHoldsFactor ==
    \A u \in Ids :
        Present(u) /\ user[u].kind = "admin" /\ u \notin cleared => user[u].factors # {}

\* "A suspension is lifted in the console or not at all" (state.ts): a suspended
\* account becomes active only when an admin reactivates it.
SuspensionLiftedInConsole ==
    [][\A u \in Ids :
         user[u].status = "suspended" /\ user'[u].status = "active"
             => \E t \in Tasks : At(t, "reactivate") /\ task[t].id = u]_vars
=============================================================================
