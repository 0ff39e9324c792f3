-------------------------- MODULE Accounts_proofs --------------------------
(***************************************************************************)
(* What holds of the accounts for any ids, emails, invites and handlers in *)
(* flight: the types, that the instance is claimed once and keeps its      *)
(* owner, that an invite is accepted once, and that only who asked to be   *)
(* is purged.                                                              *)
(*                                                                         *)
(* OwnerOK is the heart of it: a handler that is about to change a person  *)
(* has seen somebody who was not the owner, and nobody becomes the owner   *)
(* while anybody exists; so no write, however late, falls on the owner.    *)
(***************************************************************************)
EXTENDS Accounts, TLAPS

\* On an instance nobody has claimed, nothing can be under way but a claim.
NothingYet ==
    /\ \A i \in InviteIds : invite[i] = Unborn
    /\ \A t \in Tasks : task[t].pc \in {"idle", "claim"}
    /\ links = {}

OwnerOK ==
    /\ ClaimedOnce
    /\ OwnerRemains
    /\ (\A u \in Ids : user[u].status = "absent") => NothingYet

\* What a handler in flight has read: the person it is about to change exists,
\* or did, and is not the owner; and it will make nobody one.
TaskFine(k) ==
    /\ k.pc \in {"suspend", "reactivate", "reset", "kind"}
         => /\ k.id \in Ids
            /\ user[k.id].status # "absent"
            /\ user[k.id].kind # "owner"
    /\ k.pc = "kind" => k.kind # "owner"
    /\ k.pc \in {"enrol", "remove", "password", "delete", "recover", "recoverClear"}
         => k.id \in Ids /\ user[k.id].status # "absent"
    /\ k.pc \in {"enrol", "remove"} => k.factor \in Factors
    /\ k.pc = "accept" => k.invite \in InviteIds /\ invite[k.invite].state # "unborn"
    /\ k.pc \in {"invite", "reset", "resetLink"} => k.email \in Emails

TasksOK == \A t \in Tasks : TaskFine(task[t])

\* Every account that can be found has an email, and so has every invite; a
\* break-glass link is the link of an account.
RowsOK ==
    /\ \A u \in Ids : Present(u) => user[u].email \in Emails
    /\ \A i \in InviteIds : invite[i].state # "unborn" => invite[i].email \in Emails
    /\ \A u \in links : user[u].status # "absent"

\* A date is set only on accounts that asked.
AskedOK ==
    /\ PurgedOnRequest
    /\ \A u \in Ids :
         user[u].deleteAfter # "unset" => u \in asked /\ user[u].status # "absent"

SpentOK ==
    \A i \in InviteIds : spent[i] = IF invite[i].state = "accepted" THEN 1 ELSE 0

IInv == TypeOK /\ OwnerOK /\ TasksOK /\ RowsOK /\ AskedOK /\ SpentOK

-----------------------------------------------------------------------------
(* What a step that changes people may do to them. *)

Someone == \E u \in Ids : user[u].status # "absent"

\* Nobody vanishes without a trace, the owner stays the active owner, and nobody
\* becomes one.
Keeps ==
    \A u \in Ids :
        /\ user[u].status # "absent" => user'[u].status # "absent"
        /\ user[u].status # "absent" /\ user[u].kind # "owner" => user'[u].kind # "owner"
        /\ user[u].status = "active" /\ user[u].kind = "owner"
             => user'[u].status = "active" /\ user'[u].kind = "owner"
        /\ user[u].status = "absent" => user'[u] = user[u] \/ user'[u].kind # "owner"

InvitesStay == \A i \in InviteIds : invite[i].state # "unborn" => invite'[i].state # "unborn"

\* An owner, while one exists, is active.
LEMMA OwnerActive ==
    ASSUME OwnerOK, NEW u \in Ids, user[u].status # "absent", user[u].kind = "owner"
    PROVE  user[u].status = "active"
BY DEF OwnerOK, ClaimedOnce, OwnerRemains, Owners, Active

\* Steps that keep people keep the owner, and what handlers have read.
LEMMA StepOK ==
    ASSUME IInv, TypeOK', Someone, Keeps, InvitesStay,
           \A s \in Tasks : task'[s] = task[s] \/ TaskFine(task'[s])
    PROVE  OwnerOK' /\ TasksOK'
<1>1. \A u \in Ids : u \in Owners' => u \in Owners
  BY DEF Keeps, Owners
<1>2. ClaimedOnce'
  BY <1>1 DEF IInv, OwnerOK, ClaimedOnce, Owners
<1>3. PICK o \in Ids : o \in Owners /\ user[o].status = "active"
  BY DEF IInv, OwnerOK, OwnerRemains, Someone, Owners, Active
<1>4. o \in Owners' /\ user'[o].status = "active"
  BY <1>3 DEF Keeps, Owners
<1>5. OwnerRemains'
  BY <1>4 DEF OwnerRemains, Active, Owners
<1>6. OwnerOK'
  BY <1>2, <1>4, <1>5 DEF OwnerOK
<1>7. TasksOK'
  <2> SUFFICES ASSUME NEW s \in Tasks PROVE TaskFine(task[s])'
    BY DEF TasksOK
  <2>1. TaskFine(task'[s])
    BY DEF IInv, TasksOK, TaskFine
  <2> QED
    BY <2>1 DEF TaskFine, Keeps, InvitesStay
<1> QED
  BY <1>6, <1>7

\* A handler takes its place among those in flight.
LEMMA StartOK ==
    ASSUME IInv, NEW t \in Tasks, NEW next \in Task, Start(t, next), TaskFine(next),
           Someone \/ next.pc = "claim"
    PROVE  IInv'
<1>1. TypeOK'
  BY DEF IInv, TypeOK, Start, history
<1>2. /\ user' = user /\ invite' = invite /\ links' = links /\ asked' = asked
      /\ spent' = spent
      /\ task' = [task EXCEPT ![t] = next]
  BY DEF Start, history
<1>3. \A s \in Tasks : task'[s] = task[s] \/ task'[s] = next
  BY <1>2 DEF IInv, TypeOK
<1>4. OwnerOK' /\ TasksOK'
  <2>1. CASE Someone
    <3>1. Keeps /\ InvitesStay
      BY <1>2 DEF Keeps, InvitesStay
    <3>2. \A s \in Tasks : task'[s] = task[s] \/ TaskFine(task'[s])
      BY <1>3 DEF TaskFine
    <3> QED
      BY <1>1, <2>1, <3>1, <3>2, StepOK
  <2>2. CASE ~Someone
    <3>1. next.pc = "claim" /\ NothingYet
      BY <2>2 DEF IInv, OwnerOK, Someone
    <3>2. NothingYet'
      BY <1>2, <1>3, <3>1 DEF NothingYet
    <3>3. OwnerOK'
      BY <1>2, <3>2 DEF IInv, OwnerOK, ClaimedOnce, OwnerRemains, Owners, Active
    <3>4. TasksOK'
      BY <1>2, <1>3 DEF IInv, TasksOK, TaskFine
    <3> QED
      BY <3>3, <3>4
  <2> QED
    BY <2>1, <2>2
<1>5. RowsOK' /\ AskedOK' /\ SpentOK'
  BY <1>2 DEF IInv, RowsOK, AskedOK, SpentOK, Present, PurgedOnRequest
<1> QED
  BY <1>1, <1>4, <1>5 DEF IInv

\* Steps that leave every account as it is.
LEMMA PeopleUnchanged ==
    ASSUME IInv, TypeOK', user' = user, asked' = asked, InvitesStay, Someone \/ NothingYet',
           \A s \in Tasks : task'[s] \in {task[s], Idle}
    PROVE  OwnerOK' /\ TasksOK' /\ AskedOK'
<1>1. AskedOK'
  BY DEF IInv, AskedOK, PurgedOnRequest
<1>2. \A s \in Tasks : task'[s] = task[s] \/ TaskFine(task'[s])
  BY DEF TaskFine, Idle
<1>3. CASE Someone
  <2>1. Keeps
    BY DEF Keeps
  <2> QED
    BY <1>1, <1>2, <1>3, <2>1, StepOK
<1>4. CASE ~Someone /\ NothingYet'
  <2>1. OwnerOK'
    BY <1>4 DEF IInv, OwnerOK, ClaimedOnce, OwnerRemains, Owners, Active, Someone
  <2>2. TasksOK'
    <3> SUFFICES ASSUME NEW s \in Tasks PROVE TaskFine(task[s])'
      BY DEF TasksOK
    <3>1. TaskFine(task'[s])
      BY <1>2 DEF IInv, TasksOK, TaskFine
    <3> QED
      BY <3>1 DEF TaskFine, InvitesStay
  <2> QED
    BY <1>1, <2>1, <2>2
<1> QED
  BY <1>3, <1>4

\* Steps that write one account.
LEMMA RowWritten ==
    ASSUME IInv, TypeOK', NEW u \in Ids, NEW row \in User, Write(u, row),
           Someone, InvitesStay,
           \A s \in Tasks : task'[s] = task[s] \/ TaskFine(task'[s]),
           row.status # "absent",
           user[u].status = "absent" \/ user[u].kind # "owner" => row.kind # "owner",
           user[u].status = "active" /\ user[u].kind = "owner"
             => row.status = "active" /\ row.kind = "owner",
           row.status \in {"active", "suspended"} => row.email \in Emails,
           \A v \in asked : v = u \/ v \in asked',
           row.status = "gone" \/ row.deleteAfter # "unset" => u \in asked'
    PROVE  /\ OwnerOK' /\ TasksOK' /\ AskedOK'
           /\ \A v \in Ids : Present(v)' => user'[v].email \in Emails
           /\ \A v \in Ids : user[v].status # "absent" => user'[v].status # "absent"
<1>1. user' = [user EXCEPT ![u] = row]
  BY DEF Write
<1>2. user'[u] = row /\ \A v \in Ids : v # u => user'[v] = user[v]
  BY <1>1 DEF IInv, TypeOK
<1>3. Keeps
  BY <1>2 DEF Keeps
<1>4. OwnerOK' /\ TasksOK'
  BY <1>3, StepOK
<1>5. AskedOK'
  BY <1>2 DEF IInv, AskedOK, PurgedOnRequest
<1>6. \A v \in Ids : Present(v)' => user'[v].email \in Emails
  BY <1>2 DEF IInv, RowsOK, Present
<1> QED
  BY <1>3, <1>4, <1>5, <1>6 DEF Keeps

-----------------------------------------------------------------------------
(* Initially. *)

LEMMA InitHolds == Init => IInv
<1> SUFFICES ASSUME Init PROVE IInv
  OBVIOUS
<1>1. Absent \in User
  BY DEF Absent, User, Kind
<1>2. \A e \in Emails, k \in Kind, f \in SUBSET Factors :
         [Created(e, k) EXCEPT !.factors = f] \in User
  BY DEF Created, Absent, User
<1>3. user \in [Ids -> User]
  <2>1. CASE Unclaimed
    BY <1>1, <2>1 DEF Unclaimed
  <2>2. CASE Settled
    <3>1. PICK owner \in Ids, guests \in SUBSET Ids, f \in [Ids -> SUBSET Factors],
               e \in [Ids -> Emails] :
             user = People(owner, guests, f, e)
      BY <2>2 DEF Settled
    <3>2. \A u \in Ids : user[u] \in User
      BY <1>1, <1>2, <3>1 DEF Kind, People
    <3> QED
      BY <3>1, <3>2 DEF People
  <2> QED
    BY <2>1, <2>2 DEF Init
<1>4. TypeOK
  BY <1>3 DEF Init, TypeOK, Invite, Unborn, Task, Idle, Kind
<1>5. NothingYet
  BY DEF Init, NothingYet, Idle
<1>6. /\ OwnerOK
      /\ \A u \in Ids : user[u].status # "gone"
      /\ \A u \in Ids : user[u].deleteAfter = "unset"
      /\ \A u \in Ids : Present(u) => user[u].email \in Emails
  <2>1. CASE Unclaimed
    BY <1>5, <2>1 DEF Unclaimed, OwnerOK, ClaimedOnce, OwnerRemains, Owners, Active, Absent,
                      Present
  <2>2. CASE Settled
    <3>1. PICK owner \in Ids, guests \in SUBSET Ids, f \in [Ids -> SUBSET Factors],
               e \in [Ids -> Emails] :
             user = People(owner, guests, f, e)
      BY <2>2 DEF Settled
    <3>2. /\ user[owner].status = "active" /\ user[owner].kind = "owner"
          /\ user[owner].deleteAfter = "unset" /\ user[owner].email \in Emails
      BY <3>1 DEF Created, Absent, People
    <3>3. \A u \in Ids : u # owner =>
             /\ user[u].kind = "guest" /\ user[u].status \in {"absent", "active"}
             /\ user[u].deleteAfter = "unset"
             /\ Present(u) => user[u].email \in Emails
      BY <3>1 DEF Created, Absent, Present, People
    <3> QED
      BY <1>5, <3>2, <3>3 DEF OwnerOK, ClaimedOnce, OwnerRemains, Owners, Active
  <2> QED
    BY <2>1, <2>2 DEF Init
<1>7. TasksOK
  BY DEF Init, TasksOK, TaskFine, Idle
<1>8. RowsOK
  <2>1. \A u \in Ids : Present(u) => user[u].email \in Emails
    BY <1>6
  <2>2. \A i \in InviteIds : invite[i].state = "unborn"
    BY <1>5 DEF NothingYet, Unborn
  <2> QED
    BY <1>5, <2>1, <2>2 DEF NothingYet, RowsOK
<1>9. AskedOK
  <2>1. \A u \in Ids : user[u].status # "gone"
    BY <1>6
  <2>2. \A u \in Ids : user[u].deleteAfter = "unset"
    BY <1>6
  <2> QED
    BY <2>1, <2>2 DEF AskedOK, PurgedOnRequest
<1>10. SpentOK
  BY DEF Init, SpentOK, Unborn
<1> QED
  BY <1>4, <1>6, <1>7, <1>8, <1>9, <1>10 DEF IInv

-----------------------------------------------------------------------------
(* Handlers that read. *)

\* An invite, a link, or a handler past a claim means there is somebody.
LEMMA SomeoneThere ==
    ASSUME IInv, ~NothingYet
    PROVE  Someone
BY DEF IInv, OwnerOK, Someone

LEMMA ReadStep ==
    ASSUME IInv, NEW t \in Tasks,
           \/ ClaimRead(t)
           \/ \E a \in Ids, e \in Emails : InviteRead(t, a, e)
           \/ \E i \in InviteIds : AcceptRead(t, i)
           \/ \E a, u \in Ids, what \in {"suspend", "reactivate", "reset"} :
                TargetRead(t, a, u, what)
           \/ \E a, u \in Ids, k \in {"admin", "guest"} : KindRead(t, a, u, k)
           \/ \E u \in Ids, f \in Factors : EnrolRead(t, u, f) \/ RemoveRead(t, u, f)
           \/ \E u \in Ids : PasswordRead(t, u)
           \/ \E u \in Ids : DeleteRead(t, u)
           \/ PurgeRead(t)
           \/ \E u \in Ids : RecoverRead(t, u)
    PROVE  IInv'
<1>0. /\ \A u \in Ids : Present(u) => Someone
      /\ \A u \in Ids : Active(u) => Someone
      /\ Idle \in Task
  BY DEF Present, Active, Someone, Idle, Task, Kind
<1>1. CASE ClaimRead(t)
  <2>1. [Idle EXCEPT !.pc = "claim"] \in Task
    BY <1>0 DEF Idle, Task
  <2> QED
    BY <1>1, <2>1, StartOK DEF ClaimRead, TaskFine, Idle
<1>2. ASSUME NEW a \in Ids, NEW e \in Emails, InviteRead(t, a, e) PROVE IInv'
  <2>1. [Idle EXCEPT !.pc = "invite", !.email = e] \in Task
    BY <1>0 DEF Idle, Task
  <2>2. TaskFine([Idle EXCEPT !.pc = "invite", !.email = e])
    BY DEF TaskFine, Idle
  <2> QED
    BY <1>0, <1>2, <2>1, <2>2, StartOK DEF InviteRead
<1>3. ASSUME NEW i \in InviteIds, AcceptRead(t, i) PROVE IInv'
  <2>1. [Idle EXCEPT !.pc = "accept", !.invite = i] \in Task
    BY <1>0 DEF Idle, Task
  <2>2. TaskFine([Idle EXCEPT !.pc = "accept", !.invite = i])
    BY <1>3 DEF TaskFine, Idle, AcceptRead
  <2>3. ~NothingYet
    <3>1. invite[i].state = "open"
      BY <1>3 DEF AcceptRead
    <3>2. Unborn.state = "unborn"
      BY DEF Unborn
    <3> QED
      BY <3>1, <3>2 DEF NothingYet
  <2>4. Someone
    BY <2>3, SomeoneThere
  <2> QED
    BY <1>3, <2>1, <2>2, <2>4, StartOK DEF AcceptRead
<1>4. ASSUME NEW a \in Ids, NEW u \in Ids, NEW what \in {"suspend", "reactivate", "reset"},
             TargetRead(t, a, u, what)
      PROVE  IInv'
  <2> DEFINE next == [Idle EXCEPT !.pc = what, !.id = u, !.email = user[u].email]
  <2>1. user[u].email \in Emails /\ user[u].status # "absent" /\ user[u].kind # "owner"
    BY <1>4 DEF TargetRead, Present, IInv, RowsOK
  <2>2. next \in Task
    BY <1>0, <2>1 DEF Idle, Task
  <2>3. TaskFine(next)
    BY <2>1 DEF TaskFine, Idle
  <2> HIDE DEF next
  <2> QED
    BY <1>0, <1>4, <2>2, <2>3, StartOK DEF TargetRead, next
<1>5. ASSUME NEW a \in Ids, NEW u \in Ids, NEW k \in {"admin", "guest"}, KindRead(t, a, u, k)
      PROVE  IInv'
  <2> DEFINE next == [Idle EXCEPT !.pc = "kind", !.id = u, !.kind = k]
  <2>1. user[u].status # "absent" /\ user[u].kind # "owner"
    BY <1>5 DEF KindRead, Present
  <2>2. next \in Task
    BY <1>0 DEF Idle, Task, Kind
  <2>3. TaskFine(next)
    BY <2>1 DEF TaskFine, Idle
  <2> HIDE DEF next
  <2> QED
    BY <1>0, <1>5, <2>2, <2>3, StartOK DEF KindRead, next
<1>6. ASSUME NEW u \in Ids, NEW f \in Factors, EnrolRead(t, u, f) \/ RemoveRead(t, u, f)
      PROVE  IInv'
  <2>1. ASSUME NEW pc \in {"enrol", "remove"}, Active(u),
               Start(t, [Idle EXCEPT !.pc = pc, !.id = u, !.factor = f])
        PROVE  IInv'
    <3> DEFINE next == [Idle EXCEPT !.pc = pc, !.id = u, !.factor = f]
    <3>1. next \in Task
      BY <1>0 DEF Idle, Task
    <3>2. TaskFine(next)
      BY <2>1 DEF TaskFine, Idle, Active
    <3> HIDE DEF next
    <3> QED
      BY <1>0, <2>1, <3>1, <3>2, StartOK DEF next
  <2> QED
    BY <1>6, <2>1 DEF EnrolRead, RemoveRead
<1>7. ASSUME NEW u \in Ids, PasswordRead(t, u) \/ DeleteRead(t, u) \/ RecoverRead(t, u)
      PROVE  IInv'
  <2>1. user[u].status # "absent"
    BY <1>7 DEF PasswordRead, DeleteRead, RecoverRead, Active, IInv, RowsOK
  <2>2. ASSUME NEW pc \in {"password", "delete", "recover"},
               Start(t, [Idle EXCEPT !.pc = pc, !.id = u])
        PROVE  IInv'
    <3> DEFINE next == [Idle EXCEPT !.pc = pc, !.id = u]
    <3>1. next \in Task
      BY <1>0 DEF Idle, Task
    <3>2. TaskFine(next)
      BY <2>1 DEF TaskFine, Idle
    <3>3. Someone
      BY <2>1 DEF Someone
    <3> HIDE DEF next
    <3> QED
      BY <2>2, <3>1, <3>2, <3>3, StartOK DEF next
  <2> QED
    BY <1>7, <2>2 DEF PasswordRead, DeleteRead, RecoverRead
<1>8. CASE PurgeRead(t)
  <2> DEFINE next == [Idle EXCEPT !.pc = "purge", !.due = {u \in Ids : Due(u)}]
  <2>1. next \in Task
    BY <1>0 DEF Idle, Task
  <2>2. TaskFine(next)
    BY DEF TaskFine, Idle
  <2>3. Someone
    BY <1>8 DEF PurgeRead, Due, Someone
  <2> HIDE DEF next
  <2> QED
    BY <1>8, <2>1, <2>2, <2>3, StartOK DEF PurgeRead, next
<1> QED
  BY <1>1, <1>2, <1>3, <1>4, <1>5, <1>6, <1>7, <1>8

-----------------------------------------------------------------------------
(* Handlers that write. *)

\* A handler that has ended has nothing left to say.
LEMMA EndFine ==
    ASSUME TypeOK, NEW t \in Tasks, Done(t)
    PROVE  /\ task' \in [Tasks -> Task]
           /\ \A s \in Tasks : task'[s] = task[s] \/ task'[s] = Idle
           /\ \A s \in Tasks : task'[s] = task[s] \/ TaskFine(task'[s])
<1>1. Idle \in Task
  BY DEF Idle, Task, Kind
<1>2. TaskFine(Idle)
  BY DEF TaskFine, Idle
<1> QED
  BY <1>1, <1>2 DEF TypeOK, Done

\* Handlers that turn back, and the ends of links.
LEMMA Quiet ==
    ASSUME IInv, TypeOK', user' = user, invite' = invite, links' \subseteq links,
           asked' = asked, spent' = spent,
           \A s \in Tasks : task'[s] = task[s] \/ task'[s] = Idle
    PROVE  IInv'
<1>1. Someone \/ NothingYet'
  <2>1. CASE NothingYet
    BY <2>1 DEF NothingYet, Idle
  <2> QED
    BY <2>1, SomeoneThere
<1>2. InvitesStay
  BY DEF InvitesStay
<1>3. OwnerOK' /\ TasksOK' /\ AskedOK'
  BY <1>1, <1>2, PeopleUnchanged
<1>4. RowsOK' /\ SpentOK'
  BY DEF IInv, RowsOK, SpentOK, Present
<1> QED
  BY <1>3, <1>4 DEF IInv

\* Steps of a handler that leave every account as it is.
LEMMA SameRows ==
    ASSUME IInv, TypeOK', Someone, user' = user, invite' = invite, asked' = asked,
           spent' = spent, \A u \in links' : user[u].status # "absent",
           \A s \in Tasks : task'[s] = task[s] \/ TaskFine(task'[s])
    PROVE  IInv'
<1>1. Keeps /\ InvitesStay
  BY DEF Keeps, InvitesStay
<1>2. OwnerOK' /\ TasksOK'
  BY <1>1, StepOK
<1>3. RowsOK' /\ AskedOK' /\ SpentOK'
  BY DEF IInv, RowsOK, AskedOK, PurgedOnRequest, SpentOK, Present
<1> QED
  BY <1>2, <1>3 DEF IInv

\* Steps that write the account of somebody who exists, and no invite.
LEMMA OneWritten ==
    ASSUME IInv, NEW u \in Ids, NEW row \in User, Write(u, row),
           user[u].status # "absent", row.status # "absent",
           UNCHANGED <<invite, setupCode, links, spent, begun>>,
           task' \in [Tasks -> Task], asked' \subseteq Ids, cleared' \subseteq Ids,
           \A s \in Tasks : task'[s] = task[s] \/ TaskFine(task'[s]),
           user[u].kind # "owner" => row.kind # "owner",
           user[u].kind = "owner" => row.status = user[u].status /\ row.kind = "owner",
           row.status \in {"active", "suspended"} => row.email \in Emails,
           \A v \in asked : v = u \/ v \in asked',
           row.status = "gone" \/ row.deleteAfter # "unset" => u \in asked'
    PROVE  IInv'
<1>1. TypeOK'
  BY DEF IInv, TypeOK, Write
<1>2. Someone
  BY DEF Someone
<1>3. InvitesStay
  BY DEF InvitesStay
<1>4. /\ OwnerOK' /\ TasksOK' /\ AskedOK'
      /\ \A v \in Ids : Present(v)' => user'[v].email \in Emails
      /\ \A v \in Ids : user[v].status # "absent" => user'[v].status # "absent"
  BY <1>1, <1>2, <1>3, RowWritten
<1>5. RowsOK'
  <2>1. \A v \in Ids : Present(v)' => user'[v].email \in Emails
    BY <1>4
  <2>2. \A i \in InviteIds : invite'[i].state # "unborn" => invite'[i].email \in Emails
    BY DEF IInv, RowsOK
  <2>3. \A v \in links' : user'[v].status # "absent"
    BY <1>4 DEF IInv, RowsOK, TypeOK
  <2> QED
    BY <2>1, <2>2, <2>3 DEF RowsOK
<1>6. SpentOK'
  BY DEF IInv, SpentOK
<1> QED
  BY <1>1, <1>4, <1>5, <1>6 DEF IInv

\* An update that leaves email, deletion date and the owner alone.
LEMMA UpdateStep ==
    ASSUME IInv, NEW t \in Tasks, NEW u \in Ids, NEW row \in User, Update(u, row),
           user[u].status # "absent", Done(t), UNCHANGED <<invite, setupCode, links, history, begun>>,
           Present(u) => /\ row.status \in {"active", "suspended"}
                         /\ row.email = user[u].email
                         /\ row.deleteAfter = user[u].deleteAfter
                         /\ user[u].kind # "owner" => row.kind # "owner"
                         /\ user[u].kind = "owner"
                              => row.status = user[u].status /\ row.kind = "owner"
    PROVE  IInv'
<1> DEFINE written == IF Present(u) THEN row ELSE user[u]
<1>1. written \in User /\ Write(u, written)
  BY DEF Update, IInv, TypeOK
<1>2. /\ task' \in [Tasks -> Task]
      /\ \A s \in Tasks : task'[s] = task[s] \/ TaskFine(task'[s])
  BY EndFine DEF IInv
<1>3. /\ invite' = invite /\ setupCode' = setupCode /\ links' = links /\ spent' = spent
      /\ begun' = begun /\ asked' = asked /\ cleared' = cleared
  BY DEF history
<1>4. asked' \subseteq Ids /\ cleared' \subseteq Ids
  BY <1>3 DEF IInv, TypeOK
<1>5. /\ written.status # "absent"
      /\ user[u].kind # "owner" => written.kind # "owner"
      /\ user[u].kind = "owner" => written.status = user[u].status /\ written.kind = "owner"
  BY DEF Present
<1>6. written.status \in {"active", "suspended"} => written.email \in Emails
  BY DEF Present, IInv, RowsOK
<1>7. written.status = "gone" \/ written.deleteAfter # "unset" => u \in asked'
  BY <1>3 DEF IInv, AskedOK, PurgedOnRequest
<1> HIDE DEF written
<1> QED
  BY <1>1, <1>2, <1>3, <1>4, <1>5, <1>6, <1>7, OneWritten

\* A handler, as it stands, is of its type, and ends where it says.
LEMMA TaskTypes ==
    ASSUME TypeOK, NEW t \in Tasks
    PROVE  /\ \A pc \in {"claimed", "resetLink", "recoverClear"} :
                [task[t] EXCEPT !.pc = pc] \in Task
           /\ \A due \in SUBSET Ids : [task[t] EXCEPT !.due = due] \in Task
           /\ \A next \in Task : [task EXCEPT ![t] = next] \in [Tasks -> Task]
BY DEF TypeOK, Task

\* Handlers that turn back, and the ends of codes, links and the process.
LEMMA QuietSteps ==
    ASSUME IInv,
           \/ \E t \in Tasks :
                ClaimRefused(t) \/ ClaimTidy(t) \/ AcceptTooLate(t) \/ DeleteRefused(t)
           \/ Boot
           \/ \E u \in Ids : LinkExpire(u)
    PROVE  IInv'
<1>1. Idle \in Task
  BY DEF Idle, Task, Kind
<1>2. /\ user' = user /\ invite' = invite /\ asked' = asked /\ cleared' = cleared
      /\ spent' = spent /\ begun' = begun
      /\ links' \subseteq links
  BY DEF ClaimRefused, ClaimTidy, AcceptTooLate, DeleteRefused, Boot, LinkExpire, history
<1>3. setupCode' \in BOOLEAN
  BY DEF IInv, TypeOK, ClaimRefused, ClaimTidy, AcceptTooLate, DeleteRefused, Boot, LinkExpire
<1>4. /\ task' \in [Tasks -> Task]
      /\ \A s \in Tasks : task'[s] = task[s] \/ task'[s] = Idle
  <2>1. CASE \E t \in Tasks : Done(t)
    BY <2>1, EndFine DEF IInv
  <2>2. CASE Boot
    BY <1>1, <2>2 DEF Boot
  <2>3. CASE \E u \in Ids : LinkExpire(u)
    BY <2>3 DEF LinkExpire, IInv, TypeOK
  <2> QED
    BY <2>1, <2>2, <2>3 DEF ClaimRefused, ClaimTidy, AcceptTooLate, DeleteRefused
<1>5. TypeOK'
  BY <1>2, <1>3, <1>4 DEF IInv, TypeOK
<1> QED
  BY <1>2, <1>4, <1>5, Quiet

\* Steps after which every account is as it was.
LEMMA SameRowsSteps ==
    ASSUME IInv,
           (\E t \in Tasks : RecoverDestroy(t)) \/ \E u \in Ids : LinkMint(u)
    PROVE  IInv'
<1>1. ASSUME NEW t \in Tasks, RecoverDestroy(t) PROVE IInv'
  <2>1. /\ user' = user /\ invite' = invite /\ asked' = asked /\ cleared' = cleared
        /\ spent' = spent /\ begun' = begun /\ setupCode' = setupCode
        /\ links' \subseteq links
        /\ task[t].pc = "recover"
    BY <1>1 DEF RecoverDestroy, history, At
  <2>2. task[t].id \in Ids /\ user[task[t].id].status # "absent"
    BY <2>1 DEF IInv, TasksOK, TaskFine
  <2>3. /\ task' \in [Tasks -> Task]
        /\ \A s \in Tasks : task'[s] = task[s] \/ TaskFine(task'[s])
    <3>1. CASE Done(t)
      BY <3>1, EndFine DEF IInv
    <3>2. CASE task' = [task EXCEPT ![t] = [task[t] EXCEPT !.pc = "recoverClear"]]
      <4>1. task' \in [Tasks -> Task]
        BY <3>2, TaskTypes DEF IInv
      <4>2. TaskFine([task[t] EXCEPT !.pc = "recoverClear"])
        BY <2>2 DEF TaskFine, IInv, TypeOK, Task
      <4>3. \A s \in Tasks : task'[s] = task[s] \/ TaskFine(task'[s])
        BY <3>2, <4>2 DEF IInv, TypeOK
      <4> QED
        BY <4>1, <4>3
    <3> QED
      BY <1>1, <3>1, <3>2 DEF RecoverDestroy
  <2>4. TypeOK'
    BY <2>1, <2>3 DEF IInv, TypeOK
  <2>5. Someone
    BY <2>2 DEF Someone
  <2>6. \A u \in links' : user[u].status # "absent"
    BY <2>1 DEF IInv, RowsOK
  <2> QED
    BY <2>1, <2>3, <2>4, <2>5, <2>6, SameRows
<1>2. ASSUME NEW u \in Ids, LinkMint(u) PROVE IInv'
  <2>1. /\ user' = user /\ invite' = invite /\ asked' = asked /\ cleared' = cleared
        /\ spent' = spent /\ begun' = begun /\ setupCode' = setupCode /\ task' = task
        /\ links' = links \cup {u}
        /\ user[u].status # "absent"
    BY <1>2 DEF LinkMint, history, Present
  <2>2. TypeOK'
    BY <2>1 DEF IInv, TypeOK
  <2>3. Someone
    BY <2>1 DEF Someone
  <2>4. \A v \in links' : user[v].status # "absent"
    BY <2>1 DEF IInv, RowsOK
  <2>5. \A s \in Tasks : task'[s] = task[s] \/ TaskFine(task'[s])
    BY <2>1
  <2> QED
    BY <2>1, <2>2, <2>3, <2>4, <2>5, SameRows
<1> QED
  BY <1>1, <1>2

\* Updates by a handler: of the person it has read.
LEMMA UpdateSteps ==
    ASSUME IInv, NEW t \in Tasks,
           Suspend(t) \/ KindWrite(t) \/ Enrol(t) \/ Remove(t) \/ Password(t)
    PROVE  IInv'
<1> DEFINE u == task[t].id
<1>1. u \in Ids /\ user[u].status # "absent" /\ user[u] \in User
  BY DEF Suspend, KindWrite, Enrol, Remove, Password, At, IInv, TasksOK, TaskFine, TypeOK
<1>2. /\ Done(t)
      /\ UNCHANGED <<invite, setupCode, links, history, begun>>
  BY DEF Suspend, KindWrite, Enrol, Remove, Password
<1>3. CASE Suspend(t)
  <2>1. user[u].kind # "owner"
    BY <1>3 DEF Suspend, At, IInv, TasksOK, TaskFine
  <2>2. [user[u] EXCEPT !.status = "suspended"] \in User
    BY <1>1 DEF User
  <2>3. Update(u, [user[u] EXCEPT !.status = "suspended"])
    BY <1>3 DEF Suspend
  <2> QED
    BY <1>1, <1>2, <2>1, <2>2, <2>3, UpdateStep DEF User
<1>4. CASE KindWrite(t)
  <2>1. user[u].kind # "owner" /\ task[t].kind # "owner" /\ task[t].kind \in Kind
    BY <1>4 DEF KindWrite, At, IInv, TasksOK, TaskFine, TypeOK, Task
  <2>2. [user[u] EXCEPT !.kind = task[t].kind] \in User
    BY <1>1, <2>1 DEF User
  <2>3. Update(u, [user[u] EXCEPT !.kind = task[t].kind])
    BY <1>4 DEF KindWrite
  <2> QED
    BY <1>1, <1>2, <2>1, <2>2, <2>3, UpdateStep DEF User, Present
<1>5. CASE Enrol(t)
  <2> DEFINE f == task[t].factor
             row == [user[u] EXCEPT !.factors = @ \cup {f}, !.unconfirmed = @ \ {f}]
  <2>1. f \in Factors
    BY <1>5 DEF Enrol, At, IInv, TasksOK, TaskFine
  <2>2. row \in User
    BY <1>1, <2>1 DEF User
  <2>3. Update(u, row) \/ Update(u, user[u])
    <3>1. CASE user' = user
      BY <1>1, <3>1 DEF Update, Write, IInv, TypeOK
    <3> QED
      BY <1>5, <3>1 DEF Enrol
  <2>4. CASE Update(u, row)
    BY <1>1, <1>2, <2>2, <2>4, UpdateStep DEF User, Present
  <2>5. CASE Update(u, user[u])
    BY <1>1, <1>2, <2>5, UpdateStep DEF User, Present
  <2> QED
    BY <2>3, <2>4, <2>5
<1>6. CASE Remove(t)
  <2> DEFINE f == task[t].factor
             row == [user[u] EXCEPT !.factors = @ \ {f}, !.unconfirmed = @ \ {f}]
  <2>1. row \in User
    BY <1>1 DEF User
  <2>2. Update(u, row)
    BY <1>6 DEF Remove
  <2> QED
    BY <1>1, <1>2, <2>1, <2>2, UpdateStep DEF User, Present
<1>7. CASE Password(t)
  <2>1. [user[u] EXCEPT !.password = TRUE] \in User
    BY <1>1 DEF User
  <2>2. Update(u, [user[u] EXCEPT !.password = TRUE])
    BY <1>7 DEF Password
  <2> QED
    BY <1>1, <1>2, <2>1, <2>2, UpdateStep DEF User, Present
<1> QED
  BY <1>3, <1>4, <1>5, <1>6, <1>7

\* Reactivating, resetting, leaving: what the person had asked for may change.
LEMMA AskedSteps ==
    ASSUME IInv, NEW t \in Tasks, Reactivate(t) \/ Reset(t) \/ Delete(t) \/ RecoverClear(t)
    PROVE  IInv'
<1> DEFINE u == task[t].id
<1>1. u \in Ids /\ user[u].status # "absent" /\ user[u] \in User
  BY DEF Reactivate, Reset, Delete, RecoverClear, At, IInv, TasksOK, TaskFine, TypeOK
<1>2. UNCHANGED <<invite, setupCode, links, spent, begun>>
  BY DEF Reactivate, Reset, Delete, RecoverClear
<1>3. Done(t) => /\ task' \in [Tasks -> Task]
                 /\ \A s \in Tasks : task'[s] = task[s] \/ TaskFine(task'[s])
  BY EndFine DEF IInv
<1>4. /\ Present(u) => user[u].email \in Emails
      /\ user[u].status = "gone" \/ user[u].deleteAfter # "unset" => u \in asked
      /\ asked \subseteq Ids /\ cleared \subseteq Ids
  BY <1>1 DEF IInv, RowsOK, AskedOK, PurgedOnRequest, TypeOK
<1>5. CASE Reactivate(t)
  <2> DEFINE row == IF Present(u)
                      THEN [user[u] EXCEPT !.status = "active", !.deleteAfter = "unset"]
                      ELSE user[u]
  <2>1. /\ Write(u, row) /\ Done(t) /\ cleared' = cleared
        /\ asked' = IF Present(u) THEN asked \ {u} ELSE asked
        /\ user[u].kind # "owner"
    BY <1>5 DEF Reactivate, Update, At, IInv, TasksOK, TaskFine
  <2>2. row \in User
    BY <1>1 DEF User
  <2>3. /\ row.status # "absent" /\ row.kind # "owner"
        /\ row.status \in {"active", "suspended"} => row.email \in Emails
        /\ row.status = "gone" \/ row.deleteAfter # "unset" => u \in asked'
    BY <1>1, <1>4, <2>1 DEF User, Present
  <2>4. asked' \subseteq Ids /\ cleared' \subseteq Ids /\ \A v \in asked : v = u \/ v \in asked'
    BY <1>4, <2>1
  <2> HIDE DEF row
  <2> QED
    BY <1>1, <1>2, <1>3, <2>1, <2>2, <2>3, <2>4, OneWritten
<1>6. CASE Reset(t)
  <2> DEFINE row == [NoFactors(user[u]) EXCEPT !.password = FALSE]
             next == [task[t] EXCEPT !.pc = "resetLink"]
  <2>1. /\ Write(u, row) /\ cleared' = cleared \cup {u} /\ asked' = asked
        /\ task' = [task EXCEPT ![t] = next]
        /\ task[t].pc = "reset"
    BY <1>6 DEF Reset, At
  <2>2. row \in User
    BY <1>1 DEF User, NoFactors
  <2>3. /\ row.status = user[u].status /\ row.kind = user[u].kind
        /\ row.email = user[u].email /\ row.deleteAfter = user[u].deleteAfter
    BY <1>1 DEF User, NoFactors
  <2>4. next \in Task /\ TaskFine(next)
    <3>1. task[t].email \in Emails
      BY <2>1 DEF IInv, TasksOK, TaskFine
    <3>2. next \in Task
      BY TaskTypes DEF IInv
    <3>3. next.pc = "resetLink" /\ next.email = task[t].email
      BY DEF IInv, TypeOK, Task
    <3> HIDE DEF next
    <3> QED
      BY <3>1, <3>2, <3>3 DEF TaskFine
  <2>5. /\ task' \in [Tasks -> Task]
        /\ \A s \in Tasks : task'[s] = task[s] \/ TaskFine(task'[s])
    BY <2>1, <2>4 DEF IInv, TypeOK
  <2>6. asked' \subseteq Ids /\ cleared' \subseteq Ids
    BY <1>1, <1>4, <2>1
  <2> HIDE DEF row, next
  <2> QED
    BY <1>1, <1>2, <1>4, <2>1, <2>2, <2>3, <2>5, <2>6, OneWritten DEF Present
<1>7. CASE Delete(t)
  <2> DEFINE row == [user[u] EXCEPT !.status = "suspended", !.deleteAfter = "coming"]
  <2>1. /\ Write(u, row) /\ Done(t) /\ asked' = asked \cup {u} /\ cleared' = cleared
        /\ Active(u)
        /\ user[u].kind = "owner" => OtherOwners(u) # {}
    BY <1>7 DEF Delete
  <2>2. user[u].kind # "owner"
    BY <1>1, <2>1 DEF OtherOwners, Active, IInv, OwnerOK, ClaimedOnce, Owners
  <2>3. row \in User
    BY <1>1 DEF User
  <2>4. /\ row.status = "suspended" /\ row.kind = user[u].kind /\ row.email = user[u].email
    BY <1>1 DEF User
  <2>5. asked' \subseteq Ids /\ cleared' \subseteq Ids /\ u \in asked' /\ asked \subseteq asked'
    BY <1>1, <1>4, <2>1
  <2>6. row.email \in Emails
    BY <1>4, <2>1, <2>4 DEF Present, Active
  <2> HIDE DEF row
  <2> QED
    BY <1>1, <1>2, <1>3, <2>1, <2>2, <2>3, <2>4, <2>5, <2>6, OneWritten
<1>8. CASE RecoverClear(t)
  <2> DEFINE row == NoFactors(user[u])
  <2>1. /\ Write(u, row) /\ Done(t) /\ asked' = asked
    BY <1>8 DEF RecoverClear
  <2>2. cleared' \subseteq Ids
    BY <1>1, <1>4, <1>8 DEF RecoverClear
  <2>3. row \in User
    BY <1>1 DEF User, NoFactors
  <2>4. /\ row.status = user[u].status /\ row.kind = user[u].kind
        /\ row.email = user[u].email /\ row.deleteAfter = user[u].deleteAfter
    BY <1>1 DEF User, NoFactors
  <2> HIDE DEF row
  <2> QED
    BY <1>1, <1>2, <1>3, <1>4, <2>1, <2>2, <2>3, <2>4, OneWritten DEF Present
<1> QED
  BY <1>5, <1>6, <1>7, <1>8

\* A purge, time passing, and a secret yet to be confirmed.
LEMMA RowSteps ==
    ASSUME IInv, NEW u \in Ids,
           \/ \E t \in Tasks : Purge(t, u)
           \/ GracePasses(u)
           \/ \E c \in Codes : BeginCode(u, c)
    PROVE  IInv'
<1>1. /\ user[u] \in User /\ asked \subseteq Ids /\ cleared \subseteq Ids
      /\ Present(u) => user[u].email \in Emails
      /\ user[u].status = "gone" \/ user[u].deleteAfter # "unset" => u \in asked
  BY DEF IInv, TypeOK, RowsOK, AskedOK, PurgedOnRequest
<1>2. /\ invite' = invite /\ setupCode' = setupCode /\ links' = links /\ spent' = spent
      /\ begun' = begun /\ asked' = asked /\ cleared' = cleared
  BY DEF Purge, GracePasses, BeginCode, history
<1>3. ASSUME NEW t \in Tasks, Purge(t, u) PROVE IInv'
  <2> DEFINE row == IF Due(u) THEN Purged ELSE user[u]
             left == task[t].due \ {u}
             next == IF left = {} THEN Idle ELSE [task[t] EXCEPT !.due = left]
  <2>1. Write(u, row) /\ task' = [task EXCEPT ![t] = next] /\ task[t].pc = "purge"
    <3>1. Write(u, row) /\ NextDue(t, u) /\ task[t].pc = "purge"
      BY <1>3 DEF Purge, At
    <3>2. task' = [task EXCEPT ![t] = next]
      BY <3>1 DEF NextDue
    <3> QED
      BY <3>1, <3>2
  <2>2. next \in Task /\ TaskFine(next)
    BY <2>1 DEF IInv, TypeOK, Task, TaskFine, Idle, Kind
  <2>3. /\ task' \in [Tasks -> Task]
        /\ \A s \in Tasks : task'[s] = task[s] \/ TaskFine(task'[s])
    BY <2>1, <2>2 DEF IInv, TypeOK
  <2>4. Purged \in User /\ Purged.status = "gone" /\ Purged.kind = "guest"
        /\ Purged.deleteAfter = "unset"
    BY DEF Purged, Absent, User, Kind
  <2>5. CASE Due(u)
    <3>1. user[u].status # "absent" /\ u \in asked
      BY <1>1, <2>5 DEF Due
    <3>2. user[u].kind # "owner"
      BY <2>5, <3>1, OwnerActive DEF Due, IInv
    <3>3. Write(u, Purged)
      BY <2>1, <2>5
    <3> HIDE DEF row, next
    <3> QED
      BY <1>1, <1>2, <2>3, <2>4, <3>1, <3>2, <3>3, OneWritten
  <2>6. CASE ~Due(u)
    <3>1. user' = user
      BY <2>1, <2>6 DEF Write, IInv, TypeOK
    <3>2. ~NothingYet
      BY <2>1 DEF NothingYet
    <3>3. Someone
      BY <3>2, SomeoneThere
    <3>4. TypeOK'
      BY <1>2, <2>3, <3>1 DEF IInv, TypeOK
    <3>5. \A v \in links' : user[v].status # "absent"
      BY <1>2 DEF IInv, RowsOK
    <3> QED
      BY <1>2, <2>3, <3>1, <3>3, <3>4, <3>5, SameRows
  <2> QED
    BY <2>5, <2>6
<1>4. CASE GracePasses(u)
  <2> DEFINE row == [user[u] EXCEPT !.deleteAfter = "passed"]
  <2>1. Write(u, row) /\ task' = task /\ user[u].deleteAfter = "coming"
    BY <1>4 DEF GracePasses
  <2>2. row \in User
    BY <1>1 DEF User
  <2>3. /\ row.status = user[u].status /\ row.kind = user[u].kind
        /\ row.email = user[u].email /\ row.deleteAfter = "passed"
    BY <1>1 DEF User
  <2>4. user[u].status # "absent"
    BY <2>1 DEF IInv, AskedOK
  <2> HIDE DEF row
  <2> QED
    BY <1>1, <1>2, <2>1, <2>2, <2>3, <2>4, OneWritten DEF Present, IInv, TypeOK
<1>5. ASSUME NEW c \in Codes, BeginCode(u, c) PROVE IInv'
  <2> DEFINE row == [user[u] EXCEPT !.unconfirmed = @ \cup {c}]
  <2>1. Write(u, row) /\ task' = task /\ user[u].status = "active"
    BY <1>5 DEF BeginCode, Active
  <2>2. row \in User
    BY <1>1 DEF User
  <2>3. /\ row.status = user[u].status /\ row.kind = user[u].kind
        /\ row.email = user[u].email /\ row.deleteAfter = user[u].deleteAfter
    BY <1>1 DEF User
  <2> HIDE DEF row
  <2>4. task' \in [Tasks -> Task]
    BY <2>1 DEF IInv, TypeOK
  <2> QED
    BY <1>1, <1>2, <2>1, <2>2, <2>3, <2>4, OneWritten DEF Present
<1> QED
  BY <1>3, <1>4, <1>5

\* The owner is created where there is nobody: the first, and the only one.
LEMMA ClaimStep ==
    ASSUME IInv, NEW t \in Tasks, NEW u \in Ids, NEW e \in Emails, ClaimCreate(t, u, e)
    PROVE  IInv'
<1> DEFINE row == Created(e, "owner")
           next == [task[t] EXCEPT !.pc = "claimed"]
<1>1. /\ user' = [user EXCEPT ![u] = row] /\ task' = [task EXCEPT ![t] = next]
      /\ invite' = invite /\ setupCode' = setupCode /\ links' = links /\ spent' = spent
      /\ asked' = asked /\ cleared' = cleared /\ begun' = begun
      /\ \A v \in Ids : ~Present(v)
  BY DEF ClaimCreate, Write, history
<1>2. \A v \in Ids : user[v].status = "absent"
  <2>1. ~\E v \in Ids : Active(v)
    BY <1>1 DEF Active, Present
  <2> QED
    BY <2>1 DEF IInv, OwnerOK, OwnerRemains, Owners
<1>3. NothingYet
  BY <1>2 DEF IInv, OwnerOK
<1>4. /\ row \in User /\ row.status = "active" /\ row.kind = "owner" /\ row.email = e
      /\ row.deleteAfter = "unset"
  BY DEF Created, Absent, User, Kind
<1>5. next \in Task /\ next.pc = "claimed"
  BY DEF IInv, TypeOK, Task
<1> HIDE DEF row, next
<1>6. /\ user'[u] = row
      /\ \A v \in Ids : v # u => user'[v] = user[v]
  BY <1>1 DEF IInv, TypeOK
<1>7. TypeOK'
  BY <1>1, <1>4, <1>5 DEF IInv, TypeOK
<1>8. OwnerOK'
  BY <1>2, <1>4, <1>6 DEF OwnerOK, ClaimedOnce, OwnerRemains, Owners, Active
<1>9. TasksOK'
  <2>1. \A s \in Tasks : task'[s].pc \in {"idle", "claim", "claimed"}
    <3>1. \A s \in Tasks : task'[s] = task[s] \/ task'[s] = next
      BY <1>1 DEF IInv, TypeOK
    <3> QED
      BY <1>3, <1>5, <3>1 DEF NothingYet
  <2> QED
    BY <2>1 DEF TasksOK, TaskFine
<1>10. RowsOK'
  <2>1. \A i \in InviteIds : invite'[i].state = "unborn"
    BY <1>1, <1>3 DEF NothingYet, Unborn
  <2> QED
    BY <1>1, <1>2, <1>3, <1>4, <1>6, <2>1 DEF RowsOK, NothingYet, Present
<1>11. AskedOK'
  BY <1>1, <1>2, <1>4, <1>6 DEF IInv, AskedOK, PurgedOnRequest
<1>12. SpentOK'
  BY <1>1 DEF IInv, SpentOK
<1> QED
  BY <1>7, <1>8, <1>9, <1>10, <1>11, <1>12 DEF IInv

\* An invite is accepted: whoever it makes or changes, it is not the owner who
\* stops being one, and the invite is spent once.
LEMMA AcceptStep ==
    ASSUME IInv, NEW t \in Tasks, NEW u \in Ids, Accept(t, u)
    PROVE  IInv'
<1> DEFINE i == task[t].invite
           e == invite[i].email
           row == IF WithEmail(e) # {} THEN Reenrolled(user[u]) ELSE Created(e, "guest")
<1>1. /\ i \in InviteIds /\ invite[i].state # "unborn" /\ e \in Emails
      /\ invite[i] \in Invite
  BY DEF Accept, At, IInv, TasksOK, TaskFine, RowsOK, TypeOK
<1>2. /\ user' = [user EXCEPT ![u] = row] /\ Write(u, row)
      /\ invite[i].state # "accepted"
      /\ invite' = [invite EXCEPT ![i].state = "accepted"]
      /\ spent' = [spent EXCEPT ![i] = spent[i] + 1]
      /\ setupCode' = setupCode /\ links' = links /\ asked' = asked
      /\ cleared' = cleared /\ begun' = begun
      /\ Done(t)
  BY DEF Accept, Claim, Write
<1>3. \/ Present(u) /\ row = Reenrolled(user[u])
      \/ user[u].status = "absent" /\ row = Created(e, "guest")
  BY DEF Accept, WithEmail
<1>4. /\ row \in User /\ row.status = "active" /\ row.email \in Emails
      /\ row.deleteAfter # "unset" => u \in asked'
      /\ user[u].kind = "owner" => user[u].status = "absent" \/ row.kind = "owner"
      /\ user[u].status = "absent" \/ user[u].kind # "owner" => row.kind # "owner"
  <2>1. CASE Present(u) /\ row = Reenrolled(user[u])
    <3>1. user[u] \in User /\ user[u].email \in Emails
      BY <2>1 DEF IInv, TypeOK, RowsOK
    <3>2. /\ row \in User /\ row.status = "active" /\ row.kind = user[u].kind
          /\ row.email = user[u].email /\ row.deleteAfter = user[u].deleteAfter
      BY <2>1, <3>1 DEF Reenrolled, User
    <3>3. user[u].deleteAfter # "unset" => u \in asked'
      BY <1>2 DEF IInv, AskedOK
    <3> HIDE DEF row
    <3> QED
      BY <2>1, <3>1, <3>2, <3>3 DEF Present
  <2>2. CASE user[u].status = "absent" /\ row = Created(e, "guest")
    <3>1. /\ row \in User /\ row.status = "active" /\ row.kind = "guest" /\ row.email = e
          /\ row.deleteAfter = "unset"
      BY <1>1, <2>2 DEF Created, Absent, User, Kind
    <3> HIDE DEF row
    <3> QED
      BY <1>1, <2>2, <3>1
  <2> QED
    BY <1>3, <2>1, <2>2
<1> HIDE DEF row
<1>5. /\ invite' \in [InviteIds -> Invite]
      /\ invite'[i].state = "accepted" /\ invite'[i].email = e
      /\ \A j \in InviteIds : j # i => invite'[j] = invite[j]
  BY <1>1, <1>2 DEF IInv, TypeOK, Invite
<1>6. /\ spent' \in [InviteIds -> Nat]
      /\ spent'[i] = 1
      /\ \A j \in InviteIds : j # i => spent'[j] = spent[j]
  BY <1>1, <1>2 DEF IInv, TypeOK, SpentOK
<1>7. /\ task' \in [Tasks -> Task]
      /\ \A s \in Tasks : task'[s] = task[s] \/ TaskFine(task'[s])
  BY <1>2, EndFine DEF IInv
<1>8. TypeOK'
  BY <1>2, <1>4, <1>5, <1>6, <1>7 DEF IInv, TypeOK
<1>9. InvitesStay
  BY <1>5 DEF InvitesStay
<1>10. ~NothingYet
  <2>1. task[t].pc = "accept"
    BY DEF Accept, At
  <2> QED
    BY <2>1 DEF NothingYet
<1>11. Someone
  BY <1>10, SomeoneThere
<1>12. \A v \in asked : v = u \/ v \in asked'
  BY <1>2
<1>13. /\ OwnerOK' /\ TasksOK' /\ AskedOK'
       /\ \A v \in Ids : Present(v)' => user'[v].email \in Emails
       /\ \A v \in Ids : user[v].status # "absent" => user'[v].status # "absent"
  BY <1>2, <1>4, <1>7, <1>8, <1>9, <1>11, <1>12, RowWritten
<1>14. RowsOK'
  <2>1. \A v \in Ids : Present(v)' => user'[v].email \in Emails
    BY <1>13
  <2>2. \A j \in InviteIds : invite'[j].state # "unborn" => invite'[j].email \in Emails
    BY <1>1, <1>5 DEF IInv, RowsOK
  <2>3. \A v \in links' : user'[v].status # "absent"
    BY <1>2, <1>13 DEF IInv, RowsOK, TypeOK
  <2> QED
    BY <2>1, <2>2, <2>3 DEF RowsOK
<1>15. SpentOK'
  BY <1>5, <1>6 DEF IInv, SpentOK
<1> QED
  BY <1>8, <1>13, <1>14, <1>15 DEF IInv

\* An invite is minted, revoked, or runs out.
LEMMA InviteSteps ==
    ASSUME IInv, NEW i \in InviteIds,
           InviteExpire(i) \/ \E t \in Tasks : InviteMint(t, i)
    PROVE  IInv'
<1>1. /\ user' = user /\ setupCode' = setupCode /\ links' = links /\ spent' = spent
      /\ asked' = asked /\ cleared' = cleared /\ begun' = begun
  BY DEF InviteExpire, InviteMint, history
<1>2. /\ invite' \in [InviteIds -> Invite]
      /\ invite'[i].state \in {"open", "expired"} /\ invite[i].state # "accepted"
      /\ invite'[i].email \in Emails
      /\ \A j \in InviteIds : j # i => invite'[j] = invite[j]
  <2>1. CASE InviteExpire(i)
    <3>1. invite[i] \in Invite /\ invite[i].email \in Emails
      BY <2>1 DEF InviteExpire, IInv, TypeOK, RowsOK
    <3> QED
      BY <2>1, <3>1 DEF InviteExpire, IInv, TypeOK, Invite
  <2>2. ASSUME NEW t \in Tasks, InviteMint(t, i)
        PROVE  /\ invite' \in [InviteIds -> Invite]
               /\ invite'[i].state = "open" /\ invite[i].state # "accepted"
               /\ invite'[i].email \in Emails
               /\ \A j \in InviteIds : j # i => invite'[j] = invite[j]
    <3>1. task[t].email \in Emails
      BY <2>2 DEF InviteMint, At, IInv, TasksOK, TaskFine
    <3> QED
      BY <2>2, <3>1 DEF InviteMint, Mint, Unborn, IInv, TypeOK, Invite
  <2> QED
    BY <2>1, <2>2
<1>3. /\ task' \in [Tasks -> Task]
      /\ \A s \in Tasks : task'[s] = task[s] \/ TaskFine(task'[s])
  BY EndFine DEF InviteExpire, InviteMint, IInv, TypeOK
<1>4. TypeOK'
  BY <1>1, <1>2, <1>3 DEF IInv, TypeOK
<1>5. InvitesStay
  BY <1>2 DEF InvitesStay
<1>6. Someone
  <2>1. ~NothingYet
    BY DEF InviteExpire, InviteMint, At, NothingYet, Unborn
  <2> QED
    BY <2>1, SomeoneThere
<1>7. OwnerOK' /\ TasksOK'
  <2>1. Keeps
    BY <1>1 DEF Keeps
  <2> QED
    BY <1>3, <1>4, <1>5, <1>6, <2>1, StepOK
<1>8. RowsOK' /\ AskedOK'
  BY <1>1, <1>2 DEF IInv, RowsOK, AskedOK, PurgedOnRequest, Present
<1>9. SpentOK'
  BY <1>1, <1>2 DEF IInv, SpentOK
<1> QED
  BY <1>4, <1>7, <1>8, <1>9 DEF IInv

-----------------------------------------------------------------------------
(* Theorems. *)

LEMMA StepHolds == IInv /\ [Next]_vars => IInv'
<1> SUFFICES ASSUME IInv, [Next]_vars PROVE IInv'
  OBVIOUS
<1>1. ASSUME NEW t \in Tasks, Handler(t) PROVE IInv'
  BY <1>1, ReadStep, QuietSteps, SameRowsSteps, UpdateSteps, AskedSteps, RowSteps,
     ClaimStep, AcceptStep, InviteSteps DEF Handler
<1>2. CASE Around
  BY <1>2, QuietSteps, SameRowsSteps, RowSteps, InviteSteps DEF Around
<1>3. CASE UNCHANGED vars
  BY <1>3 DEF vars, history, IInv, TypeOK, OwnerOK, ClaimedOnce, OwnerRemains, Owners,
     Active, NothingYet, TasksOK, TaskFine, RowsOK, Present, AskedOK, PurgedOnRequest, SpentOK
<1> QED
  BY <1>1, <1>2, <1>3 DEF Next

\* In every state of the program, for any ids, emails, invites and handlers.
THEOREM InductiveInvariant == Spec => []IInv
BY InitHolds, StepHolds, PTL DEF Spec

\* The variables keep their types.
THEOREM TypeCorrect == Spec => []TypeOK
<1>1. IInv => TypeOK
  BY DEF IInv
<1> QED
  BY <1>1, InductiveInvariant, PTL

\* However many claims race, an instance has one owner (first-run.ts, claim).
THEOREM OneOwner == Spec => []ClaimedOnce
<1>1. IInv => ClaimedOnce
  BY DEF IInv, OwnerOK
<1> QED
  BY <1>1, InductiveInvariant, PTL

\* An instance with people has an active owner, whatever its admins and its
\* people do at once, and whatever the purge finds.
THEOREM OwnerStays == Spec => []OwnerRemains
<1>1. IInv => OwnerRemains
  BY DEF IInv, OwnerOK
<1> QED
  BY <1>1, InductiveInvariant, PTL

\* However many taps race, and whatever becomes of the expiry, an invite is
\* accepted once (invites.ts, accept).
THEOREM InviteOnce == Spec => []InviteSpentOnce
<1>1. IInv => InviteSpentOnce
  BY DEF IInv, SpentOK, InviteSpentOnce
<1> QED
  BY <1>1, InductiveInvariant, PTL

\* Only who asked for it is purged, and nobody who was reactivated since
\* (deletion.ts, purgeDeletedAccounts).
THEOREM PurgeIsAskedFor == Spec => []PurgedOnRequest
<1>1. IInv => PurgedOnRequest
  BY DEF IInv, AskedOK
<1> QED
  BY <1>1, InductiveInvariant, PTL
=============================================================================
