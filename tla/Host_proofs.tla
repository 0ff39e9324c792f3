---------------------------- MODULE Host_proofs ----------------------------
(***************************************************************************)
(* What is done on the host and by the instance itself: state files        *)
(* (Transfer), then backups, drills and alerts (Operations).               *)
(*                                                                         *)
(* No import gives power, for any people, files and starting points, and   *)
(* whatever the console writes between two rows of it.  An import decides  *)
(* once, from what it read at the start, and may write much later.  What   *)
(* makes the late write harmless is that the decision names no new owner   *)
(* and no admin without a factor, and that whoever was the owner then      *)
(* still is: neither this import nor the console changes them.  Without    *)
(* that, the owner, whom the plan leaves alone, could have gone meanwhile, *)
(* and would be created again as a guest.                                  *)
(*                                                                         *)
(* An import that has ended, over an instance nobody wrote to meanwhile,   *)
(* has left what its file describes, however often it was stopped and      *)
(* started again.  The plan holds a write for every row of the file and    *)
(* for nothing else, apps before people before groups.  While it is        *)
(* carried out each cell of the instance is as it was or as the file       *)
(* describes it, and everything that is not described yet has its write    *)
(* ahead of it.  An import that was stopped therefore leaves something     *)
(* the same file describes in the same way, and the next one ends there.   *)
(*                                                                         *)
(* No failed run goes unreported and no missing backup unnoticed, for any  *)
(* periods, schedule and load.  The alert rules keep no state but the      *)
(* trail: an alert's row stands for the moment its evaluation began, and   *)
(* that is what lets evaluations overlap.  The invariants say what an      *)
(* evaluation under way carries -- every failure up to its mark that is    *)
(* not listed yet -- and that a backup that is due has its alert, or an    *)
(* evaluation on its way to it that began in time.                         *)
(***************************************************************************)
EXTENDS Operations, Transfer, WellFoundedInduction, FiniteSetTheorems, TLAPS

-----------------------------------------------------------------------------
(* The least and the greatest of a set of indices. *)
LEMMA LeastBy ==
    ASSUME NEW R, IsWellFoundedOn(R, Nat), \A x, y \in Nat : <<y, x>> \in R <=> y < x,
           NEW S \in SUBSET Nat, S # {}
    PROVE  \E x \in S : \A y \in S : x =< y
<1>1. PICK x \in S : \A y \in S : ~ (<<y, x>> \in R)
  BY WFMin
<1>2. ASSUME NEW y \in S PROVE x =< y
  <2>1. x \in Nat /\ y \in Nat
    OBVIOUS
  <2>2. ~ (y < x)
    BY <1>1, <2>1
  <2> QED BY <2>1, <2>2
<1> QED BY <1>2

\* Less-than on the natural numbers is well founded.
LEMMA Before == \E R : IsWellFoundedOn(R, Nat) /\ \A x, y \in Nat : <<y, x>> \in R <=> y < x
<1>1. \A x, y \in Nat : <<y, x>> \in OpToRel(<, Nat) <=> y < x
  BY DEF OpToRel
<1> QED BY <1>1, NatLessThanWellFounded, Zenon

\* A set of natural numbers has a least one.
LEMMA Least ==
    ASSUME NEW S \in SUBSET Nat, S # {}
    PROVE  \E x \in S : \A y \in S : x =< y
<1>1. PICK R : IsWellFoundedOn(R, Nat) /\ \A x, y \in Nat : <<y, x>> \in R <=> y < x
  BY Before
<1> QED BY <1>1, LeastBy

\* So Min chooses one.
LEMMA MinOf ==
    ASSUME NEW S \in SUBSET Nat, S # {}
    PROVE  Min(S) \in S /\ \A y \in S : Min(S) =< y
BY Least DEF Min

\* A set of numbers up to n has a greatest one: the least of what is missing to n.
LEMMA MaxOf ==
    ASSUME NEW n \in Nat, NEW S \in SUBSET (0..n), S # {}
    PROVE  Max(S) \in S /\ \A y \in S : y =< Max(S)
<1> DEFINE T == {n - x : x \in S}
<1>1. T \in SUBSET Nat /\ T # {}
  <2>1. \A x \in S : n - x \in Nat
    OBVIOUS
  <2> QED BY <2>1
<1>2. PICK t \in T : \A y \in T : t =< y
  BY <1>1, Least
<1>3. PICK x \in S : t = n - x
  BY <1>2
<1>4. \A y \in S : x >= y
  BY <1>2, <1>3
<1> QED BY <1>4 DEF Max

-----------------------------------------------------------------------------
(* State files. *)

Shape(d) == d = [app |-> d.app, kind |-> d.kind, status |-> d.status, factor |-> d.factor,
                 members |-> d.members, grant |-> d.grant]

OfPeople(f) == f = [p \in People |-> f[p]]

DbOK(d) ==
    /\ Shape(d) /\ OfPeople(d.kind) /\ OfPeople(d.status)
    /\ \A p \in People : d.kind[p] = None => d.status[p] = None

\* Whoever was the owner when the import under way was planned is the owner in d.
OwnerStays(d) ==
    import # None => \A p \in People : import.before.kind[p] = "owner" => d.kind[p] = "owner"

\* An import writes what it decided from what it read.
ImportOK ==
    import # None =>
        /\ import = [serving |-> import.serving, file |-> import.file, before |-> import.before,
                     kinds |-> import.kinds, todo |-> import.todo]
        /\ import.kinds = DecideKinds(import.file, import.before)

IInv == DbOK(db) /\ OwnerStays(db) /\ ImportOK

-----------------------------------------------------------------------------
\* What is decided for anybody: never owner, an admin only with a factor, and the owner left alone.
LEMMA Decided ==
    ASSUME NEW f, NEW d, NEW p \in People
    PROVE  /\ DecideKinds(f, d)[p] # "owner"
           /\ DecideKinds(f, d)[p] = "admin" => p \in d.factor
           /\ d.kind[p] = "owner" => DecideKinds(f, d)[p] = None
  BY TransferAssumption DEF DecideKinds, MustHoldFactor, Kinds

\* The rows of apps, groups and grants hold nothing about a person.
LEMMA OthersHarmless ==
    ASSUME DbOK(db), OwnerStays(db), NEW d, Shape(d), d.kind = db.kind, d.status = db.status
    PROVE  DbOK(d) /\ OwnerStays(d)
  BY DEF DbOK, OwnerStays

\* A person's row changes nobody else, and gives what was decided for that person.
LEMMA PersonWritten ==
    ASSUME IInv, UpsertPerson
    PROVE  /\ DbOK(db') /\ OwnerStays(db)'
           /\ \A q \in People :
                /\ db'.kind[q] # db.kind[q] =>
                    /\ import.before.kind[q] # "owner"
                    /\ db'.kind[q] # "owner"
                    /\ MustHoldFactor(db'.kind[q]) => q \in import.before.factor
                /\ db.status[q] = "suspended" => db'.status[q] = "suspended"
<1> DEFINE p == Head(import.todo)[2]
           decided == import.kinds[p]
           status == IF import.file.status[p] = "suspended" THEN "suspended" ELSE "invited"
<1>1. Shape(db) /\ OfPeople(db.kind) /\ OfPeople(db.status)
  BY DEF IInv, DbOK
<1>2. import # None
  BY DEF UpsertPerson, Doing
<1>3. \A q \in People :
        /\ import.kinds[q] # "owner"
        /\ import.kinds[q] = "admin" => q \in import.before.factor
        /\ import.before.kind[q] = "owner" => import.kinds[q] = None /\ db.kind[q] = "owner"
  BY <1>2, Decided DEF IInv, ImportOK, OwnerStays
<1>4. (\A q \in People : import.before.kind[q] = "owner" => db'.kind[q] = "owner") => OwnerStays(db)'
  BY DEF UpsertPerson, Written, OwnerStays
<1>5. CASE db.kind[p] = None
  <2>1. db' = [db EXCEPT !.kind[p] = IF decided = None THEN "guest" ELSE decided, !.status[p] = status]
    BY <1>5 DEF UpsertPerson, Written
  <2>2. /\ Shape(db')
        /\ db'.kind = [db.kind EXCEPT ![p] = IF decided = None THEN "guest" ELSE decided]
        /\ db'.status = [db.status EXCEPT ![p] = status]
    BY <1>1, <2>1 DEF Shape
  <2>3. OfPeople(db'.kind) /\ OfPeople(db'.status)
    BY <1>1, <2>2 DEF OfPeople
  <2>4. ASSUME NEW q \in People
        PROVE  /\ db'.kind[q] = IF q = p THEN (IF decided = None THEN "guest" ELSE decided)
                                         ELSE db.kind[q]
               /\ db'.status[q] = IF q = p THEN status ELSE db.status[q]
    BY <1>1, <2>2 DEF OfPeople
  <2>5. /\ None # "owner" /\ None # "guest" /\ None # "suspended"
        /\ \A q \in People : db.kind[q] = None => db.status[q] = None
    BY TransferAssumption DEF Kinds, Statuses, IInv, DbOK
  <2> HIDE DEF p, decided, status
  <2>6. \A q \in People : db'.kind[q] = None => db'.status[q] = None
    BY <2>4, <2>5 DEF decided
  <2>7. DbOK(db')
    BY <2>2, <2>3, <2>6 DEF DbOK
  <2>8. \A q \in People : import.before.kind[q] = "owner" => db'.kind[q] = "owner"
    BY <1>3, <1>5, <2>4, <2>5
  <2> QED BY <1>3, <1>5, <2>4, <2>5, <2>7, <2>8, <1>4 DEF MustHoldFactor, decided
<1>6. CASE db.kind[p] # None
  <2>1. db' = [db EXCEPT !.kind[p] = IF decided = None THEN db.kind[p] ELSE decided]
    BY <1>6 DEF UpsertPerson, Written
  <2>2. /\ Shape(db') /\ db'.status = db.status
        /\ db'.kind = [db.kind EXCEPT ![p] = IF decided = None THEN db.kind[p] ELSE decided]
    BY <1>1, <2>1 DEF Shape
  <2>3. OfPeople(db'.kind) /\ OfPeople(db'.status)
    BY <1>1, <2>2 DEF OfPeople
  <2>4. ASSUME NEW q \in People
        PROVE  db'.kind[q] = IF q = p /\ decided # None THEN decided ELSE db.kind[q]
    BY <1>1, <2>2 DEF OfPeople
  <2>5. \A q \in People : db.kind[q] = None => db.status[q] = None
    BY DEF IInv, DbOK
  <2> HIDE DEF p, decided, status
  <2>6. DbOK(db')
    BY <1>6, <2>2, <2>3, <2>4, <2>5 DEF DbOK
  <2>7. \A q \in People : import.before.kind[q] = "owner" => db'.kind[q] = "owner"
    BY <1>3, <2>4 DEF decided
  <2> QED BY <1>3, <1>6, <2>2, <2>4, <2>6, <2>7, <1>4 DEF MustHoldFactor, decided
<1> QED BY <1>5, <1>6

\* A write of anything else than a person changes none.
LEMMA RowWritten ==
    ASSUME IInv,
           UpsertApp \/ UpsertRole \/ ReplaceGrant \/ FillGrant
             \/ UpsertGroup \/ ClearMembers \/ AddMembers
    PROVE  Shape(db)' /\ db'.kind = db.kind /\ db'.status = db.status
<1>1. Shape(db)
  BY DEF IInv, DbOK
<1>2. CASE UpsertApp
  BY <1>1, <1>2 DEF UpsertApp, Written, Shape
<1>3. CASE UpsertRole
  <2>1. PICK app : db' = [db EXCEPT !.app = app]
    BY <1>1, <1>3 DEF UpsertRole, Written, Shape
  <2> QED BY <1>1, <2>1 DEF Shape
<1>4. CASE ReplaceGrant \/ FillGrant
  <2>1. PICK grant : db' = db \/ db' = [db EXCEPT !.grant = grant]
    BY <1>1, <1>4 DEF ReplaceGrant, FillGrant, Written, Shape
  <2> QED BY <1>1, <2>1 DEF Shape
<1>5. CASE UpsertGroup \/ ClearMembers \/ AddMembers
  <2>1. PICK members : db' = db \/ db' = [db EXCEPT !.members = members]
    BY <1>1, <1>5 DEF UpsertGroup, ClearMembers, AddMembers, Written, Shape
  <2> QED BY <1>1, <2>1 DEF Shape
<1> QED BY <1>2, <1>3, <1>4, <1>5

\* Every write of an import leaves the rest of the import as it was.
LEMMA RestKept ==
    ASSUME ImportStep
    PROVE  import # None /\ \E d, first : Written(d, first)
  BY DEF ImportStep, Doing, UpsertApp, UpsertRole, UpsertPerson, ReplaceGrant, FillGrant,
         UpsertGroup, ClearMembers, AddMembers

\* Every row of an import keeps the invariant.
LEMMA StepKeeps ==
    ASSUME IInv, ImportStep PROVE IInv'
<1>1. ImportOK' /\ (import' # None => import'.before = import.before)
  <2>1. PICK d, first : import # None /\ Written(d, first)
    BY RestKept
  <2>2. import = [serving |-> import.serving, file |-> import.file, before |-> import.before,
                  kinds |-> import.kinds, todo |-> import.todo]
    BY <2>1 DEF IInv, ImportOK
  <2>3. import' = [serving |-> import.serving, file |-> import.file, before |-> import.before,
                   kinds |-> import.kinds, todo |-> first \o Tail(import.todo)]
    BY <2>1, <2>2 DEF Written
  <2> QED BY <2>1, <2>3 DEF IInv, ImportOK
<1>2. CASE UpsertPerson
  <2>1. DbOK(db') /\ OwnerStays(db)'
    BY <1>2, PersonWritten
  <2> QED BY <1>1, <2>1 DEF IInv, DbOK, Shape, OfPeople
<1>3. CASE UpsertApp \/ UpsertRole \/ ReplaceGrant \/ FillGrant
             \/ UpsertGroup \/ ClearMembers \/ AddMembers
  <2>1. Shape(db)' /\ db'.kind = db.kind /\ db'.status = db.status
    BY <1>3, RowWritten
  <2>2. DbOK(db)'
    BY <2>1 DEF IInv, DbOK, Shape, OfPeople
  <2>3. OwnerStays(db)'
    BY <1>1, <2>1, RestKept DEF IInv, OwnerStays
  <2> QED BY <1>1, <2>2, <2>3 DEF IInv
<1> QED BY <1>2, <1>3 DEF ImportStep

-----------------------------------------------------------------------------
(* What else writes. *)

\* Whatever the console changes, an owner stays the owner, and who is somebody is so in full.
LEMMA EditKeeps ==
    ASSUME IInv, Edit PROVE IInv'
<1>1. Shape(db) /\ OfPeople(db.kind) /\ OfPeople(db.status)
  BY DEF IInv, DbOK
<1>2. None \notin {"owner", "admin", "guest", "active", "suspended"}
  BY TransferAssumption DEF Kinds, Statuses
<1> DEFINE Intact(d) ==
      /\ Shape(d) /\ OfPeople(d.kind) /\ OfPeople(d.status)
      /\ \A p \in People : d.kind[p] = None => d.status[p] = None
      /\ \A p \in People : db.kind[p] = "owner" => d.kind[p] = "owner"
<1>3. \A p \in People : db.kind[p] = None => db.status[p] = None
  BY DEF IInv, DbOK
<1>4. Intact(db') /\ UNCHANGED import
  <2>1. ASSUME NEW p \in People, ClaimOwner(p) PROVE Intact(db') /\ UNCHANGED import
    <3>1. /\ db' = [db EXCEPT !.kind[p] = "owner", !.status[p] = "active",
                              !.factor = db.factor \cup {p}]
          /\ UNCHANGED import /\ There(db) = {}
      BY <2>1 DEF ClaimOwner, Edited
    <3>2. /\ Shape(db') /\ db'.kind = [db.kind EXCEPT ![p] = "owner"]
          /\ db'.status = [db.status EXCEPT ![p] = "active"]
      BY <1>1, <3>1 DEF Shape
    <3> QED BY <1>1, <1>2, <1>3, <3>1, <3>2 DEF OfPeople
  <2>2. ASSUME NEW p \in People, NEW kind \in {"admin", "guest"}, ChangeKind(p, kind)
        PROVE  Intact(db') /\ UNCHANGED import
    <3>1. /\ db' = [db EXCEPT !.kind[p] = kind]
          /\ UNCHANGED import /\ db.kind[p] # "owner"
      BY <2>2 DEF ChangeKind, Edited
    <3>2. Shape(db') /\ db'.kind = [db.kind EXCEPT ![p] = kind] /\ db'.status = db.status
      BY <1>1, <3>1 DEF Shape
    <3> QED BY <1>1, <1>2, <1>3, <3>1, <3>2 DEF OfPeople
  <2>3. ASSUME NEW p \in People, ChangeStatus(p) \/ ChangeFactor(p)
        PROVE  Intact(db') /\ UNCHANGED import
    <3>1. UNCHANGED import /\ db.kind[p] # None
      BY <1>2, <2>3 DEF ChangeStatus, ChangeFactor, Edited, There
    <3>2. \/ \E status : db' = [db EXCEPT !.status[p] = status]
          \/ \E factor : db' = [db EXCEPT !.factor = factor]
          \/ \E status, factor : db' = [db EXCEPT !.factor = factor, !.status[p] = status]
      BY <2>3 DEF ChangeStatus, ChangeFactor, Edited
    <3>3. /\ Shape(db') /\ db'.kind = db.kind
          /\ \/ db'.status = db.status
             \/ \E status : db'.status = [db.status EXCEPT ![p] = status]
      BY <1>1, <3>2 DEF Shape
    <3> QED BY <1>1, <1>2, <1>3, <3>1, <3>3 DEF OfPeople
  <2>4. ASSUME NEW p \in People, Purge(p) PROVE Intact(db') /\ UNCHANGED import
    <3>1. /\ UNCHANGED import /\ db.kind[p] # "owner"
          /\ Shape(db') /\ db'.kind = [db.kind EXCEPT ![p] = None]
          /\ db'.status = [db.status EXCEPT ![p] = None]
      BY <1>1, <1>2, <2>4 DEF Purge, Edited, Shape
    <3> QED BY <1>1, <1>2, <1>3, <3>1 DEF OfPeople
  <2>5. ASSUME \/ \E h \in Holders, a \in Apps, roles \in (SUBSET Roles) \cup {None} :
                     ChangeGrant(h, a, roles)
               \/ \E a \in Apps, r \in Roles : RemoveRole(a, r)
               \/ \E a \in Apps : DeleteApp(a)
               \/ \E g \in Groups, ps \in (SUBSET People) \cup {None} : ChangeMembers(g, ps)
        PROVE  Intact(db') /\ UNCHANGED import
    <3>1. UNCHANGED import /\ Shape(db') /\ db'.kind = db.kind /\ db'.status = db.status
      <4>1. ASSUME NEW h, NEW a, NEW roles, ChangeGrant(h, a, roles) PROVE <3>1
        BY <1>1, <4>1 DEF ChangeGrant, Edited, Shape
      <4>2. ASSUME NEW a, NEW r, RemoveRole(a, r) PROVE <3>1
        BY <1>1, <4>2 DEF RemoveRole, Edited, Shape
      <4>3. ASSUME NEW a, DeleteApp(a) PROVE <3>1
        BY <1>1, <4>3 DEF DeleteApp, Edited, Shape
      <4>4. ASSUME NEW g, NEW ps, ChangeMembers(g, ps) PROVE <3>1
        BY <1>1, <4>4 DEF ChangeMembers, Edited, Shape
      <4> QED BY <2>5, <4>1, <4>2, <4>3, <4>4
    <3> QED BY <1>1, <1>3, <3>1
  <2> QED BY <2>1, <2>2, <2>3, <2>4, <2>5 DEF Edit
<1> QED BY <1>4 DEF IInv, DbOK, OwnerStays, ImportOK, Shape, OfPeople

-----------------------------------------------------------------------------
\* The invariant: an import under way will write what it decided, over an instance whose owner
\* is the one it read.
THEOREM InductiveInvariant == Spec => []IInv
<1>1. Init => IInv
  <2> SUFFICES ASSUME Init PROVE IInv
    OBVIOUS
  <2>1. db \in Configuration /\ \A p \in People : (db.kind[p] = None) = (db.status[p] = None)
    BY TransferAssumption DEF Init
  <2>2. Shape(db)
    BY <2>1 DEF Configuration, Shape
  <2>3. OfPeople(db.kind) /\ OfPeople(db.status)
    BY <2>1 DEF Configuration, OfPeople
  <2> QED BY <2>1, <2>2, <2>3 DEF Init, IInv, DbOK, OwnerStays, ImportOK
<1>2. IInv /\ [Next]_vars => IInv'
  <2> SUFFICES ASSUME IInv, [Next]_vars PROVE IInv'
    OBVIOUS
  <2>1. CASE ImportStep
    BY <2>1, StepKeeps
  <2>2. CASE Edit
    BY <2>2, EditKeeps
  <2>3. CASE ImportRoute \/ ImportOnHost \/ SeedOnBoot
    <3>1. PICK serving : Plan(serving)
      BY <2>3 DEF ImportRoute, ImportOnHost, SeedOnBoot
    <3>2. /\ import' = [serving |-> serving, file |-> file, before |-> db,
                        kinds |-> DecideKinds(file, db), todo |-> Script(file)]
          /\ db' = db
      BY <3>1 DEF Plan
    <3>3. DbOK(db')
      BY <3>2 DEF IInv
    <3> QED BY <3>2, <3>3 DEF IInv, DbOK, Shape, OfPeople, OwnerStays, ImportOK
  <2>4. CASE Finish \/ Stop
    BY <2>4 DEF Finish, Stop, IInv, DbOK, Shape, OfPeople, OwnerStays, ImportOK
  <2>5. CASE \/ \E part \in Parts : ExportRead(part)
             \/ \E f \in Files : Choose(f)
             \/ ExportDone \/ UNCHANGED vars
    <3>1. db' = db /\ import' = import
      BY <2>5 DEF ExportRead, ExportDone, Choose, vars
    <3>2. DbOK(db)' /\ OwnerStays(db)' /\ ImportOK'
      BY <3>1 DEF IInv, DbOK, Shape, OfPeople, OwnerStays, ImportOK
    <3> QED BY <3>2 DEF IInv
  <2> QED BY <2>1, <2>2, <2>3, <2>4, <2>5 DEF Next
<1> QED BY <1>1, <1>2, PTL DEF Spec

\* For any people, files and instances, and whatever the console or the first run writes between
\* two rows: no row of an import makes an owner, unmakes the one it was planned over, makes an
\* admin of somebody who had no factor when it was planned, or lifts a suspension.
THEOREM NoPowerFromFiles == Spec => PowerNotImported
<1> DEFINE Powerless == ImportStep => \A p \in People :
        /\ db'.kind[p] # db.kind[p] =>
            /\ import.before.kind[p] # "owner"
            /\ db'.kind[p] # "owner"
            /\ MustHoldFactor(db'.kind[p]) => p \in import.before.factor
        /\ db.status[p] = "suspended" => db'.status[p] = "suspended"
<1>1. IInv => Powerless
  <2> SUFFICES ASSUME IInv, ImportStep PROVE Powerless
    OBVIOUS
  <2>1. CASE UpsertPerson
    BY <2>1, PersonWritten
  <2>2. CASE UpsertApp \/ UpsertRole \/ ReplaceGrant \/ FillGrant
               \/ UpsertGroup \/ ClearMembers \/ AddMembers
    BY <2>2, RowWritten
  <2> QED BY <2>1, <2>2 DEF ImportStep
<1>2. IInv /\ [Next]_vars => [Powerless]_vars
  BY <1>1
<1>3. [][Powerless]_vars => PowerNotImported
  BY PTL DEF PowerNotImported
<1> QED BY <1>2, <1>3, InductiveInvariant, PTL DEF Spec

-----------------------------------------------------------------------------
(* Typed: the form of what is still to be done.                            *)
(* Settling: what is known of an instance half way through a file, while   *)
(* nothing else writes.  Both are invariants.                              *)

\* A sequence has it somewhere.
Holds(q, x) == \E i \in 1..Len(q) : q[i] = x

\* The file lists this person, or this group.
Lists(f, h) == IF h \in People THEN f.kind[h] # None ELSE f.members[h] # None

\* What a file asks an import to write, and the second halves of two of these writes.
AppRow(f, s) ==
    \E a \in Apps : f.app[a] # None /\ (s = <<"app", a>> \/ \E r \in f.app[a].roles : s = <<"role", a, r>>)
PersonRow(f, s) ==
    \E p \in People : f.kind[p] # None /\ s = <<"person", p>>
GrantRow(f, s) ==
    \E h \in Holders, a \in Apps : Lists(f, h) /\ f.grant[h][a] # None /\ s = <<"grant", h, a>>
GroupRow(f, s) ==
    \E g \in Groups : f.members[g] # None /\ (s = <<"group", g>> \/ s = <<"clear", g>>)
FileRow(f, s) == AppRow(f, s) \/ PersonRow(f, s) \/ GrantRow(f, s) \/ GroupRow(f, s)

Second(s) ==
    \/ \E h \in Holders, a \in Apps, roles \in SUBSET Roles : s = <<"fill", h, a, roles>>
    \/ \E g \in Groups, found \in SUBSET People : s = <<"join", g, found>>

\* Apps with their roles, then people with their grants, then groups with members and grants.
Phase(s) ==
    CASE s[1] \in {"app", "role"} -> 1
      [] s[1] = "person" \/ (s[1] \in {"grant", "fill"} /\ s[2] \in People) -> 2
      [] OTHER -> 3

\* What is still to be done: rows of the file, in their order, perhaps after a second half.
TodoOK(f, q) ==
    /\ \E X : q \in Seq(X)
    /\ \A i \in 1..Len(q) : FileRow(f, q[i]) \/ (i = 1 /\ Second(q[i]))
    /\ \A i, j \in 1..Len(q) : i =< j => Phase(q[i]) =< Phase(q[j])

\* What an export has read of one part.
PartOK(part, v) ==
    CASE part = "apps"   -> v.app \in [Apps -> AppData \cup {None}]
      [] part = "people" -> /\ v.kind \in [People -> Kinds \cup {None}]
                            /\ v.status \in [People -> Statuses \cup {None}]
                            /\ v.direct \in [People -> [Apps -> (SUBSET Roles) \cup {None}]]
      [] part = "groups" -> /\ v.members \in [Groups -> (SUBSET People) \cup {None}]
                            /\ v.shared \in [Groups -> [Apps -> (SUBSET Roles) \cup {None}]]

\* Everything is of its form.
Typed ==
    /\ TypeOK
    /\ DOMAIN draft \subseteq Parts /\ \A part \in DOMAIN draft : PartOK(part, draft[part])
    /\ import # None =>
         /\ import.file \in State /\ import.before \in Configuration
         /\ TodoOK(import.file, import.todo)
    /\ since # None => since.file \in State /\ since.db \in Configuration
    /\ since # None /\ import # None => since.file = import.file

\* A write is still to be made, by the import i or by the next one.
Pend(i, s) == i = None \/ Holds(i.todo, s)
\* A write is the next one.
HeadNow(i, s) == i # None /\ i.todo # <<>> /\ Head(i.todo) = s

\* The roles of an app, if it is there.
Had(d, a) == IF d.app[a] = None THEN {} ELSE d.app[a].roles

\* In d, an app is between what it was in D and what the file F describes over it: it has the
\* roles it had and some of the file's, all whose rows are written.
AppOK(d, i, F, D, a) ==
    IF F.app[a] = None THEN d.app[a] = D.app[a]
    ELSE /\ \/ d.app[a] = None /\ D.app[a] = None
            \/ /\ d.app[a] # None /\ Had(D, a) \subseteq d.app[a].roles
               /\ d.app[a].roles \subseteq Had(D, a) \cup F.app[a].roles
         /\ ~ Pend(i, <<"app", a>>) => d.app[a] # None /\ d.app[a].enabled = F.app[a].enabled
         /\ \A r \in F.app[a].roles :
              ~ Pend(i, <<"role", a, r>>) => d.app[a] # None /\ r \in d.app[a].roles

\* Somebody is as they were or as described (S), the second once their row is written; and so they
\* were when the import under way was planned.
PersonOK(d, i, S, F, D, p) ==
    /\ \/ d.kind[p] = D.kind[p] /\ d.status[p] = D.status[p]
       \/ d.kind[p] = S.kind[p] /\ d.status[p] = S.status[p]
    /\ F.kind[p] # None /\ ~ Pend(i, <<"person", p>>)
         => d.kind[p] = S.kind[p] /\ d.status[p] = S.status[p]
    /\ i # None => \/ i.before.kind[p] = D.kind[p]
                   \/ i.before.kind[p] = S.kind[p] /\ d.kind[p] = S.kind[p] /\ d.status[p] = S.status[p]

\* The members of a group the file lists are as described, unless they are still to be emptied or
\* the described ones are next to join.
MembersOK(d, i, S, F, D, g) ==
    IF F.members[g] = None THEN d.members[g] = D.members[g]
    ELSE Pend(i, <<"clear", g>>) \/ HeadNow(i, <<"join", g, S.members[g]>>) \/ d.members[g] = S.members[g]

\* The file grants an app, and the app is there in the end.
Wanted(S, F, h, a) == Lists(F, h) /\ F.grant[h][a] # None /\ S.app[a] # None

\* The same for a grant.
GrantOK(d, i, S, F, D, h, a) ==
    IF ~ Wanted(S, F, h, a) THEN d.grant[h][a] = D.grant[h][a]
    ELSE \/ Pend(i, <<"grant", h, a>>)
         \/ HeadNow(i, <<"fill", h, a, S.grant[h][a]>>)
         \/ d.grant[h][a] = S.grant[h][a]

\* A second half puts what is described into what the first half emptied.
HeadOK(d, i, S, F) ==
    i # None /\ i.todo # <<>> /\ Second(Head(i.todo)) =>
        \/ \E h \in Holders, a \in Apps :
             Wanted(S, F, h, a) /\ d.grant[h][a] = {} /\ Head(i.todo) = <<"fill", h, a, S.grant[h][a]>>
        \/ \E g \in Groups :
             F.members[g] # None /\ d.members[g] \in {None, {}} /\ Head(i.todo) = <<"join", g, S.members[g]>>

\* The database d, with the import i under way or none, is on the way from D to what F describes.
OnTheWay(d, i, S, F, D) ==
    /\ \A a \in Apps : AppOK(d, i, F, D, a)
    /\ \A p \in People : PersonOK(d, i, S, F, D, p)
    /\ d.factor = D.factor /\ (i # None => i.before.factor = D.factor)
    /\ \A g \in Groups : MembersOK(d, i, S, F, D, g)
    /\ \A h \in Holders, a \in Apps : GrantOK(d, i, S, F, D, h, a)
    /\ HeadOK(d, i, S, F)

\* The instance is on the way to what the file at hand describes, until something else writes.
Settling ==
    since # None => OnTheWay(db, import, Settled(since.file, since.db), since.file, since.db)

-----------------------------------------------------------------------------
(* The script of a file: which writes, in which order. *)
\* SetToSeq lists a finite set: each member, and nothing else.
LEMMA Listed ==
    ASSUME NEW S, IsFiniteSet(S)
    PROVE  /\ SetToSeq(S) \in Seq(S) /\ Len(SetToSeq(S)) = Cardinality(S)
           /\ \A x \in S : Holds(SetToSeq(S), x)
<1>1. PICK n \in Nat : n = Cardinality(S) /\ ExistsBijection(1..n, S)
  BY FS_CardinalityType
<1>2. \E f \in [1..n -> S] : IsInjective(f)
  BY <1>1 DEF ExistsBijection, Bijection, Injection
<1>3. PICK q \in [1..n -> S] : q = SetToSeq(S) /\ IsInjective(q)
  BY <1>1, <1>2 DEF SetToSeq
<1>4. IsFiniteSet(1..n) /\ Cardinality(1..n) = n
  BY FS_Interval
<1>5. q \in Injection(1..n, S)
  BY <1>3 DEF Injection
<1>6. q \in Surjection(1..n, S)
  BY <1>1, <1>4, <1>5, FS_Injection
<1>7. \A x \in S : \E i \in 1..n : q[i] = x
  BY <1>6 DEF Surjection
<1>8. q \in Seq(S) /\ Len(q) = n
  BY <1>3
<1> QED BY <1>1, <1>3, <1>7, <1>8 DEF Holds

\* A sequence that is defined by the one before it, up to any length.
LEMMA Flattening ==
    ASSUME NEW s, NEW n \in Nat
    PROVE  \E g : g = [i \in 1..n |-> IF i = 1 THEN s[i] ELSE g[i - 1] \o s[i]]
<1> DEFINE Bad == {m \in Nat : ~ \E g : g = [i \in 1..m |-> IF i = 1 THEN s[i] ELSE g[i - 1] \o s[i]]}
<1>1. SUFFICES ASSUME Bad # {} PROVE FALSE
  OBVIOUS
<1>2. Bad \in SUBSET Nat
  OBVIOUS
<1>3. \A m \in Nat : m \in Bad <=> ~ \E g : g = [i \in 1..m |-> IF i = 1 THEN s[i] ELSE g[i - 1] \o s[i]]
  OBVIOUS
<1> HIDE DEF Bad
<1>4. PICK m \in Bad : \A k \in Bad : m =< k
  BY <1>1, <1>2, Least
<1>5. CASE m = 0
  <2>1. PICK g : g = [i \in 1..0 |-> s[i]]
    OBVIOUS
  <2>2. g = [i \in 1..0 |-> IF i = 1 THEN s[i] ELSE g[i - 1] \o s[i]]
    BY <2>1
  <2>3. 0 \notin Bad
    <3>1. \E h : h = [i \in 1..0 |-> IF i = 1 THEN s[i] ELSE h[i - 1] \o s[i]]
      BY <2>2
    <3> QED BY <1>3, <3>1
  <2> QED BY <1>4, <1>5, <2>3
<1>6. CASE m # 0
  <2>1. PICK k \in Nat : m = k + 1
    <3>1. m \in Nat
      BY <1>2, <1>4
    <3>2. m - 1 \in Nat /\ m = (m - 1) + 1
      BY <1>6, <3>1
    <3> QED BY <3>2
  <2>2. k \notin Bad
    <3>1. k < m /\ k \in Nat /\ m \in Nat
      BY <2>1
    <3>2. k \in Bad => m =< k
      BY <1>4
    <3> QED BY <3>1, <3>2
  <2>3. PICK g : g = [i \in 1..k |-> IF i = 1 THEN s[i] ELSE g[i - 1] \o s[i]]
    BY <1>3, <2>2
  <2>4. PICK h : h = [i \in 1..m |-> IF i <= k THEN g[i] ELSE IF i = 1 THEN s[i] ELSE g[i - 1] \o s[i]]
    OBVIOUS
  <2>5. ASSUME NEW i \in 1..m PROVE h[i] = IF i = 1 THEN s[i] ELSE h[i - 1] \o s[i]
    <3>1. i - 1 \in 0..k /\ (i # 1 => i - 1 \in 1..k)
      BY <2>1
    <3>2. i # 1 => h[i - 1] = g[i - 1]
      BY <2>1, <2>4, <3>1
    <3>3. CASE i <= k
      <4>1. h[i] = g[i] /\ i \in 1..k
        BY <2>4, <3>3
      <4>2. g[i] = IF i = 1 THEN s[i] ELSE g[i - 1] \o s[i]
        BY <2>3, <4>1
      <4> QED BY <3>2, <4>1, <4>2
    <3>4. CASE ~ (i <= k)
      BY <2>4, <3>2, <3>4
    <3> QED BY <3>3, <3>4
  <2>6. h = [i \in 1..m |-> IF i = 1 THEN s[i] ELSE h[i - 1] \o s[i]]
    BY <2>4, <2>5
  <2>7. m \in Nat
    BY <2>1
  <2> QED BY <1>3, <1>4, <2>6, <2>7
<1> QED BY <1>5, <1>6

\* What is held by sequences that are joined.
LEMMA Joined ==
    ASSUME NEW S, NEW p \in Seq(S), NEW q \in Seq(S)
    PROVE  /\ p \o q \in Seq(S)
           /\ \A x : Holds(p \o q, x) <=> Holds(p, x) \/ Holds(q, x)
<1>1. PICK r : r = p \o q
  OBVIOUS
<1>2. /\ r \in Seq(S) /\ Len(r) = Len(p) + Len(q) /\ Len(p) \in Nat /\ Len(q) \in Nat
      /\ \A i \in 1..Len(p) : r[i] = p[i]
      /\ \A i \in 1..Len(q) : r[Len(p) + i] = q[i]
  BY <1>1
<1>3. ASSUME NEW x, Holds(r, x) PROVE Holds(p, x) \/ Holds(q, x)
  <2>1. PICK i \in 1..Len(r) : r[i] = x
    BY <1>3 DEF Holds
  <2>2. CASE i <= Len(p)
    BY <1>2, <2>1, <2>2 DEF Holds
  <2>3. CASE ~ (i <= Len(p))
    <3>1. PICK j \in 1..Len(q) : i = Len(p) + j
      <4>1. i - Len(p) \in 1..Len(q) /\ i = Len(p) + (i - Len(p))
        BY <1>2, <2>1, <2>3
      <4> QED BY <4>1
    <3> QED BY <1>2, <2>1, <3>1 DEF Holds
  <2> QED BY <2>2, <2>3
<1>4. ASSUME NEW x, Holds(p, x) \/ Holds(q, x) PROVE Holds(r, x)
  <2>1. CASE Holds(p, x)
    <3>1. PICK i \in 1..Len(p) : p[i] = x
      BY <2>1 DEF Holds
    <3>2. i \in 1..Len(r) /\ r[i] = x
      BY <1>2, <3>1
    <3> QED BY <3>2 DEF Holds
  <2>2. CASE Holds(q, x)
    <3>1. PICK i \in 1..Len(q) : q[i] = x
      BY <2>2 DEF Holds
    <3>2. Len(p) + i \in 1..Len(r) /\ r[Len(p) + i] = x
      BY <1>2, <3>1
    <3> QED BY <3>2 DEF Holds
  <2> QED BY <1>4, <2>1, <2>2
<1> QED BY <1>1, <1>2, <1>3, <1>4

\* FlattenSeq holds what the sequences hold.
LEMMA Flattened ==
    ASSUME NEW S, NEW seqs \in Seq(Seq(S))
    PROVE  /\ FlattenSeq(seqs) \in Seq(S)
           /\ \A x : Holds(FlattenSeq(seqs), x) <=> \E k \in 1..Len(seqs) : Holds(seqs[k], x)
<1>1. CASE Len(seqs) = 0
  <2>1. seqs = <<>> /\ FlattenSeq(seqs) = <<>>
    BY <1>1 DEF FlattenSeq
  <2>2. <<>> \in Seq(S) /\ 1..Len(<<>>) = {}
    OBVIOUS
  <2> QED BY <2>1, <2>2 DEF Holds
<1>2. CASE Len(seqs) # 0
  <2>1. PICK n \in Nat : n = Len(seqs) /\ n >= 1
    BY <1>2
  <2>2. PICK g : /\ g = [i \in 1..n |-> IF i = 1 THEN seqs[i] ELSE g[i - 1] \o seqs[i]]
                 /\ FlattenSeq(seqs) = g[n]
    <3> DEFINE Flat(f) == f = [i \in 1..Len(seqs) |-> IF i = 1 THEN seqs[i] ELSE f[i - 1] \o seqs[i]]
    <3>1. \E f : Flat(f)
      BY <2>1, Flattening
    <3>2. PICK g : g = CHOOSE f : Flat(f)
      OBVIOUS
    <3>3. Flat(g)
      BY <3>1, <3>2, Zenon
    <3>4. FlattenSeq(seqs) = g[Len(seqs)]
      BY <1>2, <3>2, Zenon DEF FlattenSeq
    <3> QED BY <2>1, <3>3, <3>4
  <2> DEFINE Good(m) == /\ g[m] \in Seq(S)
                        /\ \A x : Holds(g[m], x) <=> \E k \in 1..m : Holds(seqs[k], x)
             Bad == {m \in 1..n : ~ Good(m)}
  <2>3. \A i \in 1..n : seqs[i] \in Seq(S)
    BY <2>1
  <2>4. Good(1)
    <3>1. g[1] = seqs[1]
      BY <2>1, <2>2
    <3> QED BY <2>1, <2>3, <3>1
  <2>5. ASSUME NEW m \in 1..n, m # 1, Good(m - 1) PROVE Good(m)
    <3>1. PICK p \in Seq(S), q \in Seq(S) : p = g[m - 1] /\ q = seqs[m]
      BY <2>3, <2>5
    <3>2. g[m] = p \o q
      BY <2>2, <2>5, <3>1
    <3>3. g[m] \in Seq(S) /\ \A x : Holds(g[m], x) <=> Holds(p, x) \/ Holds(q, x)
      BY <3>2, Joined
    <3>4. \A x : Holds(p, x) <=> \E k \in 1..(m - 1) : Holds(seqs[k], x)
      BY <2>5, <3>1
    <3>5. 1..m = 1..(m - 1) \cup {m}
      BY <2>1, <2>5
    <3> QED BY <3>1, <3>3, <3>4, <3>5
  <2> HIDE DEF Good
  <2>6. Bad = {}
    <3>1. SUFFICES ASSUME Bad # {} PROVE FALSE
      OBVIOUS
    <3>2. Bad \in SUBSET Nat
      BY <2>1
    <3>3. PICK m \in Bad : \A k \in Bad : m =< k
      BY <3>1, <3>2, Least
    <3>4. m \in 1..n /\ ~ Good(m) /\ m # 1
      BY <2>4, <3>3
    <3>5. m - 1 \in 1..n /\ m - 1 < m
      BY <2>1, <3>4
    <3>6. m - 1 \notin Bad
      BY <3>2, <3>3, <3>5
    <3> QED BY <2>5, <3>4, <3>5, <3>6
  <2>7. Good(n)
    BY <2>1, <2>6
  <2> QED BY <2>1, <2>2, <2>7 DEF Good
<1> QED BY <1>1, <1>2

\* What the steps of a table hold, in whatever order its rows come.
LEMMA Ordered ==
    ASSUME NEW S, NEW X, IsFiniteSet(X), NEW steps, DOMAIN steps = X,
           \A x \in X : steps[x] \in Seq(S)
    PROVE  /\ InOrder(steps) \in Seq(S)
           /\ \A y : Holds(InOrder(steps), y) <=> \E x \in X : Holds(steps[x], y)
<1>1. PICK row : row = SetToSeq(X)
  OBVIOUS
<1>2. row \in Seq(X) /\ \A x \in X : Holds(row, x)
  BY <1>1, Listed
<1>3. PICK seqs : seqs = [i \in 1..Len(row) |-> steps[row[i]]]
  OBVIOUS
<1>4. InOrder(steps) = FlattenSeq(seqs)
  BY <1>1, <1>3 DEF InOrder
<1>5. \A i \in 1..Len(row) : row[i] \in X
  BY <1>2
<1>6. Len(row) \in Nat
  BY <1>2
<1>7. seqs \in Seq(Seq(S)) /\ Len(seqs) = Len(row)
  <2>1. \A i \in 1..Len(row) : steps[row[i]] \in Seq(S)
    BY <1>5
  <2> QED BY <1>3, <1>6, <2>1
<1>8. ASSUME NEW y
      PROVE  (\E k \in 1..Len(seqs) : Holds(seqs[k], y)) <=> \E x \in X : Holds(steps[x], y)
  <2>1. ASSUME NEW k \in 1..Len(seqs), Holds(seqs[k], y) PROVE \E x \in X : Holds(steps[x], y)
    BY <1>3, <1>5, <1>7, <2>1
  <2>2. ASSUME NEW x \in X, Holds(steps[x], y) PROVE \E k \in 1..Len(seqs) : Holds(seqs[k], y)
    <3>1. PICK i \in 1..Len(row) : row[i] = x
      BY <1>2 DEF Holds
    <3> QED BY <1>3, <1>7, <2>2, <3>1
  <2> QED BY <2>1, <2>2
<1>9. /\ FlattenSeq(seqs) \in Seq(S)
      /\ \A y : Holds(FlattenSeq(seqs), y) <=> \E k \in 1..Len(seqs) : Holds(seqs[k], y)
  BY <1>7, Flattened
<1> QED BY <1>4, <1>8, <1>9

\* One step, and a step for each of a sequence, hold just that.
LEMMA OneStep ==
    ASSUME NEW S, NEW x \in S
    PROVE  <<x>> \in Seq(S) /\ \A y : Holds(<<x>>, y) <=> y = x
<1>1. <<x>> \in Seq(S) /\ Len(<<x>>) = 1 /\ <<x>>[1] = x
  OBVIOUS
<1>2. 1..1 = {1}
  OBVIOUS
<1> QED BY <1>1, <1>2 DEF Holds

\* The grants of somebody, or of a group.
LEMMA GrantsListed ==
    ASSUME NEW f \in State, NEW h \in Holders, NEW S,
           \A a \in Apps : <<"grant", h, a>> \in S
    PROVE  /\ GrantSteps(f, h) \in Seq(S)
           /\ \A y : Holds(GrantSteps(f, h), y)
                       <=> \E a \in Apps : f.grant[h][a] # None /\ y = <<"grant", h, a>>
<1> DEFINE granted == {a \in Apps : f.grant[h][a] # None}
<1>1. PICK G : G = granted
  OBVIOUS
<1>2. IsFiniteSet(G) /\ G \subseteq Apps
  BY <1>1, FS_Subset, TransferAssumption
<1>3. PICK row : row = SetToSeq(G)
  OBVIOUS
<1>4. row \in Seq(G) /\ Len(row) = Cardinality(G) /\ \A x \in G : Holds(row, x)
  BY <1>2, <1>3, Listed
<1>5. PICK q : q = [i \in 1..Len(row) |-> <<"grant", h, row[i]>>]
  OBVIOUS
<1>6. GrantSteps(f, h) = q
  BY <1>1, <1>3, <1>4, <1>5 DEF GrantSteps
<1>7. \A i \in 1..Len(row) : row[i] \in G
  BY <1>4
<1>8. Len(row) \in Nat
  BY <1>4
<1>9. \A i \in 1..Len(row) : <<"grant", h, row[i]>> \in S
  BY <1>2, <1>7
<1>10. q \in Seq(S) /\ Len(q) = Len(row)
  BY <1>5, <1>8, <1>9
<1>11. ASSUME NEW y
       PROVE  Holds(q, y) <=> \E a \in Apps : f.grant[h][a] # None /\ y = <<"grant", h, a>>
  <2>1. ASSUME Holds(q, y) PROVE \E a \in Apps : f.grant[h][a] # None /\ y = <<"grant", h, a>>
    <3>1. PICK i \in 1..Len(row) : y = <<"grant", h, row[i]>>
      BY <1>5, <1>10, <2>1 DEF Holds
    <3>2. row[i] \in Apps /\ f.grant[h][row[i]] # None
      BY <1>1, <1>7
    <3> QED BY <3>1, <3>2
  <2>2. ASSUME NEW a \in Apps, f.grant[h][a] # None, y = <<"grant", h, a>> PROVE Holds(q, y)
    <3>1. a \in G
      BY <1>1, <2>2
    <3>2. PICK i \in 1..Len(row) : row[i] = a
      BY <1>4, <3>1 DEF Holds
    <3> QED BY <1>5, <1>10, <2>2, <3>2 DEF Holds
  <2> QED BY <2>1, <2>2
<1> QED BY <1>6, <1>10, <1>11

\* An app and its roles.
LEMMA AppListed ==
    ASSUME NEW f \in State, NEW a \in Apps, f.app[a] # None, NEW S,
           <<"app", a>> \in S, \A r \in Roles : <<"role", a, r>> \in S
    PROVE  /\ AppSteps(f, a) \in Seq(S)
           /\ \A y : Holds(AppSteps(f, a), y)
                       <=> y = <<"app", a>> \/ \E r \in f.app[a].roles : y = <<"role", a, r>>
<1>1. PICK G : G = f.app[a].roles
  OBVIOUS
<1>2. IsFiniteSet(G) /\ G \subseteq Roles
  <2>1. f.app[a] \in AppData
    BY DEF State
  <2>2. G \subseteq Roles
    BY <1>1, <2>1 DEF AppData
  <2> QED BY <2>2, FS_Subset, TransferAssumption
<1>3. PICK row : row = SetToSeq(G)
  OBVIOUS
<1>4. row \in Seq(G) /\ \A x \in G : Holds(row, x)
  BY <1>2, <1>3, Listed
<1>5. PICK q : q = [i \in 1..Len(row) |-> <<"role", a, row[i]>>]
  OBVIOUS
<1>6. AppSteps(f, a) = <<<<"app", a>>>> \o q
  BY <1>1, <1>3, <1>5 DEF AppSteps
<1>7. \A i \in 1..Len(row) : row[i] \in G
  BY <1>4
<1>8. Len(row) \in Nat
  BY <1>4
<1>9. \A i \in 1..Len(row) : <<"role", a, row[i]>> \in S
  BY <1>2, <1>7
<1>10. q \in Seq(S) /\ Len(q) = Len(row)
  BY <1>5, <1>8, <1>9
<1>11. ASSUME NEW y
       PROVE  Holds(q, y) <=> \E r \in G : y = <<"role", a, r>>
  <2>1. ASSUME Holds(q, y) PROVE \E r \in G : y = <<"role", a, r>>
    BY <1>5, <1>7, <1>10, <2>1 DEF Holds
  <2>2. ASSUME NEW r \in G, y = <<"role", a, r>> PROVE Holds(q, y)
    <3>1. PICK i \in 1..Len(row) : row[i] = r
      BY <1>4 DEF Holds
    <3> QED BY <1>5, <1>10, <2>2, <3>1 DEF Holds
  <2> QED BY <2>1, <2>2
<1>12. PICK x \in S : x = <<"app", a>>
  OBVIOUS
<1>13. <<x>> \in Seq(S) /\ \A y : Holds(<<x>>, y) <=> y = x
  BY OneStep
<1>14. <<x>> \o q \in Seq(S) /\ \A y : Holds(<<x>> \o q, y) <=> Holds(<<x>>, y) \/ Holds(q, y)
  BY <1>10, <1>13, Joined
<1> QED BY <1>1, <1>6, <1>11, <1>12, <1>13, <1>14

\* Somebody, and a group, with their grants.
LEMMA HolderListed ==
    ASSUME NEW f \in State, NEW h \in Holders, NEW S, \A a \in Apps : <<"grant", h, a>> \in S
    PROVE  /\ <<"person", h>> \in S =>
                /\ PersonSteps(f, h) \in Seq(S)
                /\ \A y : Holds(PersonSteps(f, h), y)
                            <=> \/ y = <<"person", h>>
                                \/ \E a \in Apps : f.grant[h][a] # None /\ y = <<"grant", h, a>>
           /\ <<"group", h>> \in S /\ <<"clear", h>> \in S =>
                /\ GroupSteps(f, h) \in Seq(S)
                /\ \A y : Holds(GroupSteps(f, h), y)
                            <=> \/ y = <<"group", h>> \/ y = <<"clear", h>>
                                \/ \E a \in Apps : f.grant[h][a] # None /\ y = <<"grant", h, a>>
<1>1. PICK q : q = GrantSteps(f, h)
  OBVIOUS
<1>2. /\ q \in Seq(S)
      /\ \A y : Holds(q, y) <=> \E a \in Apps : f.grant[h][a] # None /\ y = <<"grant", h, a>>
  BY <1>1, GrantsListed
<1>3. ASSUME NEW x \in S
      PROVE  <<x>> \o q \in Seq(S) /\ \A y : Holds(<<x>> \o q, y) <=> y = x \/ Holds(q, y)
  <2>1. <<x>> \in Seq(S) /\ \A y : Holds(<<x>>, y) <=> y = x
    BY OneStep
  <2>2. <<x>> \o q \in Seq(S) /\ \A y : Holds(<<x>> \o q, y) <=> Holds(<<x>>, y) \/ Holds(q, y)
    BY <1>2, <2>1, Joined
  <2> QED BY <2>1, <2>2
<1>4. ASSUME NEW x \in S, NEW z \in S
      PROVE  /\ <<x, z>> \o q \in Seq(S)
             /\ \A y : Holds(<<x, z>> \o q, y) <=> y = x \/ y = z \/ Holds(q, y)
  <2>1. <<x, z>> \in Seq(S) /\ \A y : Holds(<<x, z>>, y) <=> y = x \/ y = z
    <3>1. <<x, z>> \in Seq(S) /\ Len(<<x, z>>) = 2 /\ <<x, z>>[1] = x /\ <<x, z>>[2] = z
      OBVIOUS
    <3>2. 1..2 = {1, 2}
      OBVIOUS
    <3> QED BY <3>1, <3>2 DEF Holds
  <2>2. /\ <<x, z>> \o q \in Seq(S)
        /\ \A y : Holds(<<x, z>> \o q, y) <=> Holds(<<x, z>>, y) \/ Holds(q, y)
    BY <1>2, <2>1, Joined
  <2> QED BY <2>1, <2>2
<1>5. PersonSteps(f, h) = <<<<"person", h>>>> \o q
  BY <1>1 DEF PersonSteps
<1>6. GroupSteps(f, h) = <<<<"group", h>>, <<"clear", h>>>> \o q
  BY <1>1 DEF GroupSteps
<1>7. ASSUME <<"person", h>> \in S
      PROVE  /\ PersonSteps(f, h) \in Seq(S)
             /\ \A y : Holds(PersonSteps(f, h), y)
                            <=> \/ y = <<"person", h>>
                                \/ \E a \in Apps : f.grant[h][a] # None /\ y = <<"grant", h, a>>
  <2>1. PICK x \in S : x = <<"person", h>>
    BY <1>7
  <2>2. PersonSteps(f, h) = <<x>> \o q
    BY <1>5, <2>1
  <2>3. <<x>> \o q \in Seq(S) /\ \A y : Holds(<<x>> \o q, y) <=> y = x \/ Holds(q, y)
    BY <1>3
  <2>4. PICK r : r = <<x>> \o q
    OBVIOUS
  <2>5. r \in Seq(S) /\ \A y : Holds(r, y) <=> y = x \/ Holds(q, y)
    BY <2>3, <2>4
  <2> QED BY <1>2, <2>1, <2>2, <2>4, <2>5
<1>8. ASSUME <<"group", h>> \in S, <<"clear", h>> \in S
      PROVE  /\ GroupSteps(f, h) \in Seq(S)
             /\ \A y : Holds(GroupSteps(f, h), y)
                            <=> \/ y = <<"group", h>> \/ y = <<"clear", h>>
                                \/ \E a \in Apps : f.grant[h][a] # None /\ y = <<"grant", h, a>>
  <2>1. PICK x \in S : x = <<"group", h>>
    BY <1>8
  <2>2. PICK z \in S : z = <<"clear", h>>
    BY <1>8
  <2>3. GroupSteps(f, h) = <<x, z>> \o q
    BY <1>6, <2>1, <2>2
  <2>4. /\ <<x, z>> \o q \in Seq(S)
        /\ \A y : Holds(<<x, z>> \o q, y) <=> y = x \/ y = z \/ Holds(q, y)
    BY <1>4
  <2>5. PICK r : r = <<x, z>> \o q
    OBVIOUS
  <2>6. r \in Seq(S) /\ \A y : Holds(r, y) <=> y = x \/ y = z \/ Holds(q, y)
    BY <2>4, <2>5
  <2> QED BY <1>2, <2>1, <2>2, <2>3, <2>5, <2>6
<1> QED BY <1>7, <1>8

\* What is written of people, and of groups.
OfSomebody(f, s) ==
    \E p \in People : f.kind[p] # None /\
        (s = <<"person", p>> \/ \E a \in Apps : f.grant[p][a] # None /\ s = <<"grant", p, a>>)
OfGroup(f, s) ==
    \E g \in Groups : f.members[g] # None /\
        (\/ s = <<"group", g>> \/ s = <<"clear", g>>
         \/ \E a \in Apps : f.grant[g][a] # None /\ s = <<"grant", g, a>>)

\* Every row of a file is one of an app, of somebody or of a group, written in this order.
LEMMA RowsApart ==
    ASSUME NEW f, NEW s
    PROVE  /\ FileRow(f, s) <=> AppRow(f, s) \/ OfSomebody(f, s) \/ OfGroup(f, s)
           /\ AppRow(f, s) => Phase(s) = 1
           /\ OfSomebody(f, s) => Phase(s) = 2
           /\ OfGroup(f, s) => Phase(s) = 3
<1>1. \A g \in Groups : g \notin People
  BY TransferAssumption
<1>2. AppRow(f, s) => Phase(s) = 1
  BY DEF AppRow, Phase
<1>3. OfSomebody(f, s) => Phase(s) = 2
  BY DEF OfSomebody, Phase
<1>4. OfGroup(f, s) => Phase(s) = 3
  BY <1>1 DEF OfGroup, Phase
<1>5. OfSomebody(f, s) \/ OfGroup(f, s) => FileRow(f, s)
  <2>1. ASSUME NEW p \in People, f.kind[p] # None,
               s = <<"person", p>> \/ \E a \in Apps : f.grant[p][a] # None /\ s = <<"grant", p, a>>
        PROVE  FileRow(f, s)
    BY <2>1 DEF FileRow, PersonRow, GrantRow, Holders, Lists
  <2>2. ASSUME NEW g \in Groups, f.members[g] # None,
               \/ s = <<"group", g>> \/ s = <<"clear", g>>
               \/ \E a \in Apps : f.grant[g][a] # None /\ s = <<"grant", g, a>>
        PROVE  FileRow(f, s)
    BY <1>1, <2>2 DEF FileRow, GroupRow, GrantRow, Holders, Lists
  <2> QED BY <2>1, <2>2 DEF OfSomebody, OfGroup
<1>6. GrantRow(f, s) => OfSomebody(f, s) \/ OfGroup(f, s)
  <2>1. ASSUME NEW h \in Holders, NEW a \in Apps, Lists(f, h), f.grant[h][a] # None,
               s = <<"grant", h, a>>
        PROVE  OfSomebody(f, s) \/ OfGroup(f, s)
    <3>1. CASE h \in People
      BY <2>1, <3>1 DEF OfSomebody, Lists
    <3>2. CASE h \notin People
      BY <2>1, <3>2 DEF OfGroup, Lists, Holders
    <3> QED BY <3>1, <3>2
  <2> QED BY <2>1 DEF GrantRow
<1>7. PersonRow(f, s) \/ GroupRow(f, s) => OfSomebody(f, s) \/ OfGroup(f, s)
  BY DEF PersonRow, GroupRow, OfSomebody, OfGroup
<1> QED BY <1>2, <1>3, <1>4, <1>5, <1>6, <1>7 DEF FileRow

\* What two sequences hold comes in order when all of the first comes before all of the second.
LEMMA JoinedInOrder ==
    ASSUME NEW S, NEW p \in Seq(S), NEW q \in Seq(S), NEW n \in Nat,
           \A i, j \in 1..Len(p) : i =< j => Phase(p[i]) =< Phase(p[j]),
           \A i, j \in 1..Len(q) : i =< j => Phase(q[i]) =< Phase(q[j]),
           \A i \in 1..Len(p) : Phase(p[i]) \in 1..n,
           \A i \in 1..Len(q) : Phase(q[i]) \in Nat /\ Phase(q[i]) >= n
    PROVE  \A i, j \in 1..Len(p \o q) : i =< j => Phase((p \o q)[i]) =< Phase((p \o q)[j])
<1>1. PICK r : r = p \o q
  OBVIOUS
<1>2. /\ Len(r) = Len(p) + Len(q) /\ Len(p) \in Nat /\ Len(q) \in Nat
      /\ \A i \in 1..Len(p) : r[i] = p[i]
      /\ \A i \in 1..Len(q) : r[Len(p) + i] = q[i]
  BY <1>1
<1>3. ASSUME NEW i \in 1..Len(r), ~ (i =< Len(p))
      PROVE  i - Len(p) \in 1..Len(q) /\ r[i] = q[i - Len(p)]
  <2>1. i - Len(p) \in 1..Len(q) /\ i = Len(p) + (i - Len(p))
    BY <1>2, <1>3
  <2> QED BY <1>2, <2>1
<1>4. ASSUME NEW i \in 1..Len(r), NEW j \in 1..Len(r), i =< j
      PROVE  Phase(r[i]) =< Phase(r[j])
  <2>1. CASE j =< Len(p)
    <3>1. i \in 1..Len(p) /\ j \in 1..Len(p)
      BY <1>2, <1>4, <2>1
    <3> QED BY <1>2, <1>4, <3>1
  <2>2. CASE i =< Len(p) /\ ~ (j =< Len(p))
    <3>1. i \in 1..Len(p)
      BY <1>2, <2>2
    <3>2. Phase(r[i]) \in 1..n
      BY <1>2, <3>1
    <3>3. Phase(r[j]) \in Nat /\ Phase(r[j]) >= n
      BY <1>3, <2>2
    <3> QED BY <3>2, <3>3
  <2>3. CASE ~ (i =< Len(p))
    <3>1. ~ (j =< Len(p)) /\ i - Len(p) =< j - Len(p)
      BY <1>2, <1>4, <2>3
    <3>2. /\ i - Len(p) \in 1..Len(q) /\ r[i] = q[i - Len(p)]
          /\ j - Len(p) \in 1..Len(q) /\ r[j] = q[j - Len(p)]
      BY <1>3, <2>3, <3>1
    <3> QED BY <3>1, <3>2
  <2> QED BY <2>1, <2>2, <2>3
<1> QED BY <1>1, <1>4

\* The script of a file holds its rows and nothing else: apps, then people, then groups.
LEMMA Scripted ==
    ASSUME NEW f \in State
    PROVE  /\ TodoOK(f, Script(f))
           /\ \A s : Holds(Script(f), s) <=> FileRow(f, s)
<1>1. PICK A : A = {"app"} \X Apps
  OBVIOUS
<1>2. PICK R : R = {"role"} \X Apps \X Roles
  OBVIOUS
<1>3. PICK P : P = {"person", "group", "clear"} \X Holders
  OBVIOUS
<1>4. PICK G : G = {"grant"} \X Holders \X Apps
  OBVIOUS
<1>5. PICK S : S = A \cup R \cup P \cup G
  OBVIOUS
<1>6. \A a \in Apps : <<"app", a>> \in A
  BY <1>1
<1>7. \A a \in Apps, r \in Roles : <<"role", a, r>> \in R
  BY <1>2
<1>8. \A h \in Holders : <<"person", h>> \in P /\ <<"group", h>> \in P /\ <<"clear", h>> \in P
  BY <1>3
<1>9. \A h \in Holders, a \in Apps : <<"grant", h, a>> \in G
  BY <1>4
<1>10. /\ \A a \in Apps : <<"app", a>> \in S /\ \A r \in Roles : <<"role", a, r>> \in S
      /\ \A h \in Holders : /\ <<"person", h>> \in S /\ <<"group", h>> \in S /\ <<"clear", h>> \in S
                            /\ \A a \in Apps : <<"grant", h, a>> \in S
  BY <1>5, <1>6, <1>7, <1>8, <1>9, Zenon
<1>11. PICK apps : apps = Apart(f).apps
  OBVIOUS
<1>12. PICK people : people = Apart(f).people
  OBVIOUS
<1>13. PICK groups : groups = Apart(f).groups
  OBVIOUS
<1>14. apps \in Seq(S) /\ \A y : Holds(apps, y) <=> AppRow(f, y)
  <2>1. PICK X : X = {a \in Apps : f.app[a] # None}
    OBVIOUS
  <2>2. PICK steps : steps = [a \in X |-> AppSteps(f, a)]
    OBVIOUS
  <2>3. apps = InOrder(steps)
    BY <1>11, <2>1, <2>2 DEF Apart
  <2>4. IsFiniteSet(X) /\ X \subseteq Apps
    BY <2>1, FS_Subset, TransferAssumption
  <2>5. ASSUME NEW a \in X
        PROVE  /\ AppSteps(f, a) \in Seq(S)
               /\ \A y : Holds(AppSteps(f, a), y)
                           <=> y = <<"app", a>> \/ \E r \in f.app[a].roles : y = <<"role", a, r>>
    <3>1. a \in Apps /\ f.app[a] # None
      BY <2>1
    <3>2. <<"app", a>> \in S /\ \A r \in Roles : <<"role", a, r>> \in S
      BY <1>10, <3>1
    <3> QED BY <3>1, <3>2, AppListed
  <2>6. DOMAIN steps = X /\ \A a \in X : steps[a] = AppSteps(f, a)
    BY <2>2
  <2>7. /\ InOrder(steps) \in Seq(S)
        /\ \A y : Holds(InOrder(steps), y) <=> \E a \in X : Holds(steps[a], y)
    <3>1. \A a \in X : steps[a] \in Seq(S)
      BY <2>5, <2>6
    <3> QED BY <2>4, <2>6, <3>1, Ordered
  <2>8. ASSUME NEW y PROVE (\E a \in X : Holds(steps[a], y)) <=> AppRow(f, y)
    BY <2>1, <2>5, <2>6 DEF AppRow
  <2> QED BY <2>3, <2>7, <2>8
<1>15. people \in Seq(S) /\ \A y : Holds(people, y) <=> OfSomebody(f, y)
  <2>1. PICK X : X = {p \in People : f.kind[p] # None}
    OBVIOUS
  <2>2. PICK steps : steps = [p \in X |-> PersonSteps(f, p)]
    OBVIOUS
  <2>3. people = InOrder(steps)
    BY <1>12, <2>1, <2>2 DEF Apart
  <2>4. IsFiniteSet(X) /\ X \subseteq People
    BY <2>1, FS_Subset, TransferAssumption
  <2>5. ASSUME NEW p \in X
        PROVE  /\ PersonSteps(f, p) \in Seq(S)
               /\ \A y : Holds(PersonSteps(f, p), y)
                           <=> \/ y = <<"person", p>>
                               \/ \E a \in Apps : f.grant[p][a] # None /\ y = <<"grant", p, a>>
    <3>1. p \in Holders
      BY <2>1 DEF Holders
    <3>2. <<"person", p>> \in S /\ \A a \in Apps : <<"grant", p, a>> \in S
      BY <1>10, <3>1
    <3> QED BY <3>1, <3>2, HolderListed
  <2>6. DOMAIN steps = X /\ \A p \in X : steps[p] = PersonSteps(f, p)
    BY <2>2
  <2>7. /\ InOrder(steps) \in Seq(S)
        /\ \A y : Holds(InOrder(steps), y) <=> \E p \in X : Holds(steps[p], y)
    <3>1. \A p \in X : steps[p] \in Seq(S)
      BY <2>5, <2>6
    <3> QED BY <2>4, <2>6, <3>1, Ordered
  <2>8. ASSUME NEW y PROVE (\E p \in X : Holds(steps[p], y)) <=> OfSomebody(f, y)
    BY <2>1, <2>5, <2>6 DEF OfSomebody
  <2> QED BY <2>3, <2>7, <2>8
<1>16. groups \in Seq(S) /\ \A y : Holds(groups, y) <=> OfGroup(f, y)
  <2>1. PICK X : X = {g \in Groups : f.members[g] # None}
    OBVIOUS
  <2>2. PICK steps : steps = [g \in X |-> GroupSteps(f, g)]
    OBVIOUS
  <2>3. groups = InOrder(steps)
    BY <1>13, <2>1, <2>2 DEF Apart
  <2>4. IsFiniteSet(X) /\ X \subseteq Groups
    BY <2>1, FS_Subset, TransferAssumption
  <2>5. ASSUME NEW g \in X
        PROVE  /\ GroupSteps(f, g) \in Seq(S)
               /\ \A y : Holds(GroupSteps(f, g), y)
                           <=> \/ y = <<"group", g>> \/ y = <<"clear", g>>
                               \/ \E a \in Apps : f.grant[g][a] # None /\ y = <<"grant", g, a>>
    <3>1. g \in Holders
      BY <2>1 DEF Holders
    <3>2. <<"group", g>> \in S /\ <<"clear", g>> \in S /\ \A a \in Apps : <<"grant", g, a>> \in S
      BY <1>10, <3>1
    <3> QED BY <3>1, <3>2, HolderListed
  <2>6. DOMAIN steps = X /\ \A g \in X : steps[g] = GroupSteps(f, g)
    BY <2>2
  <2>7. /\ InOrder(steps) \in Seq(S)
        /\ \A y : Holds(InOrder(steps), y) <=> \E g \in X : Holds(steps[g], y)
    <3>1. \A g \in X : steps[g] \in Seq(S)
      BY <2>5, <2>6
    <3> QED BY <2>4, <2>6, <3>1, Ordered
  <2>8. ASSUME NEW y PROVE (\E g \in X : Holds(steps[g], y)) <=> OfGroup(f, y)
    BY <2>1, <2>5, <2>6 DEF OfGroup
  <2> QED BY <2>3, <2>7, <2>8
<1>17. PICK first : first = apps \o people
  OBVIOUS
<1>18. PICK q : q = first \o groups
  OBVIOUS
<1>19. Script(f) = q
  BY <1>11, <1>12, <1>13, <1>17, <1>18 DEF Script
<1>20. first \in Seq(S) /\ \A y : Holds(first, y) <=> Holds(apps, y) \/ Holds(people, y)
  BY <1>14, <1>15, <1>17, Joined
<1>21. q \in Seq(S) /\ \A y : Holds(q, y) <=> Holds(first, y) \/ Holds(groups, y)
  BY <1>16, <1>18, <1>20, Joined
<1>22. \A s : Holds(q, s) <=> FileRow(f, s)
  BY <1>14, <1>15, <1>16, <1>20, <1>21, RowsApart
<1>23. /\ \A i \in 1..Len(apps) : Phase(apps[i]) = 1
       /\ \A i \in 1..Len(people) : Phase(people[i]) = 2
       /\ \A i \in 1..Len(groups) : Phase(groups[i]) = 3
       /\ \A i \in 1..Len(first) : Phase(first[i]) \in {1, 2}
  <2>1. \A y : Holds(apps, y) => Phase(y) = 1
    BY <1>14, RowsApart
  <2>2. \A y : Holds(people, y) => Phase(y) = 2
    BY <1>15, RowsApart
  <2>3. \A y : Holds(groups, y) => Phase(y) = 3
    BY <1>16, RowsApart
  <2>4. \A y : Holds(first, y) => Phase(y) \in {1, 2}
    BY <1>20, <2>1, <2>2
  <2> QED BY <2>1, <2>2, <2>3, <2>4 DEF Holds
<1>24. \A i, j \in 1..Len(first) : i =< j => Phase(first[i]) =< Phase(first[j])
  <2>1. 1 \in Nat /\ apps \in Seq(S) /\ people \in Seq(S)
    BY <1>14, <1>15
  <2>2. \A i \in 1..Len(apps) : Phase(apps[i]) \in 1..1
    BY <1>23
  <2>3. \A i \in 1..Len(people) : Phase(people[i]) \in Nat /\ Phase(people[i]) >= 1
    BY <1>23
  <2>4. \A i, j \in 1..Len(apps) : i =< j => Phase(apps[i]) =< Phase(apps[j])
    BY <1>23
  <2>5. \A i, j \in 1..Len(people) : i =< j => Phase(people[i]) =< Phase(people[j])
    BY <1>23
  <2> QED BY <1>17, <2>1, <2>2, <2>3, <2>4, <2>5, JoinedInOrder
<1>25. \A i, j \in 1..Len(q) : i =< j => Phase(q[i]) =< Phase(q[j])
  <2>1. 2 \in Nat /\ first \in Seq(S) /\ groups \in Seq(S)
    BY <1>16, <1>20
  <2>2. \A i \in 1..Len(first) : Phase(first[i]) \in 1..2
    BY <1>23
  <2>3. \A i \in 1..Len(groups) : Phase(groups[i]) \in Nat /\ Phase(groups[i]) >= 2
    BY <1>23
  <2>4. \A i, j \in 1..Len(groups) : i =< j => Phase(groups[i]) =< Phase(groups[j])
    BY <1>23
  <2> QED BY <1>18, <1>24, <2>1, <2>2, <2>3, <2>4, JoinedInOrder
<1>26. \A i \in 1..Len(q) : FileRow(f, q[i])
  BY <1>22 DEF Holds
<1> QED BY <1>19, <1>21, <1>22, <1>25, <1>26 DEF TodoOK

-----------------------------------------------------------------------------
(* What is still to be done. *)
\* The second half of a write is no row of a file, and belongs where the first half was.
LEMMA SecondsApart ==
    ASSUME NEW f, NEW s
    PROVE  ~ (FileRow(f, s) /\ Second(s)) /\ Phase(s) \in 1..3
<1>1. Phase(s) \in 1..3
  BY DEF Phase
<1>2. FileRow(f, s) => s[1] \in {"app", "role", "person", "grant", "group", "clear"}
  BY DEF FileRow, AppRow, PersonRow, GrantRow, GroupRow
<1>3. Second(s) => s[1] \in {"fill", "join"}
  BY DEF Second
<1> QED BY <1>1, <1>2, <1>3

\* The head of what is to be done comes before the rest, and a write takes the head away, or puts
\* its own second half there.
LEMMA Onward ==
    ASSUME NEW f, NEW q, TodoOK(f, q), q # <<>>, NEW first,
           first = <<>> \/ \E x : first = <<x>> /\ Second(x) /\ Phase(x) = Phase(Head(q))
    PROVE  /\ TodoOK(f, first \o Tail(q))
           /\ \A s : Holds(q, s) /\ s # Head(q) => Holds(first \o Tail(q), s)
           /\ \A s : Holds(first \o Tail(q), s) => Holds(q, s) \/ first = <<s>>
           /\ first # <<>> => first \o Tail(q) # <<>> /\ first = <<Head(first \o Tail(q))>>
           /\ first = <<>> /\ first \o Tail(q) # <<>> => ~ Second(Head(first \o Tail(q)))
<1>1. PICK X : q \in Seq(X)
  BY DEF TodoOK
<1>2. PICK n \in Nat : Len(q) = n + 1
  <2>1. Len(q) \in Nat /\ Len(q) # 0
    BY <1>1
  <2>2. Len(q) - 1 \in Nat /\ Len(q) = (Len(q) - 1) + 1
    BY <2>1
  <2> QED BY <2>2
<1>3. PICK t : t = Tail(q)
  OBVIOUS
<1>4. PICK head : head = Head(q)
  OBVIOUS
<1>5. t \in Seq(X) /\ Len(t) = n /\ head = q[1] /\ \A i \in 1..n : t[i] = q[i + 1]
  BY <1>1, <1>2, <1>3, <1>4
<1>6. ASSUME NEW s PROVE Holds(q, s) <=> s = head \/ Holds(t, s)
  <2>1. ASSUME NEW i \in 1..(n + 1), q[i] = s PROVE s = head \/ Holds(t, s)
    <3>1. CASE i = 1
      BY <1>5, <2>1, <3>1
    <3>2. CASE i # 1
      <4>1. i - 1 \in 1..n /\ (i - 1) + 1 = i
        BY <3>2
      <4> QED BY <1>5, <2>1, <4>1 DEF Holds
    <3> QED BY <3>1, <3>2
  <2>2. ASSUME NEW i \in 1..n, t[i] = s PROVE Holds(q, s)
    <3>1. i + 1 \in 1..Len(q)
      BY <1>2
    <3> QED BY <1>5, <2>2, <3>1 DEF Holds
  <2>3. 1 \in 1..Len(q)
    BY <1>2
  <2> QED BY <1>2, <1>5, <2>1, <2>2, <2>3 DEF Holds
<1>7. \A i \in 1..n : FileRow(f, t[i]) /\ ~ Second(t[i])
  <2>1. ASSUME NEW i \in 1..n PROVE FileRow(f, t[i])
    <3>1. i + 1 \in 1..Len(q) /\ i + 1 # 1
      BY <1>2
    <3> QED BY <1>5, <3>1 DEF TodoOK
  <2> QED BY <2>1, SecondsApart
<1>8. ASSUME NEW i \in 1..n, NEW j \in 1..n, i =< j PROVE Phase(t[i]) =< Phase(t[j])
  <2>1. i + 1 \in 1..Len(q) /\ j + 1 \in 1..Len(q) /\ i + 1 =< j + 1
    BY <1>2, <1>8
  <2>2. Phase(q[i + 1]) =< Phase(q[j + 1])
    BY <2>1 DEF TodoOK
  <2> QED BY <1>5, <2>2
<1>9. ASSUME NEW i \in 1..n PROVE Phase(head) =< Phase(t[i])
  <2>1. 1 \in 1..Len(q) /\ i + 1 \in 1..Len(q) /\ 1 =< i + 1
    BY <1>2
  <2>2. Phase(q[1]) =< Phase(q[i + 1])
    BY <2>1 DEF TodoOK
  <2> QED BY <1>5, <2>2
<1>10. CASE first = <<>>
  <2>1. first \o Tail(q) = t
    BY <1>3, <1>5, <1>10
  <2>2. TodoOK(f, t)
    BY <1>5, <1>7, <1>8 DEF TodoOK
  <2>3. t # <<>> => Head(t) = t[1] /\ 1 \in 1..n
    BY <1>5
  <2> QED BY <1>4, <1>6, <1>7, <1>10, <2>1, <2>2, <2>3
<1>11. CASE first # <<>>
  <2>1. PICK x : first = <<x>> /\ Second(x) /\ Phase(x) = Phase(head)
    BY <1>4, <1>11
  <2>2. PICK r : r = <<x>> \o t
    OBVIOUS
  <2>3. PICK Y : Y = X \cup {x}
    OBVIOUS
  <2>4. t \in Seq(Y)
    BY <1>5, <2>3
  <2>5. /\ r \in Seq(Y) /\ Len(r) = n + 1 /\ r[1] = x /\ r # <<>> /\ Head(r) = x
        /\ \A i \in 1..n : r[i + 1] = t[i]
    <3>1. x \in Y
      BY <2>3
    <3>2. <<x>> \in Seq(Y) /\ Len(<<x>>) = 1 /\ <<x>>[1] = x
      BY <3>1
    <3>3. r \in Seq(Y) /\ Len(r) = n + 1
      BY <1>5, <2>2, <2>4, <3>2
    <3>4. r[1] = x
      BY <1>5, <2>2, <2>4, <3>2
    <3>5. \A i \in 1..n : r[i + 1] = t[i]
      BY <1>5, <2>2, <2>4, <3>2
    <3>6. r # <<>> /\ Head(r) = r[1]
      BY <3>3
    <3> QED BY <3>3, <3>4, <3>5, <3>6
  <2>6. ASSUME NEW i \in 1..(n + 1), i # 1 PROVE i - 1 \in 1..n /\ r[i] = t[i - 1]
    <3>1. i - 1 \in 1..n /\ (i - 1) + 1 = i
      BY <2>6
    <3> QED BY <2>5, <3>1
  <2>7. TodoOK(f, r)
    <3>1. \A i \in 1..(n + 1) : FileRow(f, r[i]) \/ (i = 1 /\ Second(r[i]))
      BY <1>7, <2>1, <2>5, <2>6
    <3>2. ASSUME NEW i \in 1..(n + 1), NEW j \in 1..(n + 1), i =< j
          PROVE  Phase(r[i]) =< Phase(r[j])
      <4>1. CASE i = 1 /\ j = 1
        <5>1. Phase(x) \in 1..3
          BY SecondsApart
        <5> QED BY <2>5, <4>1, <5>1
      <4>2. CASE i = 1 /\ j # 1
        BY <1>9, <2>1, <2>5, <2>6, <4>2
      <4>3. CASE i # 1
        <5>1. j # 1 /\ i - 1 =< j - 1
          BY <3>2, <4>3
        <5> QED BY <1>8, <2>6, <4>3, <5>1
      <4> QED BY <4>1, <4>2, <4>3
    <3> QED BY <2>5, <3>1, <3>2 DEF TodoOK
  <2>8. ASSUME NEW s PROVE Holds(r, s) <=> s = x \/ Holds(t, s)
    <3>1. ASSUME NEW i \in 1..(n + 1), r[i] = s PROVE s = x \/ Holds(t, s)
      BY <1>5, <2>5, <2>6, <3>1 DEF Holds
    <3>2. ASSUME NEW i \in 1..n, t[i] = s PROVE Holds(r, s)
      <4>1. i + 1 \in 1..Len(r)
        BY <2>5
      <4> QED BY <2>5, <3>2, <4>1 DEF Holds
    <3>3. 1 \in 1..Len(r)
      BY <2>5
    <3> QED BY <1>5, <2>5, <3>1, <3>2, <3>3 DEF Holds
  <2>9. first \o Tail(q) = r
    BY <1>3, <2>1, <2>2
  <2> QED BY <1>4, <1>6, <1>11, <2>1, <2>5, <2>7, <2>8, <2>9
<1> QED BY <1>10, <1>11

\* Whatever is held comes no earlier than the head.
LEMMA HeadFirst ==
    ASSUME NEW f, NEW q, TodoOK(f, q), q # <<>>
    PROVE  /\ FileRow(f, Head(q)) \/ Second(Head(q))
           /\ \A s : Holds(q, s) => Phase(Head(q)) =< Phase(s)
<1>1. PICK X : q \in Seq(X)
  BY DEF TodoOK
<1>2. Len(q) \in Nat /\ 1 \in 1..Len(q) /\ Head(q) = q[1]
  BY <1>1
<1>3. \A i \in 1..Len(q) : 1 =< i
  OBVIOUS
<1> QED BY <1>2, <1>3 DEF TodoOK, Holds

-----------------------------------------------------------------------------
(* What each write does, table by table. *)
\* The tables of a database.
AppTable == [Apps -> AppData \cup {None}]
KindTable == [People -> Kinds \cup {None}]
StatusTable == [People -> Statuses \cup {None}]
MemberTable == [Groups -> (SUBSET People) \cup {None}]
Granted == [Apps -> (SUBSET Roles) \cup {None}]
GrantTable == [Holders -> Granted]

\* A database with some of its tables changed.
With(d, app, kind, status, members, grant) ==
    [app |-> app, kind |-> kind, status |-> status, factor |-> d.factor,
     members |-> members, grant |-> grant]

\* Whoever has a kind has a status.
Paired(kind, status) == \A p \in People : kind[p] = None <=> status[p] = None

\* A record is a configuration when its tables are tables.
LEMMA Tables ==
    /\ \A d \in Configuration :
         /\ Shape(d) /\ d.app \in AppTable /\ d.kind \in KindTable /\ d.status \in StatusTable
         /\ d.factor \in SUBSET People /\ d.members \in MemberTable /\ d.grant \in GrantTable
    /\ \A app \in AppTable, kind \in KindTable, status \in StatusTable, factor \in SUBSET People,
          members \in MemberTable, grant \in GrantTable :
         [app |-> app, kind |-> kind, status |-> status, factor |-> factor,
          members |-> members, grant |-> grant] \in Configuration
<1>1. PICK A, K, S, F, M, G : A = AppTable /\ K = KindTable /\ S = StatusTable /\ F = SUBSET People
                               /\ M = MemberTable /\ G = GrantTable
  OBVIOUS
<1>2. Configuration = [app : A, kind : K, status : S, factor : F, members : M, grant : G]
  BY <1>1 DEF Configuration, AppTable, KindTable, StatusTable, MemberTable, GrantTable, Granted
<1> QED BY <1>1, <1>2 DEF Shape

\* The tables of a file are the tables of a database without the factors.
LEMMA FileTables ==
    /\ \A f \in State :
         /\ f.app \in AppTable /\ f.kind \in KindTable /\ f.status \in StatusTable
         /\ f.members \in MemberTable /\ f.grant \in GrantTable
    /\ \A app \in AppTable, kind \in KindTable, status \in StatusTable,
          members \in MemberTable, grant \in GrantTable :
         [app |-> app, kind |-> kind, status |-> status, members |-> members, grant |-> grant] \in State
<1>1. PICK A, K, S, M, G : A = AppTable /\ K = KindTable /\ S = StatusTable
                               /\ M = MemberTable /\ G = GrantTable
  OBVIOUS
<1>2. State = [app : A, kind : K, status : S, members : M, grant : G]
  BY <1>1 DEF State, AppTable, KindTable, StatusTable, MemberTable, GrantTable, Granted
<1> QED BY <1>1, <1>2

\* A table with one cell changed.
LEMMA Cell ==
    ASSUME NEW X, NEW Y, NEW t \in [X -> Y], NEW x \in X, NEW y \in Y
    PROVE  /\ [t EXCEPT ![x] = y] \in [X -> Y] /\ [t EXCEPT ![x] = y][x] = y
           /\ \A z \in X : z # x => [t EXCEPT ![x] = y][z] = t[z]
OBVIOUS

\* What is known of the write whose turn it is.
LEMMA HeadIs ==
    ASSUME Typed, NEW kind, Doing(kind), NEW f, f = import.file, NEW s, s = Head(import.todo)
    PROVE  /\ kind = "app" => \E a \in Apps : f.app[a] # None /\ s = <<"app", a>>
           /\ kind = "role" => \E a \in Apps : f.app[a] # None /\
                                 \E r \in f.app[a].roles : s = <<"role", a, r>>
           /\ kind = "person" => \E p \in People : f.kind[p] # None /\ s = <<"person", p>>
           /\ kind = "grant" => \E h \in Holders, a \in Apps :
                                  Lists(f, h) /\ f.grant[h][a] # None /\ s = <<"grant", h, a>>
           /\ kind = "fill" => \E h \in Holders, a \in Apps, roles \in SUBSET Roles :
                                 s = <<"fill", h, a, roles>>
           /\ kind = "group" => \E g \in Groups : f.members[g] # None /\ s = <<"group", g>>
           /\ kind = "clear" => \E g \in Groups : f.members[g] # None /\ s = <<"clear", g>>
           /\ kind = "join" => \E g \in Groups, found \in SUBSET People : s = <<"join", g, found>>
<1>1. FileRow(f, s) \/ Second(s)
  BY HeadFirst DEF Typed, Doing
<1>2. s[1] = kind
  BY DEF Doing
<1>3. CASE AppRow(f, s)
  BY <1>2, <1>3 DEF AppRow
<1>4. CASE PersonRow(f, s)
  BY <1>2, <1>4 DEF PersonRow
<1>5. CASE GrantRow(f, s)
  BY <1>2, <1>5 DEF GrantRow
<1>6. CASE GroupRow(f, s)
  BY <1>2, <1>6 DEF GroupRow
<1>7. CASE Second(s)
  BY <1>2, <1>7 DEF Second
<1> QED BY <1>1, <1>3, <1>4, <1>5, <1>6, <1>7 DEF FileRow

\* The import goes on: what is first, then what is left.
GoesOn(first) ==
    /\ import # None /\ import.todo # <<>>
    /\ import' = [serving |-> import.serving, file |-> import.file, before |-> import.before,
                  kinds |-> import.kinds, todo |-> first \o Tail(import.todo)]
    /\ UNCHANGED <<file, draft, since, spent>>

\* Every write leaves the rest of the import, and everything that is not the database, alone.
LEMMA WrittenOn ==
    ASSUME IInv, NEW first, \E d : Written(d, first), import # None, import.todo # <<>>
    PROVE  GoesOn(first)
<1>1. import = [serving |-> import.serving, file |-> import.file, before |-> import.before,
                kinds |-> import.kinds, todo |-> import.todo]
  BY DEF IInv, ImportOK
<1> QED BY <1>1 DEF Written, GoesOn

\* What each write does, in full.
LEMMA AppIsWritten ==
    ASSUME Typed, IInv, UpsertApp
    PROVE  \E a \in Apps :
             /\ import.file.app[a] # None /\ Head(import.todo) = <<"app", a>> /\ GoesOn(<<>>)
             /\ db' = With(db, [db.app EXCEPT ![a] = [roles |-> Had(db, a),
                                                      enabled |-> import.file.app[a].enabled]],
                           db.kind, db.status, db.members, db.grant)
<1>0. Doing("app")
  BY DEF UpsertApp
<1>1. PICK a \in Apps : import.file.app[a] # None /\ Head(import.todo) = <<"app", a>>
  BY <1>0, HeadIs
<1>2. Shape(db)
  BY DEF IInv, DbOK
<1>3. PICK x : x = [roles |-> Had(db, a), enabled |-> import.file.app[a].enabled]
  OBVIOUS
<1>4. Head(import.todo)[2] = a
  BY <1>1
<1>5. db' = [db EXCEPT !.app[a] = x] /\ GoesOn(<<>>)
  <2>1. GoesOn(<<>>)
    BY WrittenOn DEF UpsertApp, Doing
  <2>2. db' = [db EXCEPT !.app[a] = [roles |-> Had(db, a), enabled |-> import.file.app[a].enabled]]
    BY <1>4 DEF UpsertApp, Had, Written
  <2> QED BY <1>3, <2>1, <2>2
<1>6. db' = With(db, [db.app EXCEPT ![a] = x], db.kind, db.status, db.members, db.grant)
  BY <1>2, <1>5 DEF Shape, With
<1> QED BY <1>1, <1>3, <1>5, <1>6

\* A role is added to the app its file declares it for, and the app has to be there.
LEMMA RoleIsWritten ==
    ASSUME Typed, IInv, UpsertRole
    PROVE  \E a \in Apps : \E r \in import.file.app[a].roles :
             /\ import.file.app[a] # None /\ Head(import.todo) = <<"role", a, r>> /\ GoesOn(<<>>)
             /\ db.app[a] # None
             /\ db' = With(db, [db.app EXCEPT ![a] = [roles |-> db.app[a].roles \cup {r},
                                                      enabled |-> db.app[a].enabled]],
                           db.kind, db.status, db.members, db.grant)
<1>0. Doing("role")
  BY DEF UpsertRole
<1>1. PICK a \in Apps : import.file.app[a] # None /\
        \E r \in import.file.app[a].roles : Head(import.todo) = <<"role", a, r>>
  BY <1>0, HeadIs
<1>2. PICK r \in import.file.app[a].roles : Head(import.todo) = <<"role", a, r>>
  BY <1>1
<1>3. Shape(db) /\ db.app[a] # None
  BY <1>1, <1>2 DEF IInv, DbOK, UpsertRole
<1>4. PICK x : x = db.app[a]
  OBVIOUS
<1>5. x = [roles |-> x.roles, enabled |-> x.enabled]
  BY <1>3, <1>4, Tables DEF Typed, TypeOK, AppTable, AppData
<1>6. PICK y : y = [roles |-> x.roles \cup {r}, enabled |-> x.enabled]
  OBVIOUS
<1>7. [x EXCEPT !.roles = x.roles \cup {r}] = y
  <2>1. PICK roles, enabled : x.roles = roles /\ x.enabled = enabled
    OBVIOUS
  <2>2. x = [roles |-> roles, enabled |-> enabled]
    BY <1>5, <2>1
  <2>3. y = [roles |-> roles \cup {r}, enabled |-> enabled]
    BY <1>6, <2>1
  <2> QED BY <2>1, <2>2, <2>3
<1>8. Head(import.todo)[2] = a /\ Head(import.todo)[3] = r
  BY <1>2
<1>9. db' = [db EXCEPT !.app[a] = y] /\ GoesOn(<<>>)
  <2>1. GoesOn(<<>>)
    BY WrittenOn DEF UpsertRole, Doing
  <2>2. db' = [db EXCEPT !.app[a].roles = db.app[a].roles \cup {r}]
    BY <1>8 DEF UpsertRole, Written
  <2> QED BY <1>4, <1>7, <2>1, <2>2
<1>10. db' = With(db, [db.app EXCEPT ![a] = y], db.kind, db.status, db.members, db.grant)
  BY <1>3, <1>9 DEF Shape, With
<1> QED BY <1>1, <1>2, <1>3, <1>4, <1>6, <1>9, <1>10

\* Somebody new is created, somebody there is given the kind that was decided, if one was.
LEMMA PersonIsWritten ==
    ASSUME Typed, IInv, UpsertPerson
    PROVE  \E p \in People :
             /\ import.file.kind[p] # None /\ Head(import.todo) = <<"person", p>> /\ GoesOn(<<>>)
             /\ LET decided == import.kinds[p]
                    kind == IF decided # None THEN decided
                            ELSE IF db.kind[p] = None THEN "guest" ELSE db.kind[p]
                    status == IF db.kind[p] # None THEN db.status[p]
                              ELSE IF import.file.status[p] = "suspended" THEN "suspended" ELSE "invited"
                IN  db' = With(db, db.app, [db.kind EXCEPT ![p] = kind], [db.status EXCEPT ![p] = status],
                               db.members, db.grant)
<1>0. Doing("person")
  BY DEF UpsertPerson
<1>1. PICK p \in People : import.file.kind[p] # None /\ Head(import.todo) = <<"person", p>>
  BY <1>0, HeadIs
<1>2. Shape(db) /\ OfPeople(db.status)
  BY DEF IInv, DbOK
<1>3. PICK decided : decided = import.kinds[p]
  OBVIOUS
<1>4. PICK kind : kind = IF decided # None THEN decided
                            ELSE IF db.kind[p] = None THEN "guest" ELSE db.kind[p]
  OBVIOUS
<1>5. PICK status : status = IF db.kind[p] # None THEN db.status[p]
                              ELSE IF import.file.status[p] = "suspended" THEN "suspended" ELSE "invited"
  OBVIOUS
<1>6. Head(import.todo)[2] = p
  BY <1>1
<1>7. CASE db.kind[p] = None
  <2>1. GoesOn(<<>>)
    BY WrittenOn DEF UpsertPerson, Doing
  <2>2. db' = [db EXCEPT !.kind[p] = kind, !.status[p] = status] /\ GoesOn(<<>>)
    <3>1. db' = [db EXCEPT
                !.kind[p] = IF decided = None THEN "guest" ELSE decided,
                !.status[p] = IF import.file.status[p] = "suspended" THEN "suspended" ELSE "invited"]
      BY <1>3, <1>7, <1>6 DEF UpsertPerson, Written
    <3>2. kind = IF decided = None THEN "guest" ELSE decided
      BY <1>4, <1>7
    <3>3. status = IF import.file.status[p] = "suspended" THEN "suspended" ELSE "invited"
      BY <1>5, <1>7
    <3> QED BY <2>1, <3>1, <3>2, <3>3, Zenon
  <2>3. db' = With(db, db.app, [db.kind EXCEPT ![p] = kind], [db.status EXCEPT ![p] = status],
                               db.members, db.grant)
    BY <1>2, <2>2 DEF Shape, With
  <2> QED BY <1>1, <1>3, <1>4, <1>5, <2>2, <2>3
<1>8. CASE db.kind[p] # None
  <2>1. GoesOn(<<>>)
    BY WrittenOn DEF UpsertPerson, Doing
  <2>2. db' = [db EXCEPT !.kind[p] = kind] /\ GoesOn(<<>>)
    <3>1. db' = [db EXCEPT !.kind[p] = IF decided = None THEN db.kind[p] ELSE decided]
      BY <1>3, <1>8, <1>6 DEF UpsertPerson, Written
    <3>2. kind = IF decided = None THEN db.kind[p] ELSE decided
      BY <1>4, <1>8
    <3> QED BY <2>1, <3>1, <3>2, Zenon
  <2>3. [db.status EXCEPT ![p] = status] = db.status
    BY <1>2, <1>5, <1>8 DEF OfPeople
  <2>4. db' = With(db, db.app, [db.kind EXCEPT ![p] = kind], db.status, db.members, db.grant)
    BY <1>2, <2>2 DEF Shape, With
  <2> QED BY <1>1, <1>3, <1>4, <1>5, <2>2, <2>3, <2>4
<1> QED BY <1>7, <1>8

\* A grant for an app that is gone is skipped; another is emptied, its roles to be filled in next.
LEMMA GrantIsReplaced ==
    ASSUME Typed, IInv, ReplaceGrant
    PROVE  \E h \in Holders, a \in Apps :
             /\ Lists(import.file, h) /\ import.file.grant[h][a] # None
             /\ Head(import.todo) = <<"grant", h, a>>
             /\ \/ db.app[a] = None /\ db' = db /\ GoesOn(<<>>)
                \/ /\ db.app[a] # None
                   /\ GoesOn(<<<<"fill", h, a, import.file.grant[h][a] \cap db.app[a].roles>>>>)
                   /\ db' = With(db, db.app, db.kind, db.status, db.members,
                                 [db.grant EXCEPT ![h] = [db.grant[h] EXCEPT ![a] = {}]])
<1>0. Doing("grant")
  BY DEF ReplaceGrant
<1>1. PICK h \in Holders, a \in Apps : /\ Lists(import.file, h) /\ import.file.grant[h][a] # None
                                       /\ Head(import.todo) = <<"grant", h, a>>
  BY <1>0, HeadIs
<1>2. Shape(db)
  BY DEF IInv, DbOK
<1>3. Head(import.todo)[2] = h /\ Head(import.todo)[3] = a
  BY <1>1
<1>4. CASE db.app[a] = None
  <2>1. Written(db, <<>>)
    BY <1>3, <1>4 DEF ReplaceGrant
  <2>2. db' = db
    BY <2>1 DEF Written
  <2>3. GoesOn(<<>>)
    BY <2>1, WrittenOn DEF ReplaceGrant, Doing
  <2> QED BY <1>1, <1>4, <2>2, <2>3
<1>5. CASE db.app[a] # None
  <2>1. PICK roles : roles = import.file.grant[h][a] \cap db.app[a].roles
    OBVIOUS
  <2>2. Written([db EXCEPT !.grant[h][a] = {}], <<<<"fill", h, a, roles>>>>)
    BY <1>3, <1>5, <2>1 DEF ReplaceGrant
  <2>3. db' = [db EXCEPT !.grant[h][a] = {}]
    BY <2>2 DEF Written
  <2>4. GoesOn(<<<<"fill", h, a, roles>>>>)
    BY <2>2, WrittenOn DEF ReplaceGrant, Doing
  <2>5. db' = With(db, db.app, db.kind, db.status, db.members,
                                 [db.grant EXCEPT ![h] = [db.grant[h] EXCEPT ![a] = {}]])
    BY <1>2, <2>3 DEF Shape, With
  <2> QED BY <1>1, <1>5, <2>1, <2>4, <2>5
<1> QED BY <1>4, <1>5

\* The roles found when the grant was emptied go into it.
LEMMA GrantIsFilled ==
    ASSUME Typed, IInv, FillGrant
    PROVE  \E h \in Holders, a \in Apps, roles \in SUBSET Roles :
             /\ Head(import.todo) = <<"fill", h, a, roles>> /\ GoesOn(<<>>)
             /\ db.grant[h][a] # None
             /\ db' = With(db, db.app, db.kind, db.status, db.members,
                  [db.grant EXCEPT ![h] = [db.grant[h] EXCEPT ![a] = db.grant[h][a] \cup roles]])
<1>0. Doing("fill")
  BY DEF FillGrant
<1>1. PICK h \in Holders, a \in Apps, roles \in SUBSET Roles :
        Head(import.todo) = <<"fill", h, a, roles>>
  BY <1>0, HeadIs
<1>2. Shape(db)
  BY DEF IInv, DbOK
<1>3. Head(import.todo)[2] = h /\ Head(import.todo)[3] = a /\ Head(import.todo)[4] = roles
  BY <1>1
<1>4. /\ db.grant[h][a] # None
      /\ Written([db EXCEPT !.grant[h][a] = db.grant[h][a] \cup roles], <<>>)
  BY <1>3 DEF FillGrant
<1>5. db' = [db EXCEPT !.grant[h][a] = db.grant[h][a] \cup roles]
  BY <1>4 DEF Written
<1>6. GoesOn(<<>>)
  BY <1>4, WrittenOn DEF FillGrant, Doing
<1>7. PICK x : x = db.grant[h][a] \cup roles
  OBVIOUS
<1>8. db' = With(db, db.app, db.kind, db.status, db.members,
                 [db.grant EXCEPT ![h] = [db.grant[h] EXCEPT ![a] = x]])
  BY <1>2, <1>5, <1>7 DEF Shape, With
<1> QED BY <1>1, <1>4, <1>6, <1>7, <1>8

\* A group that is not there is created empty.
LEMMA GroupIsWritten ==
    ASSUME Typed, IInv, UpsertGroup
    PROVE  \E g \in Groups :
             /\ import.file.members[g] # None /\ Head(import.todo) = <<"group", g>> /\ GoesOn(<<>>)
             /\ db' = With(db, db.app, db.kind, db.status,
                           [db.members EXCEPT ![g] = IF db.members[g] = None THEN {} ELSE db.members[g]],
                           db.grant)
<1>0. Doing("group")
  BY DEF UpsertGroup
<1>1. PICK g \in Groups : import.file.members[g] # None /\ Head(import.todo) = <<"group", g>>
  BY <1>0, HeadIs
<1>2. Shape(db) /\ db.members \in MemberTable
  BY Tables DEF IInv, DbOK, Typed, TypeOK
<1>3. Head(import.todo)[2] = g
  BY <1>1
<1>4. GoesOn(<<>>)
  BY WrittenOn DEF UpsertGroup, Doing
<1>5. CASE db.members[g] = None
  <2>1. Written([db EXCEPT !.members[g] = {}], <<>>)
    BY <1>3, <1>5 DEF UpsertGroup
  <2>2. db' = With(db, db.app, db.kind, db.status, [db.members EXCEPT ![g] = {}], db.grant)
    BY <1>2, <2>1 DEF Written, Shape, With
  <2> QED BY <1>1, <1>4, <1>5, <2>2
<1>6. CASE db.members[g] # None
  <2>1. Written(db, <<>>)
    BY <1>3, <1>6 DEF UpsertGroup
  <2>2. [db.members EXCEPT ![g] = db.members[g]] = db.members
    BY <1>2 DEF MemberTable
  <2>3. db' = With(db, db.app, db.kind, db.status, db.members, db.grant)
    BY <1>2, <2>1 DEF Written, Shape, With
  <2> QED BY <1>1, <1>4, <1>6, <2>2, <2>3
<1> QED BY <1>5, <1>6

\* A group loses its members; the people of the file who are there are to join next.
LEMMA MembersAreCleared ==
    ASSUME Typed, IInv, ClearMembers
    PROVE  \E g \in Groups :
             /\ import.file.members[g] # None /\ Head(import.todo) = <<"clear", g>>
             /\ GoesOn(<<<<"join", g, import.file.members[g] \cap There(db)>>>>)
             /\ db' = With(db, db.app, db.kind, db.status,
                           [db.members EXCEPT ![g] = IF db.members[g] = None THEN None ELSE {}],
                           db.grant)
<1>0. Doing("clear")
  BY DEF ClearMembers
<1>1. PICK g \in Groups : import.file.members[g] # None /\ Head(import.todo) = <<"clear", g>>
  BY <1>0, HeadIs
<1>2. Shape(db)
  BY DEF IInv, DbOK
<1>3. Head(import.todo)[2] = g
  BY <1>1
<1>4. PICK found : found = import.file.members[g] \cap There(db)
  OBVIOUS
<1>5. Written([db EXCEPT !.members[g] = IF db.members[g] = None THEN None ELSE {}],
              <<<<"join", g, found>>>>)
  BY <1>3, <1>4 DEF ClearMembers
<1>6. PICK x : x = IF db.members[g] = None THEN None ELSE {}
  OBVIOUS
<1>7. db' = [db EXCEPT !.members[g] = x]
  BY <1>5, <1>6 DEF Written
<1>8. GoesOn(<<<<"join", g, found>>>>)
  BY <1>5, WrittenOn DEF ClearMembers, Doing
<1>9. db' = With(db, db.app, db.kind, db.status, [db.members EXCEPT ![g] = x], db.grant)
  BY <1>2, <1>7 DEF Shape, With
<1> QED BY <1>1, <1>4, <1>6, <1>8, <1>9

\* The people found when the group was emptied join it.
LEMMA MembersAreAdded ==
    ASSUME Typed, IInv, AddMembers
    PROVE  \E g \in Groups, found \in SUBSET People :
             /\ Head(import.todo) = <<"join", g, found>> /\ GoesOn(<<>>)
             /\ db.members[g] # None
             /\ db' = With(db, db.app, db.kind, db.status,
                           [db.members EXCEPT ![g] = db.members[g] \cup found], db.grant)
<1>0. Doing("join")
  BY DEF AddMembers
<1>1. PICK g \in Groups, found \in SUBSET People : Head(import.todo) = <<"join", g, found>>
  BY <1>0, HeadIs
<1>2. Shape(db)
  BY DEF IInv, DbOK
<1>3. Head(import.todo)[2] = g /\ Head(import.todo)[3] = found
  BY <1>1
<1>4. /\ db.members[g] # None
      /\ Written([db EXCEPT !.members[g] = db.members[g] \cup found], <<>>)
  BY <1>3 DEF AddMembers
<1>5. PICK x : x = db.members[g] \cup found
  OBVIOUS
<1>6. db' = [db EXCEPT !.members[g] = x]
  BY <1>4, <1>5 DEF Written
<1>7. GoesOn(<<>>)
  BY <1>4, WrittenOn DEF AddMembers, Doing
<1>8. db' = With(db, db.app, db.kind, db.status, [db.members EXCEPT ![g] = x], db.grant)
  BY <1>2, <1>6 DEF Shape, With
<1> QED BY <1>1, <1>4, <1>5, <1>7, <1>8

-----------------------------------------------------------------------------
(* What is typed stays typed. *)
\* A database whose tables are changed for tables is one, with these tables.
LEMMA WithTables ==
    ASSUME NEW d \in Configuration, NEW app \in AppTable, NEW kind \in KindTable,
           NEW status \in StatusTable, NEW members \in MemberTable, NEW grant \in GrantTable,
           NEW e, e = With(d, app, kind, status, members, grant)
    PROVE  /\ e \in Configuration /\ e.factor = d.factor
           /\ e.app = app /\ e.kind = kind /\ e.status = status
           /\ e.members = members /\ e.grant = grant
<1>1. d.factor \in SUBSET People
  BY Tables
<1>2. e.factor = d.factor /\ e.app = app /\ e.kind = kind /\ e.status = status
      /\ e.members = members /\ e.grant = grant
  BY DEF With
<1>3. e \in Configuration
  BY <1>1, Tables DEF With
<1> QED BY <1>2, <1>3

\* What is known of the tables of the instance.
LEMMA TypedDb ==
    ASSUME Typed
    PROVE  /\ db \in Configuration /\ Paired(db.kind, db.status)
           /\ db.app \in AppTable /\ db.kind \in KindTable /\ db.status \in StatusTable
           /\ db.members \in MemberTable /\ db.grant \in GrantTable
<1>1. Paired(db.kind, db.status)
  BY DEF Typed, TypeOK, Paired
<1> QED BY <1>1, Tables DEF Typed, TypeOK

\* A write keeps what is typed when what it writes is.
LEMMA GoesOnTyped ==
    ASSUME Typed, NEW first, GoesOn(first), db' \in Configuration, Paired(db'.kind, db'.status),
           first = <<>> \/ \E x : first = <<x>> /\ Second(x) /\ Phase(x) = Phase(Head(import.todo))
    PROVE  Typed'
<1>1. import # None /\ import.todo # <<>> /\ import.file \in State /\ import.before \in Configuration
      /\ TodoOK(import.file, import.todo) /\ import.serving \in BOOLEAN
  BY DEF GoesOn, Typed, TypeOK
<1>2. PICK todo : todo = first \o Tail(import.todo)
  OBVIOUS
<1>3. TodoOK(import.file, todo)
  BY <1>1, <1>2, Onward
<1>4. import'.serving = import.serving /\ import'.file = import.file /\ import'.before = import.before
      /\ import'.todo = todo
  BY <1>2 DEF GoesOn
<1>5. draft' = draft /\ file' = file /\ since' = since
  BY DEF GoesOn
<1>6. TypeOK'
  <2>1. import'.serving \in BOOLEAN
    BY <1>1, <1>4
  <2>2. \A p \in People : (db'.kind[p] = None) = (db'.status[p] = None)
    BY DEF Paired
  <2>3. file' \in State \cup {None}
    BY <1>5 DEF Typed, TypeOK
  <2> QED BY <2>1, <2>2, <2>3 DEF TypeOK
<1>7. TodoOK(import'.file, import'.todo)
  BY <1>3, <1>4
<1>8. DOMAIN draft' \subseteq Parts /\ \A part \in DOMAIN draft' : PartOK(part, draft'[part])
  BY <1>5 DEF Typed
<1>9. since' # None => since'.file \in State /\ since'.db \in Configuration /\ since'.file = import'.file
  BY <1>1, <1>4, <1>5 DEF Typed
<1> QED BY <1>1, <1>4, <1>6, <1>7, <1>8, <1>9 DEF Typed

\* Writing an app or a role keeps what is typed: the file's roles are roles.
LEMMA AppTyped ==
    ASSUME Typed, IInv, UpsertApp \/ UpsertRole PROVE Typed'
<1>1. PICK a \in Apps, x \in AppData :
        db' = With(db, [db.app EXCEPT ![a] = x], db.kind, db.status, db.members, db.grant)
        /\ GoesOn(<<>>)
  <2>1. CASE UpsertApp
    <3>1. PICK a \in Apps :
             /\ import.file.app[a] # None /\ GoesOn(<<>>)
             /\ db' = With(db, [db.app EXCEPT ![a] = [roles |-> Had(db, a),
                                                      enabled |-> import.file.app[a].enabled]],
                           db.kind, db.status, db.members, db.grant)
      BY <2>1, AppIsWritten
    <3>2. import.file.app[a] \in AppData
      BY <3>1, FileTables DEF Typed, GoesOn, AppTable
    <3>3. Had(db, a) \in SUBSET Roles
      BY TypedDb DEF Had, AppTable, AppData
    <3>4. import.file.app[a].enabled \in BOOLEAN
      BY <3>2 DEF AppData
    <3>5. [roles |-> Had(db, a), enabled |-> import.file.app[a].enabled] \in AppData
      BY <3>3, <3>4 DEF AppData
    <3> QED BY <3>1, <3>5
  <2>2. CASE UpsertRole
    <3>1. PICK a \in Apps : \E r \in import.file.app[a].roles :
             /\ import.file.app[a] # None /\ GoesOn(<<>>) /\ db.app[a] # None
             /\ db' = With(db, [db.app EXCEPT ![a] = [roles |-> db.app[a].roles \cup {r},
                                                      enabled |-> db.app[a].enabled]],
                           db.kind, db.status, db.members, db.grant)
      BY <2>2, RoleIsWritten
    <3>2. PICK r \in import.file.app[a].roles :
             /\ import.file.app[a] # None /\ GoesOn(<<>>) /\ db.app[a] # None
             /\ db' = With(db, [db.app EXCEPT ![a] = [roles |-> db.app[a].roles \cup {r},
                                                      enabled |-> db.app[a].enabled]],
                           db.kind, db.status, db.members, db.grant)
      BY <3>1
    <3>3. import.file.app[a] \in AppData
      BY <3>2, FileTables DEF Typed, GoesOn, AppTable
    <3>4. db.app[a] \in AppData
      BY <3>2, TypedDb DEF AppTable
    <3>5. r \in Roles /\ db.app[a].roles \in SUBSET Roles
      BY <3>3, <3>4 DEF AppData
    <3>6. db.app[a].enabled \in BOOLEAN
      BY <3>4 DEF AppData
    <3>7. [roles |-> db.app[a].roles \cup {r}, enabled |-> db.app[a].enabled] \in AppData
      BY <3>5, <3>6 DEF AppData
    <3> QED BY <3>2, <3>7
  <2> QED BY <2>1, <2>2
<1>2. [db.app EXCEPT ![a] = x] \in AppTable
  BY TypedDb, Cell DEF AppTable
<1>3. db' \in Configuration /\ db'.kind = db.kind /\ db'.status = db.status
  BY <1>1, <1>2, TypedDb, WithTables
<1> QED BY <1>1, <1>3, TypedDb, GoesOnTyped

\* Writing somebody keeps what is typed: a kind comes with a status.
LEMMA PersonTyped ==
    ASSUME Typed, IInv, UpsertPerson PROVE Typed'
<1>1. PICK p \in People :
             /\ GoesOn(<<>>)
             /\ LET decided == import.kinds[p]
                    kind == IF decided # None THEN decided
                            ELSE IF db.kind[p] = None THEN "guest" ELSE db.kind[p]
                    status == IF db.kind[p] # None THEN db.status[p]
                              ELSE IF import.file.status[p] = "suspended" THEN "suspended" ELSE "invited"
                IN  db' = With(db, db.app, [db.kind EXCEPT ![p] = kind], [db.status EXCEPT ![p] = status],
                               db.members, db.grant)
  BY PersonIsWritten
<1>2. PICK kind : kind = IF import.kinds[p] # None THEN import.kinds[p]
                            ELSE IF db.kind[p] = None THEN "guest" ELSE db.kind[p]
  OBVIOUS
<1>3. PICK status : status = IF db.kind[p] # None THEN db.status[p]
                              ELSE IF import.file.status[p] = "suspended" THEN "suspended" ELSE "invited"
  OBVIOUS
<1>4. db' = With(db, db.app, [db.kind EXCEPT ![p] = kind], [db.status EXCEPT ![p] = status],
                               db.members, db.grant)
  BY <1>1, <1>2, <1>3
<1>5. db.kind[p] \in Kinds \cup {None} /\ db.status[p] \in Statuses \cup {None}
      /\ (db.kind[p] = None <=> db.status[p] = None)
  BY TypedDb DEF KindTable, StatusTable, Paired
<1>6. import.kinds[p] \in Kinds \cup {None}
  <2>1. import.kinds = DecideKinds(import.file, import.before) /\ import.file \in State
    BY <1>1 DEF IInv, ImportOK, Typed, GoesOn
  <2>2. import.file.kind[p] \in Kinds \cup {None}
    BY <2>1, FileTables DEF KindTable
  <2> QED BY <2>1, <2>2 DEF DecideKinds, Kinds
<1>7. kind \in Kinds /\ kind # None
  BY <1>2, <1>5, <1>6, TransferAssumption DEF Kinds
<1>8. status \in Statuses /\ status # None
  BY <1>3, <1>5, TransferAssumption DEF Statuses
<1>9. PICK kinds : kinds = [db.kind EXCEPT ![p] = kind]
  OBVIOUS
<1>10. PICK statuses : statuses = [db.status EXCEPT ![p] = status]
  OBVIOUS
<1>11. kinds \in KindTable /\ kinds[p] = kind /\ \A q \in People : q # p => kinds[q] = db.kind[q]
  BY <1>7, <1>9, TypedDb, Cell DEF KindTable
<1>12. statuses \in StatusTable /\ statuses[p] = status
       /\ \A q \in People : q # p => statuses[q] = db.status[q]
  BY <1>8, <1>10, TypedDb, Cell DEF StatusTable
<1>13. Paired(kinds, statuses)
  BY <1>7, <1>8, <1>11, <1>12, TypedDb DEF Paired
<1>14. db' \in Configuration /\ db'.kind = kinds /\ db'.status = statuses
  BY <1>4, <1>9, <1>10, <1>11, <1>12, TypedDb, WithTables
<1> QED BY <1>1, <1>13, <1>14, GoesOnTyped

\* Writing a grant keeps what is typed, and its second half is one.
LEMMA GrantTyped ==
    ASSUME Typed, IInv, ReplaceGrant \/ FillGrant PROVE Typed'
<1>1. CASE ReplaceGrant
  <2>1. PICK h \in Holders, a \in Apps :
             /\ Lists(import.file, h) /\ import.file.grant[h][a] # None
             /\ Head(import.todo) = <<"grant", h, a>>
             /\ \/ db.app[a] = None /\ db' = db /\ GoesOn(<<>>)
                \/ /\ db.app[a] # None
                   /\ GoesOn(<<<<"fill", h, a, import.file.grant[h][a] \cap db.app[a].roles>>>>)
                   /\ db' = With(db, db.app, db.kind, db.status, db.members,
                                 [db.grant EXCEPT ![h] = [db.grant[h] EXCEPT ![a] = {}]])
    BY <1>1, GrantIsReplaced
  <2>2. CASE db' = db /\ GoesOn(<<>>)
    BY <2>2, TypedDb, GoesOnTyped
  <2>3. CASE db.app[a] # None
    <3>1. PICK roles : roles = import.file.grant[h][a] \cap db.app[a].roles
      OBVIOUS
    <3>2. GoesOn(<<<<"fill", h, a, roles>>>>)
          /\ db' = With(db, db.app, db.kind, db.status, db.members,
                                 [db.grant EXCEPT ![h] = [db.grant[h] EXCEPT ![a] = {}]])
      BY <2>1, <2>3, <3>1
    <3>3. roles \in SUBSET Roles
      <4>1. db.app[a] \in AppData
        BY <2>3, TypedDb DEF AppTable
      <4> QED BY <3>1, <4>1 DEF AppData
    <3>4. Second(<<"fill", h, a, roles>>)
      BY <3>3 DEF Second
    <3>5. Phase(<<"fill", h, a, roles>>) = Phase(Head(import.todo))
      BY <2>1 DEF Phase
    <3>6. db.grant[h] \in Granted
      BY TypedDb DEF GrantTable
    <3>7. [db.grant[h] EXCEPT ![a] = {}] \in Granted
      <4>1. {} \in (SUBSET Roles) \cup {None}
        OBVIOUS
      <4> QED BY <3>6, <4>1, Cell DEF Granted
    <3>8. [db.grant EXCEPT ![h] = [db.grant[h] EXCEPT ![a] = {}]] \in GrantTable
      BY <3>7, TypedDb, Cell DEF GrantTable
    <3>9. db' \in Configuration /\ db'.kind = db.kind /\ db'.status = db.status
      BY <3>2, <3>8, TypedDb, WithTables
    <3> QED BY <3>2, <3>4, <3>5, <3>9, TypedDb, GoesOnTyped
  <2> QED BY <2>1, <2>2, <2>3
<1>2. CASE FillGrant
  <2>1. PICK h \in Holders, a \in Apps, roles \in SUBSET Roles :
             /\ Head(import.todo) = <<"fill", h, a, roles>> /\ GoesOn(<<>>)
             /\ db.grant[h][a] # None
             /\ db' = With(db, db.app, db.kind, db.status, db.members,
                  [db.grant EXCEPT ![h] = [db.grant[h] EXCEPT ![a] = db.grant[h][a] \cup roles]])
    BY <1>2, GrantIsFilled
  <2>2. db.grant[h] \in Granted
    BY TypedDb DEF GrantTable
  <2>3. PICK x : x = db.grant[h][a] \cup roles
    OBVIOUS
  <2>4. x \in SUBSET Roles
    BY <2>1, <2>2, <2>3 DEF Granted
  <2>5. [db.grant[h] EXCEPT ![a] = x] \in Granted
    BY <2>2, <2>4, Cell DEF Granted
  <2>6. [db.grant EXCEPT ![h] = [db.grant[h] EXCEPT ![a] = x]] \in GrantTable
    BY <2>5, TypedDb, Cell DEF GrantTable
  <2>7. db' \in Configuration /\ db'.kind = db.kind /\ db'.status = db.status
    BY <2>1, <2>3, <2>6, TypedDb, WithTables
  <2> QED BY <2>1, <2>7, TypedDb, GoesOnTyped
<1> QED BY <1>1, <1>2

\* Writing a group keeps what is typed, and its second half is one.
LEMMA GroupTyped ==
    ASSUME Typed, IInv, UpsertGroup \/ ClearMembers \/ AddMembers PROVE Typed'
<1>1. PICK g \in Groups, x \in (SUBSET People) \cup {None} :
        \E first :
        /\ db' = With(db, db.app, db.kind, db.status, [db.members EXCEPT ![g] = x], db.grant)
        /\ GoesOn(first)
        /\ first = <<>> \/ \E s : first = <<s>> /\ Second(s) /\ Phase(s) = Phase(Head(import.todo))
  <2>1. CASE UpsertGroup
    <3>1. PICK g \in Groups : /\ GoesOn(<<>>)
             /\ db' = With(db, db.app, db.kind, db.status,
                           [db.members EXCEPT ![g] = IF db.members[g] = None THEN {} ELSE db.members[g]],
                           db.grant)
      BY <2>1, GroupIsWritten
    <3>2. PICK x : x = IF db.members[g] = None THEN {} ELSE db.members[g]
      OBVIOUS
    <3>3. x \in (SUBSET People) \cup {None}
      BY <3>2, TypedDb DEF MemberTable
    <3> QED BY <3>1, <3>2, <3>3
  <2>2. CASE ClearMembers
    <3>1. PICK g \in Groups :
             /\ Head(import.todo) = <<"clear", g>>
             /\ GoesOn(<<<<"join", g, import.file.members[g] \cap There(db)>>>>)
             /\ db' = With(db, db.app, db.kind, db.status,
                           [db.members EXCEPT ![g] = IF db.members[g] = None THEN None ELSE {}],
                           db.grant)
      BY <2>2, MembersAreCleared
    <3>2. PICK found : found = import.file.members[g] \cap There(db)
      OBVIOUS
    <3>3. found \in SUBSET People
      BY <3>2 DEF There
    <3>4. PICK s : s = <<"join", g, found>>
      OBVIOUS
    <3>5. Second(s)
      BY <3>3, <3>4 DEF Second
    <3>6. Phase(s) = Phase(Head(import.todo))
      BY <3>1, <3>4 DEF Phase
    <3>7. PICK x : x = IF db.members[g] = None THEN None ELSE {}
      OBVIOUS
    <3>8. x \in (SUBSET People) \cup {None}
      BY <3>7
    <3>9. GoesOn(<<s>>)
      BY <3>1, <3>2, <3>4
    <3> QED BY <3>1, <3>5, <3>6, <3>7, <3>8, <3>9
  <2>3. CASE AddMembers
    <3>1. PICK g \in Groups, found \in SUBSET People :
             /\ GoesOn(<<>>) /\ db.members[g] # None
             /\ db' = With(db, db.app, db.kind, db.status,
                           [db.members EXCEPT ![g] = db.members[g] \cup found], db.grant)
      BY <2>3, MembersAreAdded
    <3>2. PICK x : x = db.members[g] \cup found
      OBVIOUS
    <3>3. x \in (SUBSET People) \cup {None}
      BY <3>1, <3>2, TypedDb DEF MemberTable
    <3> QED BY <3>1, <3>2, <3>3
  <2> QED BY <2>1, <2>2, <2>3
<1>2. PICK first :
        /\ db' = With(db, db.app, db.kind, db.status, [db.members EXCEPT ![g] = x], db.grant)
        /\ GoesOn(first)
        /\ first = <<>> \/ \E s : first = <<s>> /\ Second(s) /\ Phase(s) = Phase(Head(import.todo))
  BY <1>1
<1>3. [db.members EXCEPT ![g] = x] \in MemberTable
  BY TypedDb, Cell DEF MemberTable
<1>4. db' \in Configuration /\ db'.kind = db.kind /\ db'.status = db.status
  BY <1>2, <1>3, TypedDb, WithTables
<1> QED BY <1>2, <1>4, TypedDb, GoesOnTyped

\* Every write of an import keeps what is typed.
LEMMA StepTyped ==
    ASSUME Typed, IInv, ImportStep PROVE Typed'
BY AppTyped, PersonTyped, GrantTyped, GroupTyped DEF ImportStep

\* A database all of whose tables may have changed.
Tabled(app, kind, status, factor, members, grant) ==
    [app |-> app, kind |-> kind, status |-> status, factor |-> factor,
     members |-> members, grant |-> grant]

\* A database made of tables is one, whichever of them changed.
LEMMA WholeTables ==
    ASSUME NEW app \in AppTable, NEW kind \in KindTable, NEW status \in StatusTable,
           NEW factor \in SUBSET People, NEW members \in MemberTable, NEW grant \in GrantTable,
           Paired(kind, status), NEW e, e = Tabled(app, kind, status, factor, members, grant)
    PROVE  e \in Configuration /\ Paired(e.kind, e.status)
<1>1. e \in Configuration
  BY Tables DEF Tabled
<1>2. e.kind = kind /\ e.status = status
  BY DEF Tabled
<1> QED BY <1>1, <1>2

\* What is written elsewhere keeps what is typed when what it writes is.
LEMMA EditedTyped ==
    ASSUME Typed, \E d : Edited(d), db' \in Configuration, Paired(db'.kind, db'.status)
    PROVE  Typed'
<1>1. file' = file /\ draft' = draft /\ import' = import /\ since' = None
  BY DEF Edited
<1>2. TypeOK'
  BY <1>1 DEF Typed, TypeOK, Paired
<1>3. DOMAIN draft' \subseteq Parts /\ \A part \in DOMAIN draft' : PartOK(part, draft'[part])
  BY <1>1 DEF Typed
<1>4. import' # None =>
         /\ import'.file \in State /\ import'.before \in Configuration
         /\ TodoOK(import'.file, import'.todo)
  BY <1>1 DEF Typed
<1> QED BY <1>1, <1>2, <1>3, <1>4 DEF Typed

\* What the console and the first run write about one person keeps what is typed.
LEMMA PeopleEditTyped ==
    ASSUME Typed, NEW p \in People,
           \/ ClaimOwner(p) \/ ChangeStatus(p) \/ ChangeFactor(p) \/ Purge(p)
           \/ \E kind \in {"admin", "guest"} : ChangeKind(p, kind)
    PROVE  Typed'
<1>1. /\ Shape(db) /\ db.app \in AppTable /\ db.kind \in KindTable /\ db.status \in StatusTable
      /\ db.members \in MemberTable /\ db.grant \in GrantTable /\ db.factor \in SUBSET People
      /\ Paired(db.kind, db.status)
  BY TypedDb, Tables
<1>2. /\ None \notin {"owner", "admin", "guest", "invited", "active", "suspended"}
      /\ {"owner", "admin", "guest"} \subseteq Kinds /\ {"active", "suspended"} \subseteq Statuses
  BY TransferAssumption DEF Kinds, Statuses
<1>3. db.kind[p] \in Kinds \cup {None} /\ db.status[p] \in Statuses \cup {None}
      /\ (db.kind[p] = None <=> db.status[p] = None)
  BY <1>1 DEF KindTable, StatusTable, Paired
<1>4. ASSUME NEW kind \in Kinds \cup {None}, NEW status \in Statuses \cup {None},
             kind = None <=> status = None
      PROVE  /\ [db.kind EXCEPT ![p] = kind] \in KindTable
             /\ [db.status EXCEPT ![p] = status] \in StatusTable
             /\ Paired([db.kind EXCEPT ![p] = kind], [db.status EXCEPT ![p] = status])
  <2>1. PICK kinds : kinds = [db.kind EXCEPT ![p] = kind]
    OBVIOUS
  <2>2. PICK statuses : statuses = [db.status EXCEPT ![p] = status]
    OBVIOUS
  <2>3. kinds \in KindTable /\ kinds[p] = kind /\ \A q \in People : q # p => kinds[q] = db.kind[q]
    BY <1>1, <2>1, Cell DEF KindTable
  <2>4. statuses \in StatusTable /\ statuses[p] = status
        /\ \A q \in People : q # p => statuses[q] = db.status[q]
    BY <1>1, <2>2, Cell DEF StatusTable
  <2>5. Paired(kinds, statuses)
    BY <1>1, <1>4, <2>3, <2>4 DEF Paired
  <2> QED BY <2>1, <2>2, <2>3, <2>4, <2>5
<1>5. /\ [db.kind EXCEPT ![p] = db.kind[p]] = db.kind
      /\ [db.status EXCEPT ![p] = db.status[p]] = db.status
  BY <1>1 DEF KindTable, StatusTable
<1>6. db' \in Configuration /\ Paired(db'.kind, db'.status) /\ \E d : Edited(d)
  <2>1. CASE ClaimOwner(p)
    <3>1. PICK kinds, statuses : /\ kinds = [db.kind EXCEPT ![p] = "owner"]
                                 /\ statuses = [db.status EXCEPT ![p] = "active"]
      OBVIOUS
    <3>2. db' = [db EXCEPT !.kind[p] = "owner", !.status[p] = "active", !.factor = db.factor \cup {p}]
          /\ \E d : Edited(d)
      BY <2>1 DEF ClaimOwner, Edited
    <3>3. db' = Tabled(db.app, kinds, statuses, db.factor \cup {p}, db.members, db.grant)
      BY <1>1, <3>1, <3>2 DEF Shape, Tabled
    <3>4. db.factor \cup {p} \in SUBSET People
      BY <1>1
    <3>5. kinds \in KindTable /\ statuses \in StatusTable /\ Paired(kinds, statuses)
      BY <1>2, <1>4, <3>1
    <3> QED BY <1>1, <3>2, <3>3, <3>4, <3>5, WholeTables
  <2>2. CASE ChangeStatus(p)
    <3>1. PICK status : status = IF db.status[p] = "suspended" THEN "active" ELSE "suspended"
      OBVIOUS
    <3>2. PICK statuses : statuses = [db.status EXCEPT ![p] = status]
      OBVIOUS
    <3>3. db' = [db EXCEPT !.status[p] = status] /\ \E d : Edited(d)
      BY <2>2, <3>1 DEF ChangeStatus, Edited
    <3>4. db' = Tabled(db.app, db.kind, statuses, db.factor, db.members, db.grant)
      BY <1>1, <3>2, <3>3 DEF Shape, Tabled
    <3>5. status \in Statuses /\ status # None /\ db.kind[p] # None
      BY <1>2, <2>2, <3>1 DEF ChangeStatus
    <3>6. statuses \in StatusTable /\ Paired(db.kind, statuses)
      BY <1>3, <1>4, <1>5, <3>2, <3>5
    <3> QED BY <1>1, <3>3, <3>4, <3>6, WholeTables
  <2>3. CASE ChangeFactor(p) /\ p \in db.factor
    <3>1. db' = [db EXCEPT !.factor = db.factor \ {p}] /\ \E d : Edited(d)
      BY <2>3 DEF ChangeFactor, Edited
    <3>2. db' = Tabled(db.app, db.kind, db.status, db.factor \ {p}, db.members, db.grant)
      BY <1>1, <3>1 DEF Shape, Tabled
    <3>3. db.factor \ {p} \in SUBSET People
      BY <1>1
    <3> QED BY <1>1, <3>1, <3>2, <3>3, WholeTables
  <2>4. CASE ChangeFactor(p) /\ p \notin db.factor
    <3>1. db' = [db EXCEPT !.factor = db.factor \cup {p}, !.status[p] = "active"]
          /\ \E d : Edited(d) /\ db.kind[p] # None
      BY <2>4 DEF ChangeFactor, Edited, There
    <3>2. PICK statuses : statuses = [db.status EXCEPT ![p] = "active"]
      OBVIOUS
    <3>3. db' = Tabled(db.app, db.kind, statuses, db.factor \cup {p}, db.members, db.grant)
      BY <1>1, <3>1, <3>2 DEF Shape, Tabled
    <3>4. db.factor \cup {p} \in SUBSET People
      BY <1>1
    <3>5. statuses \in StatusTable /\ Paired(db.kind, statuses)
      BY <1>2, <1>3, <1>4, <1>5, <3>1, <3>2
    <3> QED BY <1>1, <3>1, <3>3, <3>4, <3>5, WholeTables
  <2>5. CASE Purge(p)
    <3>1. PICK members : members = [g \in Groups |-> IF db.members[g] = None THEN None
                                                     ELSE db.members[g] \ {p}]
      OBVIOUS
    <3>2. PICK none : none = [a \in Apps |-> None]
      OBVIOUS
    <3>3. db' = [db EXCEPT !.kind[p] = None, !.status[p] = None, !.factor = db.factor \ {p},
                           !.members = members, !.grant[p] = none]
          /\ \E d : Edited(d)
      BY <2>5, <3>1, <3>2 DEF Purge, Edited
    <3>4. PICK kinds, statuses, grant : /\ kinds = [db.kind EXCEPT ![p] = None]
                                        /\ statuses = [db.status EXCEPT ![p] = None]
                                        /\ grant = [db.grant EXCEPT ![p] = none]
      OBVIOUS
    <3>5. db' = Tabled(db.app, kinds, statuses, db.factor \ {p}, members, grant)
      BY <1>1, <3>3, <3>4 DEF Shape, Tabled
    <3>6. db.factor \ {p} \in SUBSET People
      BY <1>1
    <3>7. members \in MemberTable
      BY <1>1, <3>1 DEF MemberTable
    <3>8. grant \in GrantTable
      <4>1. none \in Granted
        BY <3>2 DEF Granted
      <4> QED BY <1>1, <3>4, <4>1, Cell DEF GrantTable, Holders
    <3>9. kinds \in KindTable /\ statuses \in StatusTable /\ Paired(kinds, statuses)
      BY <1>4, <3>4
    <3> QED BY <1>1, <3>3, <3>5, <3>6, <3>7, <3>8, <3>9, WholeTables
  <2>6. ASSUME NEW kind \in {"admin", "guest"}, ChangeKind(p, kind)
        PROVE  db' \in Configuration /\ Paired(db'.kind, db'.status) /\ \E d : Edited(d)
    <3>1. db' = [db EXCEPT !.kind[p] = kind] /\ (\E d : Edited(d)) /\ db.kind[p] # None
      BY <1>2, <2>6 DEF ChangeKind, Edited
    <3>2. PICK kinds : kinds = [db.kind EXCEPT ![p] = kind]
      OBVIOUS
    <3>3. db' = Tabled(db.app, kinds, db.status, db.factor, db.members, db.grant)
      BY <1>1, <3>1, <3>2 DEF Shape, Tabled
    <3>4. kind \in Kinds \cup {None} /\ kind # None
      BY <1>2
    <3>5. kinds \in KindTable /\ Paired(kinds, db.status)
      BY <1>3, <1>4, <1>5, <3>1, <3>2, <3>4
    <3> QED BY <1>1, <3>1, <3>3, <3>5, WholeTables
  <2> QED BY <2>1, <2>2, <2>3, <2>4, <2>5, <2>6
<1> QED BY <1>6, EditedTyped

\* What the console writes about grants, roles, apps and groups keeps what is typed.
LEMMA RestEditTyped ==
    ASSUME Typed,
           \/ \E h \in Holders, a \in Apps, roles \in (SUBSET Roles) \cup {None} :
                 ChangeGrant(h, a, roles)
           \/ \E a \in Apps, r \in Roles : RemoveRole(a, r)
           \/ \E a \in Apps : DeleteApp(a)
           \/ \E g \in Groups, ps \in (SUBSET People) \cup {None} : ChangeMembers(g, ps)
    PROVE  Typed'
<1>1. /\ Shape(db) /\ db.app \in AppTable /\ db.kind \in KindTable /\ db.status \in StatusTable
      /\ db.members \in MemberTable /\ db.grant \in GrantTable /\ db.factor \in SUBSET People
      /\ Paired(db.kind, db.status)
  BY TypedDb, Tables
<1>2. \A h \in Holders : db.grant[h] \in Granted
  BY <1>1 DEF GrantTable
<1>3. ASSUME NEW h \in Holders, NEW a \in Apps, NEW roles \in (SUBSET Roles) \cup {None},
             ChangeGrant(h, a, roles)
      PROVE  db' \in Configuration /\ Paired(db'.kind, db'.status) /\ \E d : Edited(d)
  <2>1. PICK grant : grant = [db.grant EXCEPT ![h] = [db.grant[h] EXCEPT ![a] = roles]]
    OBVIOUS
  <2>2. db' = [db EXCEPT !.grant[h][a] = roles] /\ \E d : Edited(d)
    BY <1>3 DEF ChangeGrant, Edited
  <2>3. db' = Tabled(db.app, db.kind, db.status, db.factor, db.members, grant)
    BY <1>1, <2>1, <2>2 DEF Shape, Tabled
  <2>4. [db.grant[h] EXCEPT ![a] = roles] \in Granted
    BY <1>2, Cell DEF Granted
  <2>5. grant \in GrantTable
    BY <1>1, <2>1, <2>4, Cell DEF GrantTable
  <2> QED BY <1>1, <2>2, <2>3, <2>5, WholeTables
<1>4. ASSUME NEW a \in Apps, NEW r \in Roles, RemoveRole(a, r)
      PROVE  db' \in Configuration /\ Paired(db'.kind, db'.status) /\ \E d : Edited(d)
  <2>1. PICK grant : grant = [h \in Holders |-> [b \in Apps |->
                        IF b = a /\ db.grant[h][b] # None THEN db.grant[h][b] \ {r} ELSE db.grant[h][b]]]
    OBVIOUS
  <2>2. PICK x : x = db.app[a]
    OBVIOUS
  <2>3. x \in AppData
    BY <1>1, <1>4, <2>2 DEF RemoveRole, AppTable
  <2>4. PICK roles, enabled : roles = x.roles /\ enabled = x.enabled
    OBVIOUS
  <2>5. x = [roles |-> roles, enabled |-> enabled] /\ roles \in SUBSET Roles /\ enabled \in BOOLEAN
    BY <2>3, <2>4 DEF AppData
  <2>6. PICK y : y = [roles |-> roles \ {r}, enabled |-> enabled]
    OBVIOUS
  <2>7. y \in AppData
    <3>1. roles \ {r} \in SUBSET Roles
      BY <2>5
    <3> QED BY <2>5, <2>6, <3>1 DEF AppData
  <2>8. PICK app : app = [db.app EXCEPT ![a] = y]
    OBVIOUS
  <2>9. db' = [db EXCEPT !.app[a].roles = db.app[a].roles \ {r}, !.grant = grant] /\ \E d : Edited(d)
    BY <1>4, <2>1 DEF RemoveRole, Edited
  <2>10. db' = [db EXCEPT !.app[a] = y, !.grant = grant]
    <3>1. [x EXCEPT !.roles = roles \ {r}] = y
      BY <2>5, <2>6
    <3> QED BY <2>2, <2>4, <2>9, <3>1
  <2>11. db' = Tabled(app, db.kind, db.status, db.factor, db.members, grant)
    BY <1>1, <2>8, <2>10 DEF Shape, Tabled
  <2>12. app \in AppTable
    BY <1>1, <2>7, <2>8, Cell DEF AppTable
  <2>13. grant \in GrantTable
    <3>1. ASSUME NEW h \in Holders, NEW b \in Apps
          PROVE  db.grant[h][b] \in (SUBSET Roles) \cup {None}
      BY <1>2 DEF Granted
    <3>2. ASSUME NEW h \in Holders
          PROVE  [b \in Apps |-> IF b = a /\ db.grant[h][b] # None THEN db.grant[h][b] \ {r}
                                 ELSE db.grant[h][b]] \in Granted
      BY <3>1 DEF Granted
    <3> QED BY <2>1, <3>2 DEF GrantTable
  <2> QED BY <1>1, <2>9, <2>11, <2>12, <2>13, WholeTables
<1>5. ASSUME NEW a \in Apps, DeleteApp(a)
      PROVE  db' \in Configuration /\ Paired(db'.kind, db'.status) /\ \E d : Edited(d)
  <2>1. PICK app, grant : /\ app = [db.app EXCEPT ![a] = None]
                          /\ grant = [h \in Holders |-> [db.grant[h] EXCEPT ![a] = None]]
    OBVIOUS
  <2>2. db' = [db EXCEPT !.app[a] = None, !.grant = grant] /\ \E d : Edited(d)
    BY <1>5, <2>1 DEF DeleteApp, Edited
  <2>3. db' = Tabled(app, db.kind, db.status, db.factor, db.members, grant)
    BY <1>1, <2>1, <2>2 DEF Shape, Tabled
  <2>4. app \in AppTable
    <3>1. None \in AppData \cup {None}
      OBVIOUS
    <3> QED BY <1>1, <2>1, <3>1, Cell DEF AppTable
  <2>5. grant \in GrantTable
    <3>1. ASSUME NEW h \in Holders PROVE [db.grant[h] EXCEPT ![a] = None] \in Granted
      <4>1. None \in (SUBSET Roles) \cup {None}
        OBVIOUS
      <4> QED BY <1>2, <4>1, Cell DEF Granted
    <3> QED BY <2>1, <3>1 DEF GrantTable
  <2> QED BY <1>1, <2>2, <2>3, <2>4, <2>5, WholeTables
<1>6. ASSUME NEW g \in Groups, NEW ps \in (SUBSET People) \cup {None}, ChangeMembers(g, ps)
      PROVE  db' \in Configuration /\ Paired(db'.kind, db'.status) /\ \E d : Edited(d)
  <2>1. PICK none : none = [a \in Apps |-> None]
    OBVIOUS
  <2>2. PICK row : row = IF ps = None THEN none ELSE db.grant[g]
    OBVIOUS
  <2>3. PICK members, grant : /\ members = [db.members EXCEPT ![g] = ps]
                              /\ grant = [db.grant EXCEPT ![g] = row]
    OBVIOUS
  <2>4. db' = [db EXCEPT !.members[g] = ps, !.grant[g] = row] /\ \E d : Edited(d)
    BY <1>6, <2>1, <2>2 DEF ChangeMembers, Edited
  <2>5. db' = Tabled(db.app, db.kind, db.status, db.factor, members, grant)
    BY <1>1, <2>3, <2>4 DEF Shape, Tabled
  <2>6. members \in MemberTable
    BY <1>1, <2>3, Cell DEF MemberTable
  <2>7. row \in Granted
    BY <1>2, <2>1, <2>2 DEF Granted, Holders
  <2>8. grant \in GrantTable
    BY <1>1, <2>3, <2>7, Cell DEF GrantTable, Holders
  <2> QED BY <1>1, <2>4, <2>5, <2>6, <2>8, WholeTables
<1> QED BY <1>3, <1>4, <1>5, <1>6, EditedTyped

\* Whatever else writes keeps what is typed.
LEMMA EditTyped ==
    ASSUME Typed, Edit PROVE Typed'
<1>1. ASSUME NEW p \in People, ClaimOwner(p) \/ ChangeStatus(p) \/ ChangeFactor(p) \/ Purge(p)
      PROVE  Typed'
  BY <1>1, PeopleEditTyped
<1>2. ASSUME NEW p \in People, NEW kind \in {"admin", "guest"}, ChangeKind(p, kind) PROVE Typed'
  BY <1>2, PeopleEditTyped
<1> QED BY <1>1, <1>2, RestEditTyped DEF Edit

\* A part of an export is read, or the file is put together from the three.
LEMMA ExportTyped ==
    ASSUME Typed, (\E part \in Parts : ExportRead(part)) \/ ExportDone PROVE Typed'
<1>1. db' = db /\ import' = import /\ since' = since
  BY DEF ExportRead, ExportDone
<1>2. /\ db.app \in AppTable /\ db.kind \in KindTable /\ db.status \in StatusTable
      /\ db.members \in MemberTable /\ db.grant \in GrantTable
  BY TypedDb
<1>3. (\A p \in People : db.grant[p] \in Granted) /\ (\A g \in Groups : db.grant[g] \in Granted)
  BY <1>2 DEF GrantTable, Holders
<1>4. file' \in State \cup {None}
      /\ DOMAIN draft' \subseteq Parts /\ \A part \in DOMAIN draft' : PartOK(part, draft'[part])
  <2>1. ASSUME NEW part \in Parts, ExportRead(part) PROVE <1>4
    <3>1. PICK v : v = Part(db, part)
      OBVIOUS
    <3>2. /\ draft' = [read \in DOMAIN draft \cup {part} |-> IF read = part THEN v ELSE draft[read]]
          /\ file' = file
      BY <2>1, <3>1 DEF ExportRead
    <3>3. DOMAIN draft' = {part} \cup DOMAIN draft
      BY <3>2
    <3>4. draft'[part] = v /\ \A x \in DOMAIN draft : x # part => draft'[x] = draft[x]
      BY <3>2
    <3>5. PartOK(part, v)
      <4>1. CASE part = "apps"
        <5>1. v.app = db.app
          BY <3>1, <4>1 DEF Part
        <5> QED BY <1>2, <4>1, <5>1 DEF PartOK, AppTable
      <4>2. CASE part = "people"
        <5>1. v.kind = db.kind /\ v.status = db.status /\ v.direct = [p \in People |-> db.grant[p]]
          BY <3>1, <4>2 DEF Part
        <5>2. v.direct \in [People -> Granted]
          BY <1>3, <5>1
        <5> QED BY <1>2, <4>2, <5>1, <5>2 DEF PartOK, KindTable, StatusTable, Granted
      <4>3. CASE part = "groups"
        <5>1. v.members = db.members /\ v.shared = [g \in Groups |-> db.grant[g]]
          BY <3>1, <4>3 DEF Part
        <5>2. v.shared \in [Groups -> Granted]
          BY <1>3, <5>1
        <5> QED BY <1>2, <4>3, <5>1, <5>2 DEF PartOK, MemberTable, Granted
      <4> QED BY <4>1, <4>2, <4>3 DEF Parts
    <3> QED BY <3>2, <3>3, <3>4, <3>5 DEF Typed, TypeOK
  <2>2. CASE ExportDone
    <3>1. /\ PartOK("apps", draft["apps"]) /\ PartOK("people", draft["people"])
          /\ PartOK("groups", draft["groups"])
      BY <2>2 DEF ExportDone, Typed, Parts
    <3>2. draft["apps"].app \in AppTable
      BY <3>1 DEF PartOK, AppTable
    <3>3. /\ draft["people"].kind \in KindTable /\ draft["people"].status \in StatusTable
          /\ draft["people"].direct \in [People -> Granted]
      BY <3>1 DEF PartOK, KindTable, StatusTable, Granted
    <3>4. draft["groups"].members \in MemberTable /\ draft["groups"].shared \in [Groups -> Granted]
      BY <3>1 DEF PartOK, MemberTable, Granted
    <3>5. PICK grant : grant = [h \in Holders |-> IF h \in People THEN draft["people"].direct[h]
                                                  ELSE draft["groups"].shared[h]]
      OBVIOUS
    <3>6. grant \in GrantTable
      BY <3>3, <3>4, <3>5 DEF GrantTable, Holders
    <3>7. PICK app, kind, status, members :
            /\ app = draft["apps"].app /\ kind = draft["people"].kind
            /\ status = draft["people"].status /\ members = draft["groups"].members
      OBVIOUS
    <3>8. file' = [app |-> app, kind |-> kind, status |-> status, members |-> members, grant |-> grant]
      BY <2>2, <3>5, <3>7 DEF ExportDone
    <3>9. file' \in State
      BY <3>2, <3>3, <3>4, <3>6, <3>7, <3>8, FileTables
    <3>10. DOMAIN draft' = {}
      BY <2>2 DEF ExportDone
    <3> QED BY <3>9, <3>10
  <2> QED BY <2>1, <2>2
<1>5. TypeOK'
  BY <1>1, <1>4 DEF Typed, TypeOK
<1> QED BY <1>1, <1>4, <1>5 DEF Typed

\* An import is planned from the file at hand; or it is over.
LEMMA PlanTyped ==
    ASSUME Typed, NEW serving \in BOOLEAN, Plan(serving) PROVE Typed'
<1>1. PICK todo : todo = Script(file)
  OBVIOUS
<1>2. file \in State /\ file' = file /\ db' = db /\ draft' = draft
  BY DEF Plan, Typed, TypeOK
<1>3. import' = [serving |-> serving, file |-> file, before |-> db,
                 kinds |-> DecideKinds(file, db), todo |-> todo]
  BY <1>1 DEF Plan
<1>4. import'.serving = serving /\ import'.file = file /\ import'.before = db /\ import'.todo = todo
  BY <1>3
<1>5. TodoOK(file, todo)
  BY <1>1, <1>2, Scripted
<1>6. TypeOK'
  BY <1>2, <1>4 DEF Typed, TypeOK
<1>7. /\ since'.file \in State /\ since'.db \in Configuration /\ since'.file = file
  <2>1. CASE since # None /\ since.file = file
    BY <2>1 DEF Plan, Typed
  <2>2. CASE ~ (since # None /\ since.file = file)
    <3>1. since' = [file |-> file, db |-> db]
      BY <2>2 DEF Plan
    <3> QED BY <1>2, <3>1 DEF Typed, TypeOK
  <2> QED BY <2>1, <2>2
<1>8. DOMAIN draft' \subseteq Parts /\ \A part \in DOMAIN draft' : PartOK(part, draft'[part])
  BY <1>2 DEF Typed
<1>9. import'.file \in State /\ import'.before \in Configuration
      /\ TodoOK(import'.file, import'.todo)
  BY <1>2, <1>4, <1>5 DEF Typed, TypeOK
<1> QED BY <1>2, <1>4, <1>6, <1>7, <1>8, <1>9 DEF Typed

\* An import that ends keeps what is typed.
LEMMA OverTyped ==
    ASSUME Typed, Finish \/ Stop PROVE Typed'
<1>1. import' = None /\ db' = db /\ file' = file /\ draft' = draft /\ since' = since
  BY DEF Finish, Stop
<1> QED BY <1>1 DEF Typed, TypeOK

\* What is typed stays typed.
LEMMA AllTyped == Spec => []Typed
<1>1. Init => Typed
  <2> SUFFICES ASSUME Init PROVE Typed
    OBVIOUS
  <2>1. db \in Configuration /\ file \in State \cup {None}
        /\ \A p \in People : (db.kind[p] = None) = (db.status[p] = None)
    BY TransferAssumption DEF Init
  <2>2. draft = <<>> /\ import = None /\ since = None
    BY DEF Init
  <2>3. DOMAIN draft = {}
    BY <2>2
  <2> QED BY <2>1, <2>2, <2>3 DEF Typed, TypeOK
<1>2. IInv /\ Typed /\ [Next]_vars => Typed'
  <2> SUFFICES ASSUME IInv, Typed, [Next]_vars PROVE Typed'
    OBVIOUS
  <2>1. CASE ImportStep
    BY <2>1, StepTyped
  <2>2. CASE Edit
    BY <2>2, EditTyped
  <2>3. CASE ImportRoute \/ ImportOnHost \/ SeedOnBoot
    BY <2>3, PlanTyped DEF ImportRoute, ImportOnHost, SeedOnBoot
  <2>4. CASE Finish \/ Stop
    BY <2>4, OverTyped
  <2>5. CASE (\E part \in Parts : ExportRead(part)) \/ ExportDone
    BY <2>5, ExportTyped
  <2>6. ASSUME NEW f \in Files, Choose(f) PROVE Typed'
    <3>1. db' = db /\ draft' = draft /\ import' = import /\ since' = since /\ file' = f /\ f \in State
      BY <2>6, TransferAssumption DEF Choose
    <3> QED BY <3>1 DEF Typed, TypeOK
  <2>7. CASE UNCHANGED vars
    BY <2>7 DEF vars, Typed, TypeOK
  <2> QED BY <2>1, <2>2, <2>3, <2>4, <2>5, <2>6, <2>7 DEF Next
<1> QED BY <1>1, <1>2, InductiveInvariant, PTL DEF Spec

\* The database, the file and the import under way keep their form, whatever an import and the
\* console write: nobody has a status without a kind (state.ts 297-410).
THEOREM FilesAreTyped == Spec => []TypeOK
<1>1. Typed => TypeOK
  BY DEF Typed
<1> QED BY <1>1, AllTyped, PTL

-----------------------------------------------------------------------------
(* What a file describes over a database, cell by cell. *)
\* The kind decided for somebody, and the status they end up with.
KindOf(F, D, p) ==
    IF F.kind[p] = None \/ D.kind[p] = "owner" THEN None
    ELSE IF F.kind[p] = "owner" \/ (MustHoldFactor(F.kind[p]) /\ p \notin D.factor)
         THEN IF D.kind[p] = None THEN "guest" ELSE None
         ELSE F.kind[p]

StatusOf(F, D, p) ==
    IF D.kind[p] = None /\ F.kind[p] # None
    THEN IF F.status[p] = "suspended" THEN "suspended" ELSE "invited"
    ELSE D.status[p]

\* What a file describes over a database, cell by cell.
DescribesApp(S, F, D, a) ==
    /\ F.app[a] = None => S.app[a] = D.app[a]
    /\ F.app[a] # None => S.app[a] = [roles |-> Had(D, a) \cup F.app[a].roles, enabled |-> F.app[a].enabled]

DescribesPerson(S, F, D, p) ==
    /\ S.kind[p] = IF KindOf(F, D, p) # None THEN KindOf(F, D, p) ELSE D.kind[p]
    /\ S.status[p] = StatusOf(F, D, p)
    /\ S.kind[p] # None <=> (D.kind[p] # None \/ F.kind[p] # None)

\* S is what F describes over D.
Describes(S, F, D) ==
    /\ S.factor = D.factor
    /\ \A a \in Apps : DescribesApp(S, F, D, a)
    /\ \A p \in People : DescribesPerson(S, F, D, p)
    /\ \A g \in Groups :
         S.members[g] = IF F.members[g] = None THEN D.members[g] ELSE F.members[g] \cap There(S)
    /\ \A h \in Holders, a \in Apps :
         S.grant[h][a] = IF Wanted(S, F, h, a) THEN F.grant[h][a] \cap S.app[a].roles ELSE D.grant[h][a]

\* Two databases agree, cell by cell.
SameTables(S, d) ==
    /\ \A a \in Apps : d.app[a] = S.app[a]
    /\ \A p \in People : d.kind[p] = S.kind[p] /\ d.status[p] = S.status[p]
    /\ d.factor = S.factor
    /\ \A g \in Groups : d.members[g] = S.members[g]
    /\ \A h \in Holders, a \in Apps : d.grant[h][a] = S.grant[h][a]

\* The kind decided for somebody, branch by branch.
LEMMA KindDecided ==
    ASSUME NEW F, NEW D, NEW p \in People
    PROVE  DecideKinds(F, D)[p] = KindOf(F, D, p)
<1>1. PICK k : k = DecideKinds(F, D)[p]
  OBVIOUS
<1>2. k = CASE F.kind[p] = None \/ D.kind[p] = "owner" -> None
            [] F.kind[p] = "owner" \/ (MustHoldFactor(F.kind[p]) /\ p \notin D.factor) ->
                 IF D.kind[p] = None THEN "guest" ELSE None
            [] OTHER -> F.kind[p]
  BY <1>1 DEF DecideKinds
<1>3. CASE F.kind[p] = None \/ D.kind[p] = "owner"
  <2>1. KindOf(F, D, p) = None
    BY <1>3 DEF KindOf
  <2>2. None # "owner" /\ None # "admin"
    BY TransferAssumption DEF Kinds
  <2>3. CASE F.kind[p] = None
    BY <1>1, <1>2, <2>1, <2>2, <2>3 DEF MustHoldFactor
  <2>4. CASE D.kind[p] = "owner"
    BY <1>1, <1>2, <2>1, <2>2, <2>4
  <2> QED BY <1>3, <2>3, <2>4
<1>4. CASE ~ (F.kind[p] = None \/ D.kind[p] = "owner")
  BY <1>1, <1>2, <1>4 DEF KindOf
<1> QED BY <1>3, <1>4

\* Somebody the file does not list is left alone; somebody new is given a kind.
LEMMA KindIsThere ==
    ASSUME NEW F, NEW D, NEW p
    PROVE  /\ F.kind[p] = None => KindOf(F, D, p) = None
           /\ F.kind[p] # None /\ D.kind[p] = None => KindOf(F, D, p) # None
<1>1. None # "owner" /\ None # "guest"
  BY TransferAssumption DEF Kinds
<1> QED BY <1>1 DEF KindOf

\* What a file describes over a database is described cell by cell, and no other database is.
LEMMA SettledIs ==
    ASSUME NEW F \in State, NEW D \in Configuration
    PROVE  /\ Describes(Settled(F, D), F, D)
           /\ \A d \in Configuration : SameTables(Settled(F, D), d) => d = Settled(F, D)
<1>1. PICK S : S = Settled(F, D)
  OBVIOUS
<1>2. PICK app : app = [a \in Apps |->
            CASE F.app[a] = None -> D.app[a]
              [] D.app[a] = None -> F.app[a]
              [] OTHER -> [roles |-> D.app[a].roles \cup F.app[a].roles,
                           enabled |-> F.app[a].enabled]]
  OBVIOUS
<1>3. PICK arrives : arrives = {p \in People : D.kind[p] = None /\ F.kind[p] # None}
  OBVIOUS
<1>4. PICK kinds : kinds = DecideKinds(F, D)
  OBVIOUS
<1>5. PICK kind : kind = [p \in People |-> IF kinds[p] # None THEN kinds[p] ELSE D.kind[p]]
  OBVIOUS
<1>6. PICK status : status = [p \in People |->
            IF p \notin arrives THEN D.status[p]
            ELSE IF F.status[p] = "suspended" THEN "suspended" ELSE "invited"]
  OBVIOUS
<1>7. PICK members : members = [g \in Groups |->
            IF F.members[g] = None THEN D.members[g]
            ELSE F.members[g] \cap (There(D) \cup arrives)]
  OBVIOUS
<1>8. PICK grant : grant = [h \in Holders |-> [a \in Apps |->
            IF Lists(F, h) /\ F.grant[h][a] # None /\ app[a] # None
            THEN F.grant[h][a] \cap app[a].roles ELSE D.grant[h][a]]]
  OBVIOUS
<1>9. S = [app |-> app, kind |-> kind, status |-> status, factor |-> D.factor, members |-> members,
           grant |-> grant]
  BY <1>1, <1>2, <1>3, <1>4, <1>5, <1>6, <1>7, <1>8 DEF Settled, Lists
<1>10. S.app = app /\ S.kind = kind /\ S.status = status /\ S.factor = D.factor
      /\ S.members = members /\ S.grant = grant
  BY <1>9
<1>11. ASSUME NEW a \in Apps PROVE DescribesApp(S, F, D, a)
  <2>1. CASE F.app[a] = None
    <3>1. app[a] = D.app[a]
      BY <1>2, <2>1
    <3> QED BY <1>10, <2>1, <3>1 DEF DescribesApp
  <2>2. CASE F.app[a] # None /\ D.app[a] = None
    <3>1. app[a] = F.app[a] /\ Had(D, a) = {}
      BY <1>2, <2>2 DEF Had
    <3>2. F.app[a] \in AppData
      BY <2>2, FileTables DEF AppTable
    <3>3. PICK roles, enabled : F.app[a] = [roles |-> roles, enabled |-> enabled]
      BY <3>2 DEF AppData
    <3>4. F.app[a].roles = roles /\ F.app[a].enabled = enabled /\ {} \cup roles = roles
      BY <3>3
    <3>5. app[a] = [roles |-> Had(D, a) \cup F.app[a].roles, enabled |-> F.app[a].enabled]
      BY <3>1, <3>3, <3>4
    <3> QED BY <1>10, <2>2, <3>5 DEF DescribesApp
  <2>3. CASE F.app[a] # None /\ D.app[a] # None
    <3>1. app[a] = [roles |-> Had(D, a) \cup F.app[a].roles, enabled |-> F.app[a].enabled]
      BY <1>2, <2>3 DEF Had
    <3> QED BY <1>10, <2>3, <3>1 DEF DescribesApp
  <2> QED BY <2>1, <2>2, <2>3
<1>12. ASSUME NEW p \in People PROVE DescribesPerson(S, F, D, p)
  <2>1. kind[p] = IF KindOf(F, D, p) # None THEN KindOf(F, D, p) ELSE D.kind[p]
    BY <1>4, <1>5, KindDecided
  <2>2. kind[p] # None <=> (D.kind[p] # None \/ F.kind[p] # None)
    BY <2>1, KindIsThere
  <2>3. p \in arrives <=> D.kind[p] = None /\ F.kind[p] # None
    BY <1>3
  <2>4. status[p] = StatusOf(F, D, p)
    BY <1>6, <2>3 DEF StatusOf
  <2> QED BY <1>10, <2>1, <2>2, <2>4 DEF DescribesPerson
<1>13. There(S) = There(D) \cup arrives
  <2>1. ASSUME NEW p \in People PROVE S.kind[p] # None <=> (D.kind[p] # None \/ F.kind[p] # None)
    BY <1>12 DEF DescribesPerson
  <2> QED BY <1>3, <2>1 DEF There
<1>14. ASSUME NEW g \in Groups
       PROVE  members[g] = IF F.members[g] = None THEN D.members[g] ELSE F.members[g] \cap There(S)
  BY <1>7, <1>13
<1>15. ASSUME NEW h \in Holders, NEW a \in Apps
       PROVE  grant[h][a] = IF Wanted(S, F, h, a) THEN F.grant[h][a] \cap app[a].roles
                            ELSE D.grant[h][a]
  BY <1>8, <1>10 DEF Wanted
<1>16. Describes(S, F, D)
  BY <1>10, <1>11, <1>12, <1>14, <1>15 DEF Describes
<1>17. ASSUME NEW d \in Configuration, SameTables(S, d) PROVE d = S
  <2>1. /\ Shape(d) /\ d.app \in AppTable /\ d.kind \in KindTable /\ d.status \in StatusTable
        /\ d.members \in MemberTable /\ d.grant \in GrantTable
    BY Tables
  <2>2. d.app = app
    <3>1. \A a \in Apps : d.app[a] = app[a]
      BY <1>10, <1>17 DEF SameTables
    <3>2. app = [a \in Apps |-> app[a]]
      BY <1>2
    <3>3. d.app = [a \in Apps |-> d.app[a]]
      BY <2>1 DEF AppTable
    <3> QED BY <3>1, <3>2, <3>3
  <2>3. d.kind = kind
    BY <1>5, <1>10, <1>17, <2>1 DEF SameTables, KindTable
  <2>4. d.status = status
    BY <1>6, <1>10, <1>17, <2>1 DEF SameTables, StatusTable
  <2>5. d.members = members
    <3>1. \A g \in Groups : d.members[g] = members[g]
      BY <1>10, <1>17 DEF SameTables
    <3>2. members = [g \in Groups |-> members[g]]
      BY <1>7
    <3>3. d.members = [g \in Groups |-> d.members[g]]
      BY <2>1 DEF MemberTable
    <3> QED BY <3>1, <3>2, <3>3
  <2>6. d.grant = grant
    <3>1. ASSUME NEW h \in Holders PROVE d.grant[h] = grant[h]
      <4>1. d.grant[h] \in Granted
        BY <2>1 DEF GrantTable
      <4>2. PICK row : row = grant[h]
        OBVIOUS
      <4>3. row = [a \in Apps |->
            IF Lists(F, h) /\ F.grant[h][a] # None /\ app[a] # None
            THEN F.grant[h][a] \cap app[a].roles ELSE D.grant[h][a]]
        BY <1>8, <4>2
      <4>4. \A a \in Apps : d.grant[h][a] = row[a]
        BY <1>10, <1>17, <4>2 DEF SameTables
      <4>5. row = [a \in Apps |-> row[a]]
        BY <4>3
      <4>6. PICK next : next = d.grant[h]
        OBVIOUS
      <4>7. next = [a \in Apps |-> next[a]]
        BY <4>1, <4>6 DEF Granted
      <4>8. next = row
        BY <4>4, <4>5, <4>6, <4>7
      <4> QED BY <4>2, <4>6, <4>8
    <3> QED BY <1>8, <2>1, <3>1 DEF GrantTable
  <2>7. d.factor = D.factor
    BY <1>10, <1>17 DEF SameTables
  <2> QED BY <1>9, <2>1, <2>2, <2>3, <2>4, <2>5, <2>6, <2>7 DEF Shape
<1> QED BY <1>1, <1>16, <1>17

\* One step of an import, as to what is still to be done.
Stepped(F, i, j, first) ==
    /\ i # None /\ j # None /\ TodoOK(F, i.todo) /\ i.todo # <<>>
    /\ j.todo = first \o Tail(i.todo) /\ j.before = i.before
    /\ first = <<>> \/ \E x : first = <<x>> /\ Second(x) /\ Phase(x) = Phase(Head(i.todo))

\* After a write everything else is still to be done, a second half comes next, and nothing that
\* is still to be done belongs before the write.
LEMMA SteppedOn ==
    ASSUME NEW F, NEW i, NEW j, NEW first, Stepped(F, i, j, first)
    PROVE  /\ \A s : ~ Pend(j, s) => ~ Pend(i, s) \/ s = Head(i.todo)
           /\ first = <<>> => ~ (j.todo # <<>> /\ Second(Head(j.todo)))
           /\ \A x : first = <<x>> => HeadNow(j, x)
           /\ \A s : Pend(i, s) => Phase(Head(i.todo)) =< Phase(s)
<1>1. PICK q : q = i.todo
  OBVIOUS
<1>2. PICK r : r = first \o Tail(q)
  OBVIOUS
<1>3. i # None /\ j # None /\ TodoOK(F, q) /\ q # <<>> /\ j.todo = r
      /\ (first = <<>> \/ \E x : first = <<x>> /\ Second(x) /\ Phase(x) = Phase(Head(q)))
  BY <1>1, <1>2 DEF Stepped
<1>4. /\ \A s : Holds(q, s) /\ s # Head(q) => Holds(r, s)
      /\ first # <<>> => r # <<>> /\ first = <<Head(r)>>
      /\ first = <<>> /\ r # <<>> => ~ Second(Head(r))
  BY <1>2, <1>3, Onward
<1>5. \A s : Holds(q, s) => Phase(Head(q)) =< Phase(s)
  BY <1>3, HeadFirst
<1>6. ASSUME NEW x, first = <<x>> PROVE HeadNow(j, x)
  <2>1. first # <<>>
    BY <1>6
  <2>2. Head(r) = x
    <3>1. first = <<Head(r)>> /\ r # <<>>
      BY <1>4, <2>1
    <3>2. PICK y : y = Head(r)
      OBVIOUS
    <3>3. <<x>> = <<y>>
      BY <1>6, <3>1, <3>2
    <3> QED BY <3>2, <3>3
  <2>3. r # <<>>
    BY <1>4, <2>1
  <2> QED BY <1>3, <2>2, <2>3 DEF HeadNow
<1>7. \A s : (Pend(i, s) <=> Holds(q, s)) /\ (Pend(j, s) <=> Holds(r, s))
  BY <1>1, <1>3 DEF Pend
<1> HIDE DEF Pend
<1>8. \A s : ~ Pend(j, s) => ~ Pend(i, s) \/ s = Head(i.todo)
  BY <1>1, <1>4, <1>7
<1>9. first = <<>> => ~ (j.todo # <<>> /\ Second(Head(j.todo)))
  BY <1>3, <1>4
<1>10. \A s : Pend(i, s) => Phase(Head(i.todo)) =< Phase(s)
  BY <1>1, <1>5, <1>7
<1> QED BY <1>6, <1>8, <1>9, <1>10

\* When no app and no role is left to write, the apps are as the file describes; and so on.
LEMMA AppSettled ==
    ASSUME NEW F \in State, NEW D, NEW S, Describes(S, F, D),
           NEW d \in Configuration, NEW i, NEW a \in Apps, AppOK(d, i, F, D, a),
           ~ Pend(i, <<"app", a>>), \A r \in Roles : ~ Pend(i, <<"role", a, r>>)
    PROVE  d.app[a] = S.app[a]
<1>1. DescribesApp(S, F, D, a)
  BY DEF Describes
<1>2. CASE F.app[a] = None
  BY <1>1, <1>2 DEF AppOK, DescribesApp
<1>3. CASE F.app[a] # None
  <2>1. F.app[a] \in AppData
    BY <1>3, FileTables DEF AppTable
  <2>2. \A r \in F.app[a].roles : r \in Roles
    BY <2>1 DEF AppData
  <2>3. /\ d.app[a] # None /\ d.app[a].enabled = F.app[a].enabled
        /\ Had(D, a) \subseteq d.app[a].roles
        /\ d.app[a].roles \subseteq Had(D, a) \cup F.app[a].roles
        /\ \A r \in F.app[a].roles : r \in d.app[a].roles
    BY <1>3, <2>2 DEF AppOK
  <2>4. d.app[a].roles = Had(D, a) \cup F.app[a].roles
    BY <2>3
  <2>5. d.app[a] \in AppData
    BY <2>3, Tables DEF AppTable
  <2>6. PICK roles, enabled : d.app[a] = [roles |-> roles, enabled |-> enabled]
    BY <2>5 DEF AppData
  <2>7. roles = Had(D, a) \cup F.app[a].roles /\ enabled = F.app[a].enabled
    BY <2>3, <2>4, <2>6
  <2> QED BY <1>1, <1>3, <2>6, <2>7 DEF DescribesApp
<1> QED BY <1>2, <1>3

\* Somebody whose row is written is as the file describes.
LEMMA PersonSettled ==
    ASSUME NEW F, NEW D, NEW S, Describes(S, F, D),
           NEW d, NEW i, NEW p \in People, PersonOK(d, i, S, F, D, p), ~ Pend(i, <<"person", p>>)
    PROVE  d.kind[p] = S.kind[p] /\ d.status[p] = S.status[p]
<1>1. CASE F.kind[p] # None
  BY <1>1 DEF PersonOK
<1>2. CASE F.kind[p] = None
  <2>1. S.kind[p] = D.kind[p] /\ S.status[p] = D.status[p]
    <3>1. KindOf(F, D, p) = None
      BY <1>2 DEF KindOf
    <3>2. DescribesPerson(S, F, D, p)
      BY DEF Describes
    <3> QED BY <1>2, <3>1, <3>2 DEF DescribesPerson, StatusOf
  <2> QED BY <2>1 DEF PersonOK
<1> QED BY <1>1, <1>2

\* An import with nothing left to write has left what the file describes.
LEMMA NothingLeft ==
    ASSUME NEW F \in State, NEW D, NEW S, Describes(S, F, D),
           NEW d \in Configuration, NEW i, i # None, i.todo = <<>>, OnTheWay(d, i, S, F, D)
    PROVE  SameTables(S, d)
<1>1. \A s : ~ Pend(i, s) /\ ~ HeadNow(i, s)
  BY DEF Pend, HeadNow, Holds
<1>2. ASSUME NEW a \in Apps PROVE d.app[a] = S.app[a]
  BY <1>1, AppSettled DEF OnTheWay
<1>3. ASSUME NEW p \in People PROVE d.kind[p] = S.kind[p] /\ d.status[p] = S.status[p]
  <2>1. PersonOK(d, i, S, F, D, p)
    BY DEF OnTheWay
  <2>2. ~ Pend(i, <<"person", p>>)
    BY <1>1
  <2> QED BY <2>1, <2>2, PersonSettled
<1>4. ASSUME NEW g \in Groups PROVE d.members[g] = S.members[g]
  <2>1. S.members[g] = IF F.members[g] = None THEN D.members[g] ELSE F.members[g] \cap There(S)
    BY DEF Describes
  <2>2. MembersOK(d, i, S, F, D, g)
    BY DEF OnTheWay
  <2> QED BY <1>1, <2>1, <2>2 DEF MembersOK
<1>5. ASSUME NEW h \in Holders, NEW a \in Apps PROVE d.grant[h][a] = S.grant[h][a]
  <2>1. S.grant[h][a] = IF Wanted(S, F, h, a) THEN F.grant[h][a] \cap S.app[a].roles ELSE D.grant[h][a]
    BY DEF Describes
  <2>2. GrantOK(d, i, S, F, D, h, a)
    BY DEF OnTheWay
  <2> QED BY <1>1, <2>1, <2>2 DEF GrantOK
<1>6. d.factor = S.factor
  BY DEF OnTheWay, Describes
<1> QED BY <1>2, <1>3, <1>4, <1>5, <1>6 DEF SameTables

-----------------------------------------------------------------------------
(* One write of an import that is on the way. *)
\* A write of an import that is on the way to what its file describes.
Turn(S, F, D, d, i, j, first) ==
    /\ F \in State /\ Describes(S, F, D) /\ d \in Configuration
    /\ OnTheWay(d, i, S, F, D) /\ Stepped(F, i, j, first)

\* What a write does not touch stays on the way.
LEMMA AppKept ==
    ASSUME NEW S, NEW F, NEW D, NEW d, NEW i, NEW j, NEW first, Turn(S, F, D, d, i, j, first),
           NEW e, NEW a \in Apps, e.app[a] = d.app[a],
           Head(i.todo)[1] \notin {"app", "role"} \/ Head(i.todo)[2] # a
    PROVE  AppOK(e, j, F, D, a)
<1>1. Stepped(F, i, j, first) /\ AppOK(d, i, F, D, a)
  BY DEF Turn, OnTheWay
<1>2. \A s : ~ Pend(j, s) => ~ Pend(i, s) \/ s = Head(i.todo)
  BY <1>1, SteppedOn
<1>3. ~ Pend(j, <<"app", a>>) => ~ Pend(i, <<"app", a>>)
  BY <1>2
<1>4. ASSUME NEW r PROVE ~ Pend(j, <<"role", a, r>>) => ~ Pend(i, <<"role", a, r>>)
  BY <1>2
<1> HIDE DEF Pend
<1> QED BY <1>1, <1>3, <1>4 DEF AppOK

\* Somebody whose row is not the write stays on the way.
LEMMA PersonKept ==
    ASSUME NEW S, NEW F, NEW D, NEW d, NEW i, NEW j, NEW first, Turn(S, F, D, d, i, j, first),
           NEW e, NEW p \in People, e.kind[p] = d.kind[p], e.status[p] = d.status[p],
           Head(i.todo)[1] # "person" \/ Head(i.todo)[2] # p
    PROVE  PersonOK(e, j, S, F, D, p)
<1>1. Stepped(F, i, j, first) /\ PersonOK(d, i, S, F, D, p)
  BY DEF Turn, OnTheWay
<1>2. \A s : ~ Pend(j, s) => ~ Pend(i, s) \/ s = Head(i.todo)
  BY <1>1, SteppedOn
<1>3. ~ Pend(j, <<"person", p>>) => ~ Pend(i, <<"person", p>>)
  BY <1>2
<1>4. i # None /\ j.before = i.before
  BY <1>1 DEF Stepped
<1> QED BY <1>1, <1>3, <1>4 DEF PersonOK

\* The members of a group whose row is not the write stay on the way.
LEMMA MembersKept ==
    ASSUME NEW S, NEW F, NEW D, NEW d, NEW i, NEW j, NEW first, Turn(S, F, D, d, i, j, first),
           NEW e, NEW g \in Groups, e.members[g] = d.members[g],
           Head(i.todo)[1] \notin {"clear", "join"} \/ Head(i.todo)[2] # g
    PROVE  MembersOK(e, j, S, F, D, g)
<1>1. Stepped(F, i, j, first) /\ MembersOK(d, i, S, F, D, g)
  BY DEF Turn, OnTheWay
<1>2. \A s : ~ Pend(j, s) => ~ Pend(i, s) \/ s = Head(i.todo)
  BY <1>1, SteppedOn
<1>3. ~ Pend(j, <<"clear", g>>) => ~ Pend(i, <<"clear", g>>)
  BY <1>2
<1>4. ~ HeadNow(i, <<"join", g, S.members[g]>>)
  BY DEF HeadNow
<1> QED BY <1>1, <1>3, <1>4 DEF MembersOK

\* A grant whose row is not the write stays on the way.
LEMMA GrantKept ==
    ASSUME NEW S, NEW F, NEW D, NEW d, NEW i, NEW j, NEW first, Turn(S, F, D, d, i, j, first),
           NEW e, NEW h \in Holders, NEW a \in Apps, e.grant[h][a] = d.grant[h][a],
           Head(i.todo)[1] \notin {"grant", "fill"} \/ Head(i.todo)[2] # h \/ Head(i.todo)[3] # a
    PROVE  GrantOK(e, j, S, F, D, h, a)
<1>1. Stepped(F, i, j, first) /\ GrantOK(d, i, S, F, D, h, a)
  BY DEF Turn, OnTheWay
<1>2. \A s : ~ Pend(j, s) => ~ Pend(i, s) \/ s = Head(i.todo)
  BY <1>1, SteppedOn
<1>3. ~ Pend(j, <<"grant", h, a>>) => ~ Pend(i, <<"grant", h, a>>)
  BY <1>2
<1>4. ~ HeadNow(i, <<"fill", h, a, S.grant[h][a]>>)
  BY DEF HeadNow
<1> QED BY <1>1, <1>3, <1>4 DEF GrantOK

\* A whole write that is done leaves no second half behind.
LEMMA NoHalfLeft ==
    ASSUME NEW S, NEW F, NEW D, NEW d, NEW i, NEW j, NEW first, Turn(S, F, D, d, i, j, first),
           first = <<>>, NEW e
    PROVE  HeadOK(e, j, S, F)
<1>1. Stepped(F, i, j, first)
  BY DEF Turn
<1>2. ~ (j.todo # <<>> /\ Second(Head(j.todo)))
  BY <1>1, SteppedOn
<1> QED BY <1>2 DEF HeadOK

\* No import touches a factor, and the plan keeps what it read.
LEMMA FactorsKept ==
    ASSUME NEW S, NEW F, NEW D, NEW d, NEW i, NEW j, NEW first, Turn(S, F, D, d, i, j, first),
           NEW e, e.factor = d.factor
    PROVE  e.factor = D.factor /\ (j # None => j.before.factor = D.factor)
<1>1. Stepped(F, i, j, first) /\ d.factor = D.factor /\ (i # None => i.before.factor = D.factor)
  BY DEF Turn, OnTheWay
<1>2. i # None /\ j.before = i.before
  BY <1>1 DEF Stepped
<1> QED BY <1>1, <1>2

\* Apps come first and groups last: a grant finds the apps settled, a group everybody.
LEMMA SettledBefore ==
    ASSUME NEW S, NEW F, NEW D, NEW d, NEW i, NEW j, NEW first, Turn(S, F, D, d, i, j, first)
    PROVE  /\ Phase(Head(i.todo)) >= 2 => \A a \in Apps : d.app[a] = S.app[a]
           /\ Phase(Head(i.todo)) >= 3 => There(d) = There(S)
<1>1. Stepped(F, i, j, first) /\ F \in State /\ Describes(S, F, D) /\ d \in Configuration
  BY DEF Turn
<1>2. Phase(Head(i.todo)) \in 1..3
  BY SecondsApart
<1>3. \A s : Pend(i, s) => Phase(Head(i.todo)) =< Phase(s)
  BY <1>1, SteppedOn
<1>4. ASSUME Phase(Head(i.todo)) >= 2, NEW a \in Apps PROVE d.app[a] = S.app[a]
  <2>1. ASSUME NEW s, s[1] \in {"app", "role"} PROVE ~ Pend(i, s)
    <3>1. Phase(s) = 1
      BY <2>1 DEF Phase
    <3>2. ~ (Phase(Head(i.todo)) =< Phase(s))
      BY <1>2, <1>4, <3>1
    <3> QED BY <1>3, <3>2
  <2>2. ~ Pend(i, <<"app", a>>)
    BY <2>1
  <2>3. ASSUME NEW r \in Roles PROVE ~ Pend(i, <<"role", a, r>>)
    BY <2>1
  <2>4. AppOK(d, i, F, D, a)
    BY DEF Turn, OnTheWay
  <2> QED BY <1>1, <2>2, <2>3, <2>4, AppSettled
<1>5. ASSUME Phase(Head(i.todo)) >= 3 PROVE There(d) = There(S)
  <2>1. ASSUME NEW p \in People PROVE d.kind[p] = S.kind[p]
    <3>1. Phase(<<"person", p>>) = 2
      BY DEF Phase
    <3>2. ~ (Phase(Head(i.todo)) =< Phase(<<"person", p>>))
      BY <1>2, <1>5, <3>1
    <3>3. ~ Pend(i, <<"person", p>>)
      BY <1>3, <3>2
    <3>4. PersonOK(d, i, S, F, D, p)
      BY DEF Turn, OnTheWay
    <3> QED BY <1>1, <3>3, <3>4, PersonSettled
  <2> QED BY <2>1 DEF There
<1> QED BY <1>4, <1>5

\* The tables of a database that is written.
LEMMA WithIs ==
    ASSUME NEW d, NEW app, NEW kind, NEW status, NEW members, NEW grant,
           NEW e, e = With(d, app, kind, status, members, grant)
    PROVE  /\ e.app = app /\ e.kind = kind /\ e.status = status /\ e.factor = d.factor
           /\ e.members = members /\ e.grant = grant
BY DEF With

\* The app's own row settles whether it is enabled and keeps the roles it had.
LEMMA AppOnTheWay ==
    ASSUME NEW S, NEW F, NEW D, NEW d, NEW i, NEW j, NEW first, first = <<>>,
           Turn(S, F, D, d, i, j, first),
           NEW a \in Apps, F.app[a] # None, Head(i.todo) = <<"app", a>>,
           NEW e, e = With(d, [d.app EXCEPT ![a] = [roles |-> Had(d, a), enabled |-> F.app[a].enabled]],
                           d.kind, d.status, d.members, d.grant)
    PROVE  OnTheWay(e, j, S, F, D)
<1>1. PICK x : x = [roles |-> Had(d, a), enabled |-> F.app[a].enabled]
  OBVIOUS
<1>2. x.roles = Had(d, a) /\ x.enabled = F.app[a].enabled /\ x # None
  <2>1. d \in Configuration /\ F \in State
    BY DEF Turn
  <2>2. F.app[a] \in AppData /\ (d.app[a] # None => d.app[a] \in AppData)
    BY <2>1, Tables, FileTables DEF AppTable
  <2>3. Had(d, a) \in SUBSET Roles /\ F.app[a].enabled \in BOOLEAN
    BY <2>2 DEF Had, AppData
  <2>4. x \in AppData
    BY <1>1, <2>3 DEF AppData
  <2> QED BY <1>1, <2>4, TransferAssumption
<1>3. PICK app : app = [d.app EXCEPT ![a] = x]
  OBVIOUS
<1>4. app[a] = x /\ \A b \in Apps : b # a => app[b] = d.app[b]
  BY <1>3, Tables DEF Turn, AppTable
<1>5. /\ e.app = app /\ e.kind = d.kind /\ e.status = d.status /\ e.factor = d.factor
      /\ e.members = d.members /\ e.grant = d.grant
  BY <1>1, <1>3, WithIs
<1>6. Head(i.todo)[1] = "app" /\ Head(i.todo)[2] = a
  OBVIOUS
<1>7. ASSUME NEW b \in Apps PROVE AppOK(e, j, F, D, b)
  <2>1. CASE b # a
    BY <1>4, <1>5, <1>6, <2>1, AppKept
  <2>2. CASE b = a
    <3>1. e.app[a] = x
      BY <1>4, <1>5
    <3>2. AppOK(d, i, F, D, a) /\ Stepped(F, i, j, first)
      BY DEF Turn, OnTheWay
    <3>3. Had(D, a) \subseteq Had(d, a) /\ Had(d, a) \subseteq Had(D, a) \cup F.app[a].roles
      BY <3>2 DEF AppOK, Had
    <3>4. ASSUME NEW r \in F.app[a].roles, ~ Pend(j, <<"role", a, r>>) PROVE r \in Had(d, a)
      <4>1. \A s : ~ Pend(j, s) => ~ Pend(i, s) \/ s = Head(i.todo)
        BY <3>2, SteppedOn
      <4>2. <<"role", a, r>>[1] # Head(i.todo)[1]
        BY <1>6
      <4>3. ~ Pend(i, <<"role", a, r>>)
        BY <3>4, <4>1, <4>2
      <4> QED BY <3>2, <4>3 DEF AppOK, Had
    <3> QED BY <1>2, <2>2, <3>1, <3>3, <3>4 DEF AppOK
  <2> QED BY <2>1, <2>2
<1>8. \A p \in People : PersonOK(e, j, S, F, D, p)
  BY <1>5, <1>6, PersonKept
<1>9. \A g \in Groups : MembersOK(e, j, S, F, D, g)
  BY <1>5, <1>6, MembersKept
<1>10. \A h \in Holders, b \in Apps : GrantOK(e, j, S, F, D, h, b)
  BY <1>5, <1>6, GrantKept
<1>11. /\ HeadOK(e, j, S, F) /\ e.factor = D.factor /\ (j # None => j.before.factor = D.factor)
  BY <1>5, NoHalfLeft, FactorsKept
<1> QED BY <1>7, <1>8, <1>9, <1>10, <1>11 DEF OnTheWay

\* A role's row settles that role and leaves the others.
LEMMA RoleOnTheWay ==
    ASSUME NEW S, NEW F, NEW D, NEW d, NEW i, NEW j, NEW first, first = <<>>,
           Turn(S, F, D, d, i, j, first),
           NEW a \in Apps, F.app[a] # None, NEW r \in F.app[a].roles, Head(i.todo) = <<"role", a, r>>,
           d.app[a] # None,
           NEW e, e = With(d, [d.app EXCEPT ![a] = [roles |-> d.app[a].roles \cup {r},
                                                    enabled |-> d.app[a].enabled]],
                           d.kind, d.status, d.members, d.grant)
    PROVE  OnTheWay(e, j, S, F, D)
<1>1. PICK x : x = [roles |-> d.app[a].roles \cup {r}, enabled |-> d.app[a].enabled]
  OBVIOUS
<1>2. x.roles = d.app[a].roles \cup {r} /\ x.enabled = d.app[a].enabled /\ x # None
  <2>1. d \in Configuration /\ F \in State
    BY DEF Turn
  <2>2. F.app[a] \in AppData /\ d.app[a] \in AppData
    BY <2>1, Tables, FileTables DEF AppTable
  <2>3. d.app[a].roles \in SUBSET Roles /\ r \in Roles /\ d.app[a].enabled \in BOOLEAN
    BY <2>2 DEF AppData
  <2>4. x \in AppData
    <3>1. d.app[a].roles \cup {r} \in SUBSET Roles
      BY <2>3
    <3> QED BY <1>1, <2>3, <3>1 DEF AppData
  <2> QED BY <1>1, <2>4, TransferAssumption
<1>3. PICK app : app = [d.app EXCEPT ![a] = x]
  OBVIOUS
<1>4. app[a] = x /\ \A b \in Apps : b # a => app[b] = d.app[b]
  BY <1>3, Tables DEF Turn, AppTable
<1>5. /\ e.app = app /\ e.kind = d.kind /\ e.status = d.status /\ e.factor = d.factor
      /\ e.members = d.members /\ e.grant = d.grant
  BY <1>1, <1>3, WithIs
<1>6. Head(i.todo)[1] = "role" /\ Head(i.todo)[2] = a /\ Head(i.todo)[3] = r
  OBVIOUS
<1>7. ASSUME NEW b \in Apps PROVE AppOK(e, j, F, D, b)
  <2>1. CASE b # a
    BY <1>4, <1>5, <1>6, <2>1, AppKept
  <2>2. CASE b = a
    <3>1. e.app[a] = x
      BY <1>4, <1>5
    <3>2. AppOK(d, i, F, D, a) /\ Stepped(F, i, j, first)
      BY DEF Turn, OnTheWay
    <3>3. \A s : ~ Pend(j, s) => ~ Pend(i, s) \/ s = Head(i.todo)
      BY <3>2, SteppedOn
    <3>4. ASSUME ~ Pend(j, <<"app", a>>) PROVE d.app[a].enabled = F.app[a].enabled
      <4>1. <<"app", a>>[1] # Head(i.todo)[1]
        BY <1>6
      <4>2. ~ Pend(i, <<"app", a>>)
        BY <3>3, <3>4, <4>1
      <4> QED BY <3>2, <4>2 DEF AppOK
    <3>5. ASSUME NEW q \in F.app[a].roles, ~ Pend(j, <<"role", a, q>>) PROVE q \in x.roles
      <4>1. CASE q = r
        BY <1>2, <4>1
      <4>2. CASE q # r
        <5>1. <<"role", a, q>>[3] # Head(i.todo)[3]
          BY <1>6, <4>2
        <5>2. ~ Pend(i, <<"role", a, q>>)
          BY <3>3, <3>5, <5>1
        <5>3. q \in d.app[a].roles
          BY <3>2, <5>2 DEF AppOK
        <5> QED BY <1>2, <5>3
      <4> QED BY <4>1, <4>2
    <3>6. Had(D, a) \subseteq x.roles /\ x.roles \subseteq Had(D, a) \cup F.app[a].roles
      BY <1>2, <3>2 DEF AppOK
    <3> QED BY <1>2, <2>2, <3>1, <3>4, <3>5, <3>6 DEF AppOK
  <2> QED BY <2>1, <2>2
<1>8. \A p \in People : PersonOK(e, j, S, F, D, p)
  BY <1>5, <1>6, PersonKept
<1>9. \A g \in Groups : MembersOK(e, j, S, F, D, g)
  BY <1>5, <1>6, MembersKept
<1>10. \A h \in Holders, b \in Apps : GrantOK(e, j, S, F, D, h, b)
  BY <1>5, <1>6, GrantKept
<1>11. /\ HeadOK(e, j, S, F) /\ e.factor = D.factor /\ (j # None => j.before.factor = D.factor)
  BY <1>5, NoHalfLeft, FactorsKept
<1> QED BY <1>7, <1>8, <1>9, <1>10, <1>11 DEF OnTheWay

\* Somebody's row settles them, also when an earlier import of the same file had written it
\* already, so that the plan read what that one left.
LEMMA PersonOnTheWay ==
    ASSUME NEW S, NEW F, NEW D, NEW d, NEW i, NEW j, NEW first, first = <<>>,
           Turn(S, F, D, d, i, j, first),
           NEW p \in People, F.kind[p] # None, Head(i.todo) = <<"person", p>>,
           NEW decided, decided = KindOf(F, i.before, p),
           NEW kind, kind = IF decided # None THEN decided
                            ELSE IF d.kind[p] = None THEN "guest" ELSE d.kind[p],
           NEW status, status = IF d.kind[p] # None THEN d.status[p]
                                ELSE IF F.status[p] = "suspended" THEN "suspended" ELSE "invited",
           NEW e, e = With(d, d.app, [d.kind EXCEPT ![p] = kind], [d.status EXCEPT ![p] = status],
                           d.members, d.grant)
    PROVE  OnTheWay(e, j, S, F, D)
<1>1. PICK kinds : kinds = [d.kind EXCEPT ![p] = kind]
  OBVIOUS
<1>2. PICK statuses : statuses = [d.status EXCEPT ![p] = status]
  OBVIOUS
<1>3. kinds[p] = kind /\ statuses[p] = status
      /\ \A q \in People : q # p => kinds[q] = d.kind[q] /\ statuses[q] = d.status[q]
  BY <1>1, <1>2, Tables DEF Turn, KindTable, StatusTable
<1>4. /\ e.app = d.app /\ e.kind = kinds /\ e.status = statuses /\ e.factor = d.factor
      /\ e.members = d.members /\ e.grant = d.grant
  BY <1>1, <1>2, WithIs
<1>5. Head(i.todo)[1] = "person" /\ Head(i.todo)[2] = p
  OBVIOUS
<1>6. /\ PersonOK(d, i, S, F, D, p) /\ Stepped(F, i, j, first) /\ DescribesPerson(S, F, D, p)
       /\ i # None /\ i.before.factor = D.factor /\ j.before = i.before
  BY DEF Turn, OnTheWay, Describes, Stepped
<1>7. kind = S.kind[p] /\ status = S.status[p]
  <2>1. S.kind[p] = IF KindOf(F, D, p) # None THEN KindOf(F, D, p) ELSE D.kind[p]
    BY <1>6 DEF DescribesPerson
  <2>2. S.kind[p] # None /\ S.status[p] = StatusOf(F, D, p)
    BY <1>6 DEF DescribesPerson
  <2>3. \/ d.kind[p] = D.kind[p] /\ d.status[p] = D.status[p]
        \/ d.kind[p] = S.kind[p] /\ d.status[p] = S.status[p]
    BY <1>6 DEF PersonOK
  <2>4. CASE i.before.kind[p] = D.kind[p]
    <3>1. decided = KindOf(F, D, p)
      BY <1>6, <2>4 DEF KindOf
    <3>2. D.kind[p] = None => decided # None
      BY <3>1, KindIsThere
    <3>3. kind = S.kind[p]
      BY <2>1, <2>3, <3>1, <3>2
    <3>4. D.kind[p] # None => S.status[p] = D.status[p] /\ d.kind[p] # None
      BY <2>2, <2>3 DEF StatusOf
    <3>5. status = S.status[p]
      BY <2>2, <2>3, <3>4 DEF StatusOf
    <3> QED BY <3>3, <3>5
  <2>5. CASE i.before.kind[p] = S.kind[p] /\ d.kind[p] = S.kind[p] /\ d.status[p] = S.status[p]
    <3>1. decided = KindOf(F, i.before, p)
      OBVIOUS
    <3>2. decided # None => F.kind[p] = S.kind[p] /\ decided = F.kind[p]
      <4>1. ASSUME decided # None
            PROVE  /\ S.kind[p] # "owner" /\ F.kind[p] # "owner" /\ decided = F.kind[p]
                   /\ ~ (MustHoldFactor(F.kind[p]) /\ p \notin D.factor)
        BY <1>6, <2>2, <2>5, <4>1 DEF KindOf
      <4>2. ASSUME decided # None, D.kind[p] # "owner" PROVE KindOf(F, D, p) = F.kind[p]
        BY <4>1, <4>2 DEF KindOf
      <4>3. ASSUME D.kind[p] = "owner" PROVE S.kind[p] = "owner"
        <5>1. KindOf(F, D, p) = None
          BY <4>3 DEF KindOf
        <5> QED BY <2>1, <4>3, <5>1
      <4> QED BY <2>1, <4>1, <4>2, <4>3
    <3> QED BY <2>2, <2>5, <3>2
  <2> QED BY <1>6, <2>4, <2>5 DEF PersonOK
<1>8. ASSUME NEW q \in People PROVE PersonOK(e, j, S, F, D, q)
  <2>1. CASE q # p
    BY <1>3, <1>4, <1>5, <2>1, PersonKept
  <2>2. CASE q = p
    <3>1. e.kind[p] = S.kind[p] /\ e.status[p] = S.status[p]
      BY <1>3, <1>7, <1>4
    <3>2. i.before.kind[p] = D.kind[p] \/ i.before.kind[p] = S.kind[p]
      BY <1>6 DEF PersonOK
    <3> QED BY <1>6, <2>2, <3>1, <3>2 DEF PersonOK
  <2> QED BY <2>1, <2>2
<1>9. \A a \in Apps : AppOK(e, j, F, D, a)
  BY <1>4, <1>5, AppKept
<1>10. \A g \in Groups : MembersOK(e, j, S, F, D, g)
  BY <1>4, <1>5, MembersKept
<1>11. \A h \in Holders, b \in Apps : GrantOK(e, j, S, F, D, h, b)
  BY <1>4, <1>5, GrantKept
<1>12. /\ HeadOK(e, j, S, F) /\ e.factor = D.factor /\ (j # None => j.before.factor = D.factor)
  BY <1>4, NoHalfLeft, FactorsKept
<1> QED BY <1>8, <1>9, <1>10, <1>11, <1>12 DEF OnTheWay

\* A grant is skipped only for an app that the file does not describe either.
LEMMA NoGrantOnTheWay ==
    ASSUME NEW S, NEW F, NEW D, NEW d, NEW i, NEW j, NEW first, first = <<>>,
           Turn(S, F, D, d, i, j, first),
           NEW h \in Holders, NEW a \in Apps, Head(i.todo) = <<"grant", h, a>>, d.app[a] = None
    PROVE  OnTheWay(d, j, S, F, D)
<1>1. Head(i.todo)[1] = "grant" /\ Head(i.todo)[2] = h /\ Head(i.todo)[3] = a
  OBVIOUS
<1>2. d.app[a] = S.app[a]
  <2>1. Phase(Head(i.todo)) >= 2
    BY <1>1 DEF Phase
  <2> QED BY <2>1, SettledBefore
<1>3. ~ Wanted(S, F, h, a)
  BY <1>2 DEF Wanted
<1>4. ASSUME NEW k \in Holders, NEW b \in Apps PROVE GrantOK(d, j, S, F, D, k, b)
  <2>1. CASE k = h /\ b = a
    <3>1. GrantOK(d, i, S, F, D, h, a)
      BY DEF Turn, OnTheWay
    <3> QED BY <1>3, <2>1, <3>1 DEF GrantOK
  <2>2. CASE k # h \/ b # a
    BY <1>1, <2>2, GrantKept
  <2> QED BY <2>1, <2>2
<1>5. \A b \in Apps : AppOK(d, j, F, D, b)
  BY <1>1, AppKept
<1>6. \A p \in People : PersonOK(d, j, S, F, D, p)
  BY <1>1, PersonKept
<1>7. \A g \in Groups : MembersOK(d, j, S, F, D, g)
  BY <1>1, MembersKept
<1>8. /\ HeadOK(d, j, S, F) /\ d.factor = D.factor /\ (j # None => j.before.factor = D.factor)
  BY NoHalfLeft, FactorsKept
<1> QED BY <1>4, <1>5, <1>6, <1>7, <1>8 DEF OnTheWay

\* From d to e one grant is written and nothing else.
GrantWritten(d, e, h, a, x) ==
    /\ e.app = d.app /\ e.kind = d.kind /\ e.status = d.status /\ e.factor = d.factor
    /\ e.members = d.members /\ e.grant[h][a] = x
    /\ \A k \in Holders, b \in Apps : k # h \/ b # a => e.grant[k][b] = d.grant[k][b]

\* The tables a write of a grant leaves.
LEMMA OneGrant ==
    ASSUME NEW d \in Configuration, NEW h \in Holders, NEW a \in Apps, NEW x,
           NEW e, e = With(d, d.app, d.kind, d.status, d.members,
                           [d.grant EXCEPT ![h] = [d.grant[h] EXCEPT ![a] = x]])
    PROVE  GrantWritten(d, e, h, a, x)
<1>1. PICK row : row = [d.grant[h] EXCEPT ![a] = x]
  OBVIOUS
<1>2. d.grant \in GrantTable /\ d.grant[h] \in Granted
  BY Tables DEF GrantTable
<1>3. row[a] = x /\ \A b \in Apps : b # a => row[b] = d.grant[h][b]
  BY <1>1, <1>2 DEF Granted
<1>4. PICK grant : grant = [d.grant EXCEPT ![h] = row]
  OBVIOUS
<1>5. grant[h] = row /\ \A k \in Holders : k # h => grant[k] = d.grant[k]
  BY <1>2, <1>4 DEF GrantTable
<1>6. /\ e.app = d.app /\ e.kind = d.kind /\ e.status = d.status /\ e.factor = d.factor
      /\ e.members = d.members /\ e.grant = grant
  BY <1>1, <1>4, WithIs
<1> QED BY <1>3, <1>5, <1>6 DEF GrantWritten

\* A grant is emptied, and the roles to be filled in are those the file describes: the apps are
\* settled by then.
LEMMA ReplacedOnTheWay ==
    ASSUME NEW S, NEW F, NEW D, NEW d, NEW i, NEW j, NEW first, Turn(S, F, D, d, i, j, first),
           NEW h \in Holders, NEW a \in Apps, Lists(F, h), F.grant[h][a] # None,
           Head(i.todo) = <<"grant", h, a>>, d.app[a] # None,
           first = <<<<"fill", h, a, F.grant[h][a] \cap d.app[a].roles>>>>,
           NEW e, GrantWritten(d, e, h, a, {})
    PROVE  OnTheWay(e, j, S, F, D)
<1>1. Head(i.todo)[1] = "grant" /\ Head(i.todo)[2] = h /\ Head(i.todo)[3] = a
  OBVIOUS
<1>2. d.app[a] = S.app[a]
  <2>1. Phase(Head(i.todo)) >= 2
    BY <1>1 DEF Phase
  <2> QED BY <2>1, SettledBefore
<1>3. Wanted(S, F, h, a)
  BY <1>2 DEF Wanted
<1>4. /\ e.app = d.app /\ e.kind = d.kind /\ e.status = d.status /\ e.factor = d.factor
      /\ e.members = d.members /\ e.grant[h][a] = {}
      /\ \A k \in Holders, b \in Apps : k # h \/ b # a => e.grant[k][b] = d.grant[k][b]
  BY DEF GrantWritten
<1>5. S.grant[h][a] = F.grant[h][a] \cap d.app[a].roles
  <2>1. Describes(S, F, D)
    BY DEF Turn
  <2>2. S.grant[h][a] = F.grant[h][a] \cap S.app[a].roles
    BY <1>3, <2>1 DEF Describes
  <2> QED BY <1>2, <2>2
<1>6. HeadNow(j, <<"fill", h, a, S.grant[h][a]>>)
  <2>1. Stepped(F, i, j, first)
    BY DEF Turn
  <2>2. PICK s : s = <<"fill", h, a, S.grant[h][a]>>
    OBVIOUS
  <2>3. first = <<s>>
    BY <1>5, <2>2
  <2>4. HeadNow(j, s)
    BY <2>1, <2>3, SteppedOn
  <2> QED BY <2>2, <2>4
<1>7. HeadOK(e, j, S, F)
  <2>1. Head(j.todo) = <<"fill", h, a, S.grant[h][a]>>
    BY <1>6 DEF HeadNow
  <2>2. \E k \in Holders, b \in Apps :
          Wanted(S, F, k, b) /\ e.grant[k][b] = {} /\ Head(j.todo) = <<"fill", k, b, S.grant[k][b]>>
    BY <1>3, <1>4, <2>1
  <2> QED BY <2>2 DEF HeadOK
<1>8. ASSUME NEW k \in Holders, NEW b \in Apps PROVE GrantOK(e, j, S, F, D, k, b)
  <2>1. CASE k = h /\ b = a
    BY <1>3, <1>6, <2>1 DEF GrantOK
  <2>2. CASE k # h \/ b # a
    <3>1. e.grant[k][b] = d.grant[k][b]
      BY <1>4, <2>2
    <3>2. Head(i.todo)[2] # k \/ Head(i.todo)[3] # b
      BY <1>1, <2>2
    <3> QED BY <3>1, <3>2, GrantKept
  <2> QED BY <2>1, <2>2
<1>9. \A b \in Apps : AppOK(e, j, F, D, b)
  BY <1>1, <1>4, AppKept
<1>10. \A p \in People : PersonOK(e, j, S, F, D, p)
  BY <1>1, <1>4, PersonKept
<1>11. \A g \in Groups : MembersOK(e, j, S, F, D, g)
  BY <1>1, <1>4, MembersKept
<1>12. e.factor = D.factor /\ (j # None => j.before.factor = D.factor)
  BY <1>4, FactorsKept
<1> QED BY <1>7, <1>8, <1>9, <1>10, <1>11, <1>12 DEF OnTheWay

\* A grant that is filled in is as the file describes.
LEMMA FilledOnTheWay ==
    ASSUME NEW S, NEW F, NEW D, NEW d, NEW i, NEW j, NEW first, first = <<>>,
           Turn(S, F, D, d, i, j, first),
           NEW h \in Holders, NEW a \in Apps, NEW roles \in SUBSET Roles,
           Head(i.todo) = <<"fill", h, a, roles>>,
           NEW e, NEW x, x = d.grant[h][a] \cup roles, GrantWritten(d, e, h, a, x)
    PROVE  OnTheWay(e, j, S, F, D)
<1>1. /\ Head(i.todo)[1] = "fill" /\ Head(i.todo)[2] = h /\ Head(i.todo)[3] = a
      /\ Head(i.todo)[4] = roles
  OBVIOUS
<1>2. d.grant[h][a] \cup roles = S.grant[h][a]
  <2>1. HeadOK(d, i, S, F) /\ i # None /\ i.todo # <<>>
    BY DEF Turn, OnTheWay, Stepped
  <2>2. Second(Head(i.todo))
    BY DEF Second
  <2>3. \/ \E k \in Holders, b \in Apps :
             d.grant[k][b] = {} /\ Head(i.todo) = <<"fill", k, b, S.grant[k][b]>>
        \/ \E g \in Groups : Head(i.todo) = <<"join", g, S.members[g]>>
    BY <2>1, <2>2 DEF HeadOK
  <2>4. ~ \E g \in Groups : Head(i.todo) = <<"join", g, S.members[g]>>
    BY <1>1
  <2>5. PICK k \in Holders, b \in Apps :
             d.grant[k][b] = {} /\ Head(i.todo) = <<"fill", k, b, S.grant[k][b]>>
    BY <2>3, <2>4
  <2>6. k = h /\ b = a /\ S.grant[k][b] = roles
    BY <1>1, <2>5
  <2> QED BY <2>5, <2>6
<1>3. /\ e.app = d.app /\ e.kind = d.kind /\ e.status = d.status /\ e.factor = d.factor
      /\ e.members = d.members /\ e.grant[h][a] = S.grant[h][a]
      /\ \A k \in Holders, b \in Apps : k # h \/ b # a => e.grant[k][b] = d.grant[k][b]
  BY <1>2 DEF GrantWritten
<1>4. ASSUME NEW k \in Holders, NEW b \in Apps PROVE GrantOK(e, j, S, F, D, k, b)
  <2>1. CASE k = h /\ b = a
    <3>1. GrantOK(d, i, S, F, D, h, a) /\ Wanted(S, F, h, a)
      <4>1. HeadOK(d, i, S, F) /\ i # None /\ i.todo # <<>> /\ GrantOK(d, i, S, F, D, h, a)
        BY DEF Turn, OnTheWay, Stepped
      <4>2. Second(Head(i.todo))
        BY DEF Second
      <4>3. \/ \E m \in Holders, c \in Apps :
                 Wanted(S, F, m, c) /\ Head(i.todo) = <<"fill", m, c, S.grant[m][c]>>
            \/ \E g \in Groups : Head(i.todo) = <<"join", g, S.members[g]>>
        BY <4>1, <4>2 DEF HeadOK
      <4>4. ~ \E g \in Groups : Head(i.todo) = <<"join", g, S.members[g]>>
        BY <1>1
      <4>5. PICK m \in Holders, c \in Apps :
                 Wanted(S, F, m, c) /\ Head(i.todo) = <<"fill", m, c, S.grant[m][c]>>
        BY <4>3, <4>4
      <4>6. m = h /\ c = a
        BY <1>1, <4>5
      <4> QED BY <4>1, <4>5, <4>6
    <3> QED BY <1>3, <2>1, <3>1 DEF GrantOK
  <2>2. CASE k # h \/ b # a
    <3>1. e.grant[k][b] = d.grant[k][b]
      BY <1>3, <2>2
    <3>2. Head(i.todo)[2] # k \/ Head(i.todo)[3] # b
      BY <1>1, <2>2
    <3> QED BY <3>1, <3>2, GrantKept
  <2> QED BY <2>1, <2>2
<1>5. \A b \in Apps : AppOK(e, j, F, D, b)
  BY <1>1, <1>3, AppKept
<1>6. \A p \in People : PersonOK(e, j, S, F, D, p)
  BY <1>1, <1>3, PersonKept
<1>7. \A g \in Groups : MembersOK(e, j, S, F, D, g)
  BY <1>1, <1>3, MembersKept
<1>8. HeadOK(e, j, S, F) /\ e.factor = D.factor /\ (j # None => j.before.factor = D.factor)
  BY <1>3, NoHalfLeft, FactorsKept
<1> QED BY <1>4, <1>5, <1>6, <1>7, <1>8 DEF OnTheWay

\* From d to e the members of one group are written and nothing else.
MembersWritten(d, e, g, x) ==
    /\ e.app = d.app /\ e.kind = d.kind /\ e.status = d.status /\ e.factor = d.factor
    /\ e.grant = d.grant /\ e.members[g] = x
    /\ \A q \in Groups : q # g => e.members[q] = d.members[q]

\* The tables a write of a group leaves.
LEMMA OneGroup ==
    ASSUME NEW d \in Configuration, NEW g \in Groups, NEW x,
           NEW e, e = With(d, d.app, d.kind, d.status, [d.members EXCEPT ![g] = x], d.grant)
    PROVE  MembersWritten(d, e, g, x)
<1>1. PICK members : members = [d.members EXCEPT ![g] = x]
  OBVIOUS
<1>2. d.members \in MemberTable
  BY Tables
<1>3. members[g] = x /\ \A q \in Groups : q # g => members[q] = d.members[q]
  BY <1>1, <1>2 DEF MemberTable
<1>4. /\ e.app = d.app /\ e.kind = d.kind /\ e.status = d.status /\ e.factor = d.factor
      /\ e.members = members /\ e.grant = d.grant
  BY <1>1, WithIs
<1> QED BY <1>3, <1>4 DEF MembersWritten

\* A write of one group leaves the rest on the way.
LEMMA GroupOnTheWay ==
    ASSUME NEW S, NEW F, NEW D, NEW d, NEW i, NEW j, NEW first, Turn(S, F, D, d, i, j, first),
           NEW g \in Groups, NEW x, NEW e, MembersWritten(d, e, g, x),
           Head(i.todo)[1] \in {"group", "clear", "join"}, Head(i.todo)[2] = g,
           MembersOK(e, j, S, F, D, g), HeadOK(e, j, S, F)
    PROVE  OnTheWay(e, j, S, F, D)
<1>1. /\ e.app = d.app /\ e.kind = d.kind /\ e.status = d.status /\ e.factor = d.factor
      /\ e.grant = d.grant /\ \A q \in Groups : q # g => e.members[q] = d.members[q]
  BY DEF MembersWritten
<1>2. ASSUME NEW q \in Groups PROVE MembersOK(e, j, S, F, D, q)
  <2>1. CASE q # g
    BY <1>1, <2>1, MembersKept
  <2> QED BY <2>1
<1>3. ASSUME NEW b \in Apps PROVE AppOK(e, j, F, D, b)
  <2>1. Head(i.todo)[1] \notin {"app", "role"}
    OBVIOUS
  <2> QED BY <1>1, <2>1, AppKept
<1>4. ASSUME NEW p \in People PROVE PersonOK(e, j, S, F, D, p)
  <2>1. Head(i.todo)[1] # "person"
    OBVIOUS
  <2> QED BY <1>1, <2>1, PersonKept
<1>5. ASSUME NEW h \in Holders, NEW b \in Apps PROVE GrantOK(e, j, S, F, D, h, b)
  <2>1. Head(i.todo)[1] \notin {"grant", "fill"}
    OBVIOUS
  <2>2. e.grant[h][b] = d.grant[h][b]
    BY <1>1
  <2> QED BY <2>1, <2>2, GrantKept
<1>6. e.factor = D.factor /\ (j # None => j.before.factor = D.factor)
  BY <1>1, FactorsKept
<1> QED BY <1>2, <1>3, <1>4, <1>5, <1>6 DEF OnTheWay

\* Creating a group changes no members that are settled.
LEMMA CreatedOnTheWay ==
    ASSUME NEW S, NEW F, NEW D, NEW d, NEW i, NEW j, NEW first, first = <<>>,
           Turn(S, F, D, d, i, j, first),
           NEW g \in Groups, F.members[g] # None, Head(i.todo) = <<"group", g>>,
           NEW x, x = IF d.members[g] = None THEN {} ELSE d.members[g],
           NEW e, MembersWritten(d, e, g, x)
    PROVE  OnTheWay(e, j, S, F, D)
<1>1. Head(i.todo)[1] = "group" /\ Head(i.todo)[2] = g
  OBVIOUS
<1>2. MembersOK(e, j, S, F, D, g)
  <2>1. Stepped(F, i, j, first) /\ MembersOK(d, i, S, F, D, g) /\ Describes(S, F, D) /\ F \in State
    BY DEF Turn, OnTheWay
  <2>2. \A s : ~ Pend(j, s) => ~ Pend(i, s) \/ s = Head(i.todo)
    BY <2>1, SteppedOn
  <2>3. <<"clear", g>>[1] # Head(i.todo)[1]
    BY <1>1
  <2>4. ~ Pend(j, <<"clear", g>>) => ~ Pend(i, <<"clear", g>>)
    BY <2>2, <2>3
  <2>5. ~ HeadNow(i, <<"join", g, S.members[g]>>)
    BY <1>1 DEF HeadNow
  <2>6. S.members[g] = F.members[g] \cap There(S)
    BY <2>1 DEF Describes
  <2>7. S.members[g] # None
    <3>1. S.members[g] \in SUBSET People
      BY <2>6 DEF There
    <3> QED BY <3>1, TransferAssumption
  <2>8. d.members[g] = S.members[g] => x = S.members[g]
    BY <2>7
  <2>9. e.members[g] = x
    BY DEF MembersWritten
  <2> QED BY <2>1, <2>4, <2>5, <2>8, <2>9 DEF MembersOK
<1>3. HeadOK(e, j, S, F)
  BY NoHalfLeft
<1> QED BY <1>1, <1>2, <1>3, GroupOnTheWay

\* A group is emptied, and those to join are whom the file describes: everybody is settled by then.
LEMMA ClearedOnTheWay ==
    ASSUME NEW S, NEW F, NEW D, NEW d, NEW i, NEW j, NEW first, Turn(S, F, D, d, i, j, first),
           NEW g \in Groups, F.members[g] # None, Head(i.todo) = <<"clear", g>>,
           first = <<<<"join", g, F.members[g] \cap There(d)>>>>,
           NEW x, x = IF d.members[g] = None THEN None ELSE {},
           NEW e, MembersWritten(d, e, g, x)
    PROVE  OnTheWay(e, j, S, F, D)
<1>1. Head(i.todo)[1] = "clear" /\ Head(i.todo)[2] = g
  OBVIOUS
<1>2. There(d) = There(S)
  <2>1. Phase(Head(i.todo)) >= 3
    BY <1>1 DEF Phase
  <2> QED BY <2>1, SettledBefore
<1>3. Describes(S, F, D) /\ Stepped(F, i, j, first)
  BY DEF Turn
<1>4. S.members[g] = F.members[g] \cap There(d)
  BY <1>2, <1>3 DEF Describes
<1>5. HeadNow(j, <<"join", g, S.members[g]>>)
  <2>1. PICK s : s = <<"join", g, S.members[g]>>
    OBVIOUS
  <2>2. first = <<s>>
    BY <1>4, <2>1
  <2>3. HeadNow(j, s)
    BY <1>3, <2>2, SteppedOn
  <2> QED BY <2>1, <2>3
<1>6. MembersOK(e, j, S, F, D, g)
  BY <1>5 DEF MembersOK
<1>7. HeadOK(e, j, S, F)
  <2>1. e.members[g] \in {None, {}}
    BY DEF MembersWritten
  <2>2. Head(j.todo) = <<"join", g, S.members[g]>>
    BY <1>5 DEF HeadNow
  <2>3. \E q \in Groups :
          F.members[q] # None /\ e.members[q] \in {None, {}} /\ Head(j.todo) = <<"join", q, S.members[q]>>
    BY <2>1, <2>2
  <2> QED BY <2>3 DEF HeadOK
<1> QED BY <1>1, <1>6, <1>7, GroupOnTheWay

\* A group that is filled is as the file describes.
LEMMA AddedOnTheWay ==
    ASSUME NEW S, NEW F, NEW D, NEW d, NEW i, NEW j, NEW first, first = <<>>,
           Turn(S, F, D, d, i, j, first),
           NEW g \in Groups, NEW found \in SUBSET People, Head(i.todo) = <<"join", g, found>>,
           d.members[g] # None,
           NEW x, x = d.members[g] \cup found,
           NEW e, MembersWritten(d, e, g, x)
    PROVE  OnTheWay(e, j, S, F, D)
<1>1. Head(i.todo)[1] = "join" /\ Head(i.todo)[2] = g /\ Head(i.todo)[3] = found
  OBVIOUS
<1>2. x = S.members[g] /\ F.members[g] # None
  <2>1. HeadOK(d, i, S, F) /\ i # None /\ i.todo # <<>>
    BY DEF Turn, OnTheWay, Stepped
  <2>2. Second(Head(i.todo))
    BY DEF Second
  <2>3. \/ \E k \in Holders, b \in Apps : Head(i.todo) = <<"fill", k, b, S.grant[k][b]>>
        \/ \E q \in Groups :
             F.members[q] # None /\ d.members[q] \in {None, {}} /\ Head(i.todo) = <<"join", q, S.members[q]>>
    BY <2>1, <2>2 DEF HeadOK
  <2>4. ~ \E k \in Holders, b \in Apps : Head(i.todo) = <<"fill", k, b, S.grant[k][b]>>
    BY <1>1
  <2>5. PICK q \in Groups :
             F.members[q] # None /\ d.members[q] \in {None, {}} /\ Head(i.todo) = <<"join", q, S.members[q]>>
    BY <2>3, <2>4
  <2>6. q = g /\ S.members[q] = found
    BY <1>1, <2>5
  <2> QED BY <2>5, <2>6
<1>3. MembersOK(e, j, S, F, D, g)
  BY <1>2 DEF MembersOK, MembersWritten
<1>4. HeadOK(e, j, S, F)
  BY NoHalfLeft
<1> QED BY <1>1, <1>3, <1>4, GroupOnTheWay

-----------------------------------------------------------------------------
(* A finished import has left what its file describes. *)
\* An import that is over leaves the instance on the way.
LEMMA Dropped ==
    ASSUME NEW S, NEW F, NEW D, NEW d, NEW i, OnTheWay(d, i, S, F, D)
    PROVE  OnTheWay(d, None, S, F, D)
<1>1. \A s : Pend(None, s)
  BY DEF Pend
<1>2. ASSUME NEW a \in Apps PROVE AppOK(d, None, F, D, a)
  <2>1. AppOK(d, i, F, D, a)
    BY DEF OnTheWay
  <2> QED BY <1>1, <2>1 DEF AppOK
<1>3. ASSUME NEW p \in People PROVE PersonOK(d, None, S, F, D, p)
  <2>1. PersonOK(d, i, S, F, D, p)
    BY DEF OnTheWay
  <2> QED BY <1>1, <2>1 DEF PersonOK
<1>4. ASSUME NEW g \in Groups PROVE MembersOK(d, None, S, F, D, g)
  <2>1. MembersOK(d, i, S, F, D, g)
    BY DEF OnTheWay
  <2> QED BY <1>1, <2>1 DEF MembersOK
<1>5. ASSUME NEW h \in Holders, NEW a \in Apps PROVE GrantOK(d, None, S, F, D, h, a)
  <2>1. GrantOK(d, i, S, F, D, h, a)
    BY DEF OnTheWay
  <2> QED BY <1>1, <2>1 DEF GrantOK
<1>6. d.factor = D.factor
  BY DEF OnTheWay
<1>7. HeadOK(d, None, S, F)
  BY DEF HeadOK
<1> QED BY <1>2, <1>3, <1>4, <1>5, <1>6, <1>7 DEF OnTheWay

\* The write whose turn it is, in an instance that is on the way.
LEMMA Turned ==
    ASSUME Typed, Settling, since # None, NEW first, GoesOn(first),
           first = <<>> \/ \E x : first = <<x>> /\ Second(x) /\ Phase(x) = Phase(Head(import.todo))
    PROVE  \E j : /\ Turn(Settled(since.file, since.db), since.file, since.db, db, import, j, first)
                  /\ import' = None \/ import' = j
<1>1. import # None /\ import.todo # <<>>
  BY DEF GoesOn
<1>2. PICK next : next = [serving |-> import.serving, file |-> import.file, before |-> import.before,
                          kinds |-> import.kinds, todo |-> first \o Tail(import.todo)]
  OBVIOUS
<1>3. import' = next /\ next.before = import.before /\ next.todo = first \o Tail(import.todo)
  BY <1>2 DEF GoesOn
<1>4. PICK j : /\ j # None /\ j.before = import.before /\ j.todo = first \o Tail(import.todo)
               /\ next = None \/ next = j
  <2>1. CASE next # None
    BY <1>3, <2>1
  <2>2. CASE next = None
    <3>1. PICK j : j = [before |-> import.before, todo |-> first \o Tail(import.todo)]
      OBVIOUS
    <3>2. j.before = import.before /\ j.todo = first \o Tail(import.todo)
      BY <3>1
    <3>3. DOMAIN j = {"before", "todo"}
      BY <3>1
    <3>4. "kinds" \in DOMAIN next
      BY <1>2
    <3>5. j # next
      BY <3>3, <3>4
    <3> QED BY <2>2, <3>2, <3>5
  <2> QED BY <2>1, <2>2
<1>5. /\ since.file \in State /\ since.db \in Configuration /\ import.file = since.file
      /\ TodoOK(since.file, import.todo) /\ db \in Configuration
  BY <1>1 DEF Typed, TypeOK
<1>6. Stepped(since.file, import, j, first)
  BY <1>1, <1>4, <1>5 DEF Stepped
<1>7. Describes(Settled(since.file, since.db), since.file, since.db)
  BY <1>5, SettledIs
<1>8. OnTheWay(db, import, Settled(since.file, since.db), since.file, since.db)
  BY DEF Settling
<1>9. Turn(Settled(since.file, since.db), since.file, since.db, db, import, j, first)
  BY <1>5, <1>6, <1>7, <1>8 DEF Turn
<1> QED BY <1>3, <1>4, <1>9

\* What is on the way after a write, the import going on or not.
LEMMA Arrived ==
    ASSUME since' = since, NEW j, import' = None \/ import' = j,
           OnTheWay(db', j, Settled(since.file, since.db), since.file, since.db)
    PROVE  Settling'
<1>1. OnTheWay(db', import', Settled(since.file, since.db), since.file, since.db)
  BY Dropped
<1> QED BY <1>1 DEF Settling

\* Writing an app or a role keeps the instance on the way.
LEMMA AppSettles ==
    ASSUME Typed, IInv, Settling, UpsertApp \/ UpsertRole, since # None PROVE Settling'
<1>1. PICK S, F, D : S = Settled(since.file, since.db) /\ F = since.file /\ D = since.db
  OBVIOUS
<1>2. CASE UpsertApp
  <2>1. PICK a \in Apps :
             /\ import.file.app[a] # None /\ Head(import.todo) = <<"app", a>> /\ GoesOn(<<>>)
             /\ db' = With(db, [db.app EXCEPT ![a] = [roles |-> Had(db, a),
                                                      enabled |-> import.file.app[a].enabled]],
                           db.kind, db.status, db.members, db.grant)
    BY <1>2, AppIsWritten
  <2>2. import.file = F /\ since' = since
    BY <1>1, <2>1 DEF GoesOn, Typed
  <2>3. PICK first : first = <<>>
    OBVIOUS
  <2>4. PICK j : Turn(S, F, D, db, import, j, first) /\ (import' = None \/ import' = j)
    BY <1>1, <2>1, <2>3, Turned
  <2>5. PICK e : e = db'
    OBVIOUS
  <2>6. e = With(db, [db.app EXCEPT ![a] = [roles |-> Had(db, a), enabled |-> F.app[a].enabled]],
                 db.kind, db.status, db.members, db.grant)
    BY <2>1, <2>2, <2>5
  <2>7. OnTheWay(e, j, S, F, D)
    BY <2>1, <2>2, <2>3, <2>4, <2>6, AppOnTheWay
  <2> QED BY <1>1, <2>2, <2>4, <2>5, <2>7, Arrived
<1>3. CASE UpsertRole
  <2>1. PICK a \in Apps : \E r \in import.file.app[a].roles :
             /\ import.file.app[a] # None /\ Head(import.todo) = <<"role", a, r>> /\ GoesOn(<<>>)
             /\ db.app[a] # None
             /\ db' = With(db, [db.app EXCEPT ![a] = [roles |-> db.app[a].roles \cup {r},
                                                      enabled |-> db.app[a].enabled]],
                           db.kind, db.status, db.members, db.grant)
    BY <1>3, RoleIsWritten
  <2>2. GoesOn(<<>>)
    BY <2>1
  <2>3. import.file = F /\ since' = since
    BY <1>1, <2>2 DEF GoesOn, Typed
  <2>4. PICK r \in F.app[a].roles :
             /\ F.app[a] # None /\ Head(import.todo) = <<"role", a, r>>
             /\ db.app[a] # None
             /\ db' = With(db, [db.app EXCEPT ![a] = [roles |-> db.app[a].roles \cup {r},
                                                      enabled |-> db.app[a].enabled]],
                           db.kind, db.status, db.members, db.grant)
    BY <2>1, <2>3
  <2>5. PICK first : first = <<>>
    OBVIOUS
  <2>6. PICK j : Turn(S, F, D, db, import, j, first) /\ (import' = None \/ import' = j)
    BY <1>1, <2>2, <2>5, Turned
  <2>7. PICK e : e = db'
    OBVIOUS
  <2>8. e = With(db, [db.app EXCEPT ![a] = [roles |-> db.app[a].roles \cup {r},
                                            enabled |-> db.app[a].enabled]],
                 db.kind, db.status, db.members, db.grant)
    BY <2>4, <2>7
  <2>9. OnTheWay(e, j, S, F, D)
    BY <2>4, <2>5, <2>6, <2>8, RoleOnTheWay
  <2> QED BY <1>1, <2>3, <2>6, <2>7, <2>9, Arrived
<1> QED BY <1>2, <1>3

\* Writing somebody keeps the instance on the way.
LEMMA PersonSettles ==
    ASSUME Typed, IInv, Settling, UpsertPerson, since # None PROVE Settling'
<1>1. PICK S, F, D : S = Settled(since.file, since.db) /\ F = since.file /\ D = since.db
  OBVIOUS
<1>2. PICK p \in People :
             /\ import.file.kind[p] # None /\ Head(import.todo) = <<"person", p>> /\ GoesOn(<<>>)
             /\ LET decided == import.kinds[p]
                    kind == IF decided # None THEN decided
                            ELSE IF db.kind[p] = None THEN "guest" ELSE db.kind[p]
                    status == IF db.kind[p] # None THEN db.status[p]
                              ELSE IF import.file.status[p] = "suspended" THEN "suspended" ELSE "invited"
                IN  db' = With(db, db.app, [db.kind EXCEPT ![p] = kind], [db.status EXCEPT ![p] = status],
                               db.members, db.grant)
  BY PersonIsWritten
<1>3. import.file = F /\ since' = since
  BY <1>1, <1>2 DEF GoesOn, Typed
<1>4. PICK first : first = <<>>
  OBVIOUS
<1>5. PICK j : Turn(S, F, D, db, import, j, first) /\ (import' = None \/ import' = j)
  BY <1>1, <1>2, <1>4, Turned
<1>6. PICK decided : decided = import.kinds[p]
  OBVIOUS
<1>7. decided = KindOf(F, import.before, p)
  <2>1. import.kinds = DecideKinds(F, import.before)
    BY <1>2, <1>3 DEF IInv, ImportOK, GoesOn
  <2> QED BY <1>6, <2>1, KindDecided
<1>8. PICK kind : kind = IF decided # None THEN decided
                         ELSE IF db.kind[p] = None THEN "guest" ELSE db.kind[p]
  OBVIOUS
<1>9. PICK status : status = IF db.kind[p] # None THEN db.status[p]
                             ELSE IF F.status[p] = "suspended" THEN "suspended" ELSE "invited"
  OBVIOUS
<1>10. PICK e : e = db'
  OBVIOUS
<1>11. e = With(db, db.app, [db.kind EXCEPT ![p] = kind], [db.status EXCEPT ![p] = status],
                db.members, db.grant)
  BY <1>2, <1>3, <1>6, <1>8, <1>9, <1>10
<1>12. OnTheWay(e, j, S, F, D)
  BY <1>2, <1>3, <1>4, <1>5, <1>7, <1>8, <1>9, <1>11, PersonOnTheWay
<1> QED BY <1>1, <1>3, <1>5, <1>10, <1>12, Arrived

\* Writing a grant, either half, keeps the instance on the way.
LEMMA GrantSettles ==
    ASSUME Typed, IInv, Settling, ReplaceGrant \/ FillGrant, since # None PROVE Settling'
<1>1. PICK S, F, D : S = Settled(since.file, since.db) /\ F = since.file /\ D = since.db
  OBVIOUS
<1>2. PICK e : e = db'
  OBVIOUS
<1>3. db \in Configuration
  BY DEF Typed, TypeOK
<1>4. CASE ReplaceGrant
  <2>1. PICK h \in Holders, a \in Apps :
             /\ Lists(import.file, h) /\ import.file.grant[h][a] # None
             /\ Head(import.todo) = <<"grant", h, a>>
             /\ \/ db.app[a] = None /\ db' = db /\ GoesOn(<<>>)
                \/ /\ db.app[a] # None
                   /\ GoesOn(<<<<"fill", h, a, import.file.grant[h][a] \cap db.app[a].roles>>>>)
                   /\ db' = With(db, db.app, db.kind, db.status, db.members,
                                 [db.grant EXCEPT ![h] = [db.grant[h] EXCEPT ![a] = {}]])
    BY <1>4, GrantIsReplaced
  <2>2. CASE db.app[a] = None
    <3>1. PICK first : first = <<>>
      OBVIOUS
    <3>2. db' = db /\ GoesOn(first)
      BY <2>1, <2>2, <3>1
    <3>3. since' = since
      BY <3>2 DEF GoesOn
    <3>4. PICK j : Turn(S, F, D, db, import, j, first) /\ (import' = None \/ import' = j)
      BY <1>1, <3>1, <3>2, Turned
    <3>5. OnTheWay(db, j, S, F, D)
      BY <2>1, <2>2, <3>1, <3>4, NoGrantOnTheWay
    <3> QED BY <1>1, <3>2, <3>3, <3>4, <3>5, Arrived
  <2>3. CASE db.app[a] # None
    <3>1. PICK roles : roles = import.file.grant[h][a] \cap db.app[a].roles
      OBVIOUS
    <3>2. PICK s : s = <<"fill", h, a, roles>>
      OBVIOUS
    <3>3. PICK first : first = <<s>>
      OBVIOUS
    <3>4. GoesOn(first)
          /\ db' = With(db, db.app, db.kind, db.status, db.members,
                                 [db.grant EXCEPT ![h] = [db.grant[h] EXCEPT ![a] = {}]])
      BY <2>1, <2>3, <3>1, <3>2, <3>3
    <3>5. Second(s)
      <4>1. roles \in SUBSET Roles
        <5>1. db.app[a] \in AppData
          BY <1>3, <2>3, Tables DEF AppTable
        <5> QED BY <3>1, <5>1 DEF AppData
      <4> QED BY <3>2, <4>1 DEF Second
    <3>6. Phase(s) = Phase(Head(import.todo))
      BY <2>1, <3>2 DEF Phase
    <3>7. PICK j : Turn(S, F, D, db, import, j, first) /\ (import' = None \/ import' = j)
      BY <1>1, <3>3, <3>4, <3>5, <3>6, Turned
    <3>8. import.file = F /\ since' = since
      BY <1>1, <3>4 DEF GoesOn, Typed
    <3>9. PICK none : none = {}
      OBVIOUS
    <3>10. GrantWritten(db, e, h, a, none)
      <4>1. e = With(db, db.app, db.kind, db.status, db.members,
                     [db.grant EXCEPT ![h] = [db.grant[h] EXCEPT ![a] = none]])
        BY <1>2, <3>4, <3>9
      <4> QED BY <1>3, <4>1, OneGrant
    <3>11. GrantWritten(db, e, h, a, {})
      BY <3>9, <3>10
    <3>12. Lists(F, h) /\ F.grant[h][a] # None
           /\ first = <<<<"fill", h, a, F.grant[h][a] \cap db.app[a].roles>>>>
      BY <2>1, <3>1, <3>2, <3>3, <3>8
    <3>13. OnTheWay(e, j, S, F, D)
      BY <2>1, <2>3, <3>7, <3>11, <3>12, ReplacedOnTheWay
    <3> QED BY <1>1, <1>2, <3>7, <3>8, <3>13, Arrived
  <2> QED BY <2>2, <2>3
<1>5. CASE FillGrant
  <2>1. PICK h \in Holders, a \in Apps, roles \in SUBSET Roles :
             /\ Head(import.todo) = <<"fill", h, a, roles>> /\ GoesOn(<<>>)
             /\ db' = With(db, db.app, db.kind, db.status, db.members,
                  [db.grant EXCEPT ![h] = [db.grant[h] EXCEPT ![a] = db.grant[h][a] \cup roles]])
    BY <1>5, GrantIsFilled
  <2>2. PICK first : first = <<>>
    OBVIOUS
  <2>3. PICK j : Turn(S, F, D, db, import, j, first) /\ (import' = None \/ import' = j)
    BY <1>1, <2>1, <2>2, Turned
  <2>4. since' = since
    BY <2>1 DEF GoesOn
  <2>5. PICK x : x = db.grant[h][a] \cup roles
    OBVIOUS
  <2>6. GrantWritten(db, e, h, a, x)
    <3>1. e = With(db, db.app, db.kind, db.status, db.members,
                   [db.grant EXCEPT ![h] = [db.grant[h] EXCEPT ![a] = x]])
      BY <1>2, <2>1, <2>5
    <3> QED BY <1>3, <3>1, OneGrant
  <2>7. OnTheWay(e, j, S, F, D)
    BY <2>1, <2>2, <2>3, <2>5, <2>6, FilledOnTheWay
  <2> QED BY <1>1, <1>2, <2>3, <2>4, <2>7, Arrived
<1> QED BY <1>4, <1>5

\* Writing a group, or either half of its members, keeps the instance on the way.
LEMMA GroupSettles ==
    ASSUME Typed, IInv, Settling, UpsertGroup \/ ClearMembers \/ AddMembers, since # None
    PROVE  Settling'
<1>1. PICK S, F, D : S = Settled(since.file, since.db) /\ F = since.file /\ D = since.db
  OBVIOUS
<1>2. PICK e : e = db'
  OBVIOUS
<1>3. db \in Configuration
  BY DEF Typed, TypeOK
<1>4. CASE UpsertGroup
  <2>1. PICK g \in Groups :
             /\ import.file.members[g] # None /\ Head(import.todo) = <<"group", g>> /\ GoesOn(<<>>)
             /\ db' = With(db, db.app, db.kind, db.status,
                           [db.members EXCEPT ![g] = IF db.members[g] = None THEN {} ELSE db.members[g]],
                           db.grant)
    BY <1>4, GroupIsWritten
  <2>2. PICK first : first = <<>>
    OBVIOUS
  <2>3. PICK j : Turn(S, F, D, db, import, j, first) /\ (import' = None \/ import' = j)
    BY <1>1, <2>1, <2>2, Turned
  <2>4. import.file = F /\ since' = since
    BY <1>1, <2>1 DEF GoesOn, Typed
  <2>5. PICK x : x = IF db.members[g] = None THEN {} ELSE db.members[g]
    OBVIOUS
  <2>6. MembersWritten(db, e, g, x)
    <3>1. e = With(db, db.app, db.kind, db.status, [db.members EXCEPT ![g] = x], db.grant)
      BY <1>2, <2>1, <2>5
    <3> QED BY <1>3, <3>1, OneGroup
  <2>7. OnTheWay(e, j, S, F, D)
    BY <2>1, <2>2, <2>3, <2>4, <2>5, <2>6, CreatedOnTheWay
  <2> QED BY <1>1, <1>2, <2>3, <2>4, <2>7, Arrived
<1>5. CASE ClearMembers
  <2>1. PICK g \in Groups :
             /\ import.file.members[g] # None /\ Head(import.todo) = <<"clear", g>>
             /\ GoesOn(<<<<"join", g, import.file.members[g] \cap There(db)>>>>)
             /\ db' = With(db, db.app, db.kind, db.status,
                           [db.members EXCEPT ![g] = IF db.members[g] = None THEN None ELSE {}],
                           db.grant)
    BY <1>5, MembersAreCleared
  <2>2. PICK found : found = import.file.members[g] \cap There(db)
    OBVIOUS
  <2>3. PICK s : s = <<"join", g, found>>
    OBVIOUS
  <2>4. PICK first : first = <<s>>
    OBVIOUS
  <2>5. GoesOn(first)
    BY <2>1, <2>2, <2>3, <2>4
  <2>6. Second(s)
    <3>1. found \in SUBSET People
      BY <2>2 DEF There
    <3> QED BY <2>3, <3>1 DEF Second
  <2>7. Phase(s) = Phase(Head(import.todo))
    BY <2>1, <2>3 DEF Phase
  <2>8. PICK j : Turn(S, F, D, db, import, j, first) /\ (import' = None \/ import' = j)
    BY <1>1, <2>4, <2>5, <2>6, <2>7, Turned
  <2>9. import.file = F /\ since' = since
    BY <1>1, <2>5 DEF GoesOn, Typed
  <2>10. PICK x : x = IF db.members[g] = None THEN None ELSE {}
    OBVIOUS
  <2>11. MembersWritten(db, e, g, x)
    <3>1. e = With(db, db.app, db.kind, db.status, [db.members EXCEPT ![g] = x], db.grant)
      BY <1>2, <2>1, <2>10
    <3> QED BY <1>3, <3>1, OneGroup
  <2>12. F.members[g] # None /\ first = <<<<"join", g, F.members[g] \cap There(db)>>>>
    BY <2>1, <2>2, <2>3, <2>4, <2>9
  <2>13. OnTheWay(e, j, S, F, D)
    BY <2>1, <2>8, <2>10, <2>11, <2>12, ClearedOnTheWay
  <2> QED BY <1>1, <1>2, <2>8, <2>9, <2>13, Arrived
<1>6. CASE AddMembers
  <2>1. PICK g \in Groups, found \in SUBSET People :
             /\ Head(import.todo) = <<"join", g, found>> /\ GoesOn(<<>>)
             /\ db.members[g] # None
             /\ db' = With(db, db.app, db.kind, db.status,
                           [db.members EXCEPT ![g] = db.members[g] \cup found], db.grant)
    BY <1>6, MembersAreAdded
  <2>2. PICK first : first = <<>>
    OBVIOUS
  <2>3. PICK j : Turn(S, F, D, db, import, j, first) /\ (import' = None \/ import' = j)
    BY <1>1, <2>1, <2>2, Turned
  <2>4. since' = since
    BY <2>1 DEF GoesOn
  <2>5. PICK x : x = db.members[g] \cup found
    OBVIOUS
  <2>6. MembersWritten(db, e, g, x)
    <3>1. e = With(db, db.app, db.kind, db.status, [db.members EXCEPT ![g] = x], db.grant)
      BY <1>2, <2>1, <2>5
    <3> QED BY <1>3, <3>1, OneGroup
  <2>7. OnTheWay(e, j, S, F, D)
    BY <2>1, <2>2, <2>3, <2>5, <2>6, AddedOnTheWay
  <2> QED BY <1>1, <1>2, <2>3, <2>4, <2>7, Arrived
<1> QED BY <1>4, <1>5, <1>6

\* Every write of an import keeps the instance on the way.
LEMMA StepSettles ==
    ASSUME Typed, IInv, Settling, ImportStep PROVE Settling'
<1>1. CASE since # None
  BY <1>1, AppSettles, PersonSettles, GrantSettles, GroupSettles DEF ImportStep
<1>2. CASE since = None
  <2>1. since' = since
    BY DEF ImportStep, UpsertApp, UpsertRole, UpsertPerson, ReplaceGrant, FillGrant, UpsertGroup,
           ClearMembers, AddMembers, Written
  <2> QED BY <1>2, <2>1 DEF Settling
<1> QED BY <1>1, <1>2

\* Nothing is written yet.
LEMMA AtFirst ==
    ASSUME NEW S, NEW F, NEW D PROVE OnTheWay(D, None, S, F, D)
<1>1. \A s : Pend(None, s)
  BY DEF Pend
<1>2. ASSUME NEW a \in Apps PROVE AppOK(D, None, F, D, a)
  BY <1>1 DEF AppOK, Had
<1>3. ASSUME NEW p \in People PROVE PersonOK(D, None, S, F, D, p)
  BY <1>1 DEF PersonOK
<1>4. ASSUME NEW g \in Groups PROVE MembersOK(D, None, S, F, D, g)
  BY <1>1 DEF MembersOK
<1>5. ASSUME NEW h \in Holders, NEW a \in Apps PROVE GrantOK(D, None, S, F, D, h, a)
  BY <1>1 DEF GrantOK
<1>6. HeadOK(D, None, S, F)
  BY DEF HeadOK
<1> QED BY <1>2, <1>3, <1>4, <1>5, <1>6 DEF OnTheWay

\* A plan that lists every row of the file is on the way when the instance is.
LEMMA PlannedOnTheWay ==
    ASSUME NEW F \in State, NEW D, NEW S, NEW d, OnTheWay(d, None, S, F, D),
           NEW i, i.todo = Script(F), i.before = d
    PROVE  OnTheWay(d, i, S, F, D)
<1>1. \A s : FileRow(F, s) => Pend(i, s)
  BY Scripted DEF Pend
<1>2. ASSUME NEW a \in Apps PROVE AppOK(d, i, F, D, a)
  <2>1. AppOK(d, None, F, D, a)
    BY DEF OnTheWay
  <2>2. CASE F.app[a] = None
    BY <2>1, <2>2 DEF AppOK
  <2>3. CASE F.app[a] # None
    <3>1. AppRow(F, <<"app", a>>)
      BY <2>3 DEF AppRow
    <3>2. ASSUME NEW r \in F.app[a].roles PROVE AppRow(F, <<"role", a, r>>)
      BY <2>3 DEF AppRow
    <3>3. Pend(i, <<"app", a>>) /\ \A r \in F.app[a].roles : Pend(i, <<"role", a, r>>)
      BY <1>1, <3>1, <3>2 DEF FileRow
    <3> QED BY <2>1, <2>3, <3>3 DEF AppOK
  <2> QED BY <2>2, <2>3
<1>3. ASSUME NEW p \in People PROVE PersonOK(d, i, S, F, D, p)
  <2>1. PersonOK(d, None, S, F, D, p)
    BY DEF OnTheWay
  <2>2. F.kind[p] # None => Pend(i, <<"person", p>>)
    <3>1. F.kind[p] # None => PersonRow(F, <<"person", p>>)
      BY DEF PersonRow
    <3> QED BY <1>1, <3>1 DEF FileRow
  <2> QED BY <2>1, <2>2 DEF PersonOK
<1>4. ASSUME NEW g \in Groups PROVE MembersOK(d, i, S, F, D, g)
  <2>1. MembersOK(d, None, S, F, D, g)
    BY DEF OnTheWay
  <2>2. F.members[g] # None => Pend(i, <<"clear", g>>)
    <3>1. F.members[g] # None => GroupRow(F, <<"clear", g>>)
      BY DEF GroupRow
    <3> QED BY <1>1, <3>1 DEF FileRow
  <2> QED BY <2>1, <2>2 DEF MembersOK
<1>5. ASSUME NEW h \in Holders, NEW a \in Apps PROVE GrantOK(d, i, S, F, D, h, a)
  <2>1. GrantOK(d, None, S, F, D, h, a)
    BY DEF OnTheWay
  <2>2. Wanted(S, F, h, a) => Pend(i, <<"grant", h, a>>)
    <3>1. Wanted(S, F, h, a) => GrantRow(F, <<"grant", h, a>>)
      BY DEF Wanted, GrantRow
    <3> QED BY <1>1, <3>1 DEF FileRow
  <2> QED BY <2>1, <2>2 DEF GrantOK
<1>6. HeadOK(d, i, S, F)
  <2>1. ASSUME i.todo # <<>> PROVE ~ Second(Head(i.todo))
    <3>1. PICK q : q = Script(F)
      OBVIOUS
    <3>2. TodoOK(F, q) /\ (\A s : Holds(q, s) <=> FileRow(F, s)) /\ q # <<>> /\ q = i.todo
      BY <2>1, <3>1, Scripted
    <3>3. PICK X : q \in Seq(X)
      BY <3>2 DEF TodoOK
    <3>4. 1 \in 1..Len(q) /\ Head(q) = q[1]
      BY <3>2, <3>3
    <3>5. FileRow(F, Head(q))
      BY <3>2, <3>4 DEF Holds
    <3> QED BY <3>2, <3>5, SecondsApart
  <2> QED BY <2>1 DEF HeadOK
<1>7. d.factor = D.factor /\ (i # None => i.before.factor = D.factor)
  BY DEF OnTheWay
<1> QED BY <1>2, <1>3, <1>4, <1>5, <1>6, <1>7 DEF OnTheWay

\* A plan starts on the way, also over what an earlier import of the same file left.
LEMMA PlanSettles ==
    ASSUME Typed, Settling, NEW serving, Plan(serving) PROVE Settling'
<1>1. file \in State /\ import = None /\ db' = db
  BY DEF Plan, Typed, TypeOK
<1>2. import'.todo = Script(file) /\ import'.before = db
  BY DEF Plan
<1>3. PICK i : i = import'
  OBVIOUS
<1>4. PICK F, D, d : F = since'.file /\ D = since'.db /\ d = db
  OBVIOUS
<1>5. F = file /\ OnTheWay(d, None, Settled(F, D), F, D)
  <2>1. CASE since # None /\ since.file = file
    <3>1. since' = since
      BY <2>1 DEF Plan
    <3> QED BY <1>1, <1>4, <2>1, <3>1 DEF Settling
  <2>2. CASE ~ (since # None /\ since.file = file)
    <3>1. since' = [file |-> file, db |-> db]
      BY <2>2 DEF Plan
    <3>2. F = file /\ D = d
      BY <1>4, <3>1
    <3> QED BY <3>2, AtFirst
  <2> QED BY <2>1, <2>2
<1>6. OnTheWay(d, i, Settled(F, D), F, D)
  <2>1. i.todo = Script(F) /\ i.before = d /\ F \in State
    BY <1>1, <1>2, <1>3, <1>4, <1>5
  <2> QED BY <1>5, <2>1, PlannedOnTheWay
<1> QED BY <1>1, <1>3, <1>4, <1>6 DEF Settling

\* Half way through an import, stopped or not, the instance is on the way to what its file
\* describes, as long as nothing else writes.
LEMMA AllSettling == Spec => []Settling
<1>1. Init => Settling
  BY DEF Init, Settling
<1>2. IInv /\ Typed /\ Settling /\ [Next]_vars => Settling'
  <2> SUFFICES ASSUME IInv, Typed, Settling, [Next]_vars PROVE Settling'
    OBVIOUS
  <2>1. CASE ImportStep
    BY <2>1, StepSettles
  <2>2. CASE Edit
    <3>1. since' = None
      BY <2>2 DEF Edit, ClaimOwner, ChangeStatus, ChangeFactor, Purge, ChangeKind, ChangeGrant, RemoveRole,
                  DeleteApp, ChangeMembers, Edited
    <3> QED BY <3>1 DEF Settling
  <2>3. CASE ImportRoute \/ ImportOnHost \/ SeedOnBoot
    BY <2>3, PlanSettles DEF ImportRoute, ImportOnHost, SeedOnBoot
  <2>4. CASE Finish \/ Stop
    <3>1. import' = None /\ db' = db /\ since' = since
      BY <2>4 DEF Finish, Stop
    <3>2. since # None =>
            OnTheWay(db', None, Settled(since.file, since.db), since.file, since.db)
      BY <3>1, Dropped DEF Settling
    <3> QED BY <3>1, <3>2 DEF Settling
  <2>5. CASE (\E part \in Parts : ExportRead(part)) \/ ExportDone
    BY <2>5 DEF ExportRead, ExportDone, Settling
  <2>6. CASE \E f \in Files : Choose(f)
    BY <2>6 DEF Choose, Settling
  <2>7. CASE UNCHANGED vars
    BY <2>7 DEF vars, Settling
  <2> QED BY <2>1, <2>2, <2>3, <2>4, <2>5, <2>6, <2>7 DEF Next
<1> QED BY <1>1, <1>2, InductiveInvariant, AllTyped, PTL DEF Spec

\* A finished import has left what its file describes over the database it was first started
\* on, however often it stopped half way and was started again, provided nothing else has
\* written since (state.ts 297-410, seed.ts 10).
THEOREM ImportsSettleAsDescribed == Spec => []SettlesAsDescribed
<1>1. Typed /\ Settling => SettlesAsDescribed
  <2> SUFFICES ASSUME Typed, Settling, import # None, import.todo = <<>>, since # None
               PROVE  db = Settled(since.file, since.db)
    BY DEF SettlesAsDescribed
  <2>1. since.file \in State /\ since.db \in Configuration /\ db \in Configuration
    BY DEF Typed, TypeOK
  <2>2. PICK S : S = Settled(since.file, since.db)
    OBVIOUS
  <2>3. Describes(S, since.file, since.db)
    BY <2>1, <2>2, SettledIs
  <2>4. OnTheWay(db, import, S, since.file, since.db)
    BY <2>2 DEF Settling
  <2>5. SameTables(S, db)
    BY <2>1, <2>3, <2>4, NothingLeft
  <2> QED BY <2>1, <2>2, <2>5, SettledIs
<1> QED BY <1>1, AllTyped, AllSettling, PTL

-----------------------------------------------------------------------------
(* The trail and the evaluations. *)

Notes == {Nothing, "fault", "torn", "backup_failure", "backup_overdue"}

Events == {"owner.claimed", "alert.sent", "backup.created", "backup.failed", "drill.passed",
           "drill.failed"}

TrailRow == [event : Events, at : Nat, mark : Nat, note : Notes]

Eval == [now : Nat, mark : Nat, to : BOOLEAN, rule : 1..2, step : {"mail", "record"},
         found : SUBSET Nat]

Happened(i) == i \in 1..Len(trail) /\ trail[i].event # "alert.sent"

TrailOK ==
    /\ trail \in Seq(TrailRow) /\ Len(trail) >= 1
    /\ trail[1].at = 0 /\ trail[1].event = "owner.claimed"
    /\ \A i \in 1..Len(trail) : trail[i].at <= now /\ trail[i].mark <= Len(trail)
    /\ \A i \in 1..Len(trail) : Happened(i) => trail[i].mark = i

EvalOK(e) ==
    /\ e.now <= now /\ now - e.now <= Slow /\ e.mark <= Len(trail) /\ e.to
    /\ \A i \in 1..Len(trail) : Happened(i) /\ i > e.mark => trail[i].at >= e.now

Kept ==
    /\ now \in Nat /\ up \in BOOLEAN /\ recipients \in BOOLEAN
    /\ TrailOK
    /\ evals \subseteq Eval /\ \A e \in evals : EvalOK(e)

\* What the rows are noted with.
LEMMA NotesThereAre ==
    /\ Nothing \in Notes /\ "fault" \in Notes /\ "torn" \in Notes
    /\ \A n \in 1..2 : Rules[n] \in Notes
BY DEF Notes, Rules

\* The first row of the trail is the owner's claim; no evaluation is under way.
LEMMA KeptAtFirst == HostInit => Kept
<1> SUFFICES ASSUME HostInit PROVE Kept
  OBVIOUS
<1>1. trail = <<[event |-> "owner.claimed", at |-> 0, mark |-> 1, note |-> Nothing]>>
  BY DEF HostInit
<1>2. [event |-> "owner.claimed", at |-> 0, mark |-> 1, note |-> Nothing] \in TrailRow
  <2>1. 0 \in Nat /\ 1 \in Nat /\ "owner.claimed" \in Events /\ Nothing \in Notes
    BY NotesThereAre DEF Events
  <2> QED BY <2>1 DEF TrailRow
<1>3. trail \in Seq(TrailRow) /\ Len(trail) = 1 /\ trail[1].at = 0 /\ trail[1].mark = 1
      /\ trail[1].event = "owner.claimed"
  BY <1>1, <1>2
<1>4. now = 0 /\ up \in BOOLEAN /\ recipients \in BOOLEAN /\ evals = {}
  BY DEF HostInit
<1> QED BY <1>3, <1>4 DEF Kept, TrailOK, Happened

\* A row is written that is no alert.
LEMMA NoteWritten ==
    ASSUME Kept, NEW event \in Events, event # "alert.sent", NEW note \in Notes,
           trail' = Append(trail, Row(event, note)),
           UNCHANGED <<now, up, recipients, evals>>
    PROVE  Kept'
<1> DEFINE row == Row(event, note)
<1>1. now \in Nat /\ trail \in Seq(TrailRow) /\ Len(trail) \in Nat /\ Len(trail) >= 1
  BY DEF Kept, TrailOK
<1>2. row \in TrailRow /\ row.event = event /\ row.at = now /\ row.mark = Len(trail) + 1
  BY <1>1 DEF Row, TrailRow
<1> HIDE DEF row
<1>3. /\ trail' \in Seq(TrailRow) /\ Len(trail') = Len(trail) + 1 /\ trail'[Len(trail) + 1] = row
      /\ \A i \in 1..Len(trail) : trail'[i] = trail[i]
  BY <1>1, <1>2 DEF row
<1>4. TrailOK'
  <2>1. \A i \in 1..Len(trail') : i = Len(trail) + 1 \/ i \in 1..Len(trail)
    BY <1>1, <1>3
  <2>2. /\ \A i \in 1..Len(trail') : trail'[i].at <= now /\ trail'[i].mark <= Len(trail')
        /\ \A i \in 1..Len(trail') : trail'[i].event # "alert.sent" => trail'[i].mark = i
    <3>1. ASSUME NEW i \in 1..Len(trail)
          PROVE  /\ trail'[i].at <= now /\ trail'[i].mark <= Len(trail')
                 /\ trail'[i].event # "alert.sent" => trail'[i].mark = i
      <4>1. trail[i] \in TrailRow /\ trail[i].mark <= Len(trail)
        BY <1>1 DEF Kept, TrailOK
      <4> QED BY <1>1, <1>3, <4>1 DEF Kept, TrailOK, Happened, TrailRow
    <3> QED BY <1>1, <1>2, <1>3, <2>1, <3>1
  <2> QED BY <1>1, <1>2, <1>3, <2>2 DEF Kept, TrailOK, Happened
<1>5. ASSUME NEW e \in evals PROVE EvalOK(e)'
  <2>1. EvalOK(e) /\ e \in Eval
    BY DEF Kept
  <2>2. e.now \in Nat /\ e.mark \in Nat
    BY <2>1 DEF Eval
  <2> QED BY <1>1, <1>2, <1>3, <2>1, <2>2 DEF EvalOK, Happened
<1> QED BY <1>4, <1>5 DEF Kept

\* An alert's row stands for its evaluation.
LEMMA AlertWritten ==
    ASSUME Kept, NEW e \in evals, trail' = Append(trail, AlertSent(e)),
           UNCHANGED <<now, up, recipients>>
    PROVE  /\ TrailOK' /\ Len(trail') = Len(trail) + 1 /\ trail'[Len(trail) + 1] = AlertSent(e)
           /\ \A i \in 1..Len(trail) : trail'[i] = trail[i]
           /\ \A i : Happened(i)' <=> Happened(i)
           /\ \A d \in evals : EvalOK(d)'
<1> DEFINE row == AlertSent(e)
<1>1. now \in Nat /\ trail \in Seq(TrailRow) /\ Len(trail) \in Nat /\ Len(trail) >= 1
      /\ e \in Eval /\ EvalOK(e) /\ TrailOK
  BY DEF Kept, TrailOK
<1>2. row \in TrailRow /\ row.event = "alert.sent" /\ row.at = e.now /\ row.mark = e.mark
  <2>1. e.now \in Nat /\ e.mark \in Nat /\ Rules[e.rule] \in Notes /\ "alert.sent" \in Events
    BY <1>1, NotesThereAre DEF Eval, Events
  <2>2. row = [event |-> "alert.sent", at |-> e.now, mark |-> e.mark, note |-> Rules[e.rule]]
    BY DEF AlertSent
  <2> HIDE DEF row
  <2> QED BY <2>1, <2>2 DEF TrailRow
<1> HIDE DEF row
<1>3. /\ trail' \in Seq(TrailRow) /\ Len(trail') = Len(trail) + 1 /\ trail'[Len(trail) + 1] = row
      /\ \A i \in 1..Len(trail) : trail'[i] = trail[i]
  BY <1>1, <1>2 DEF row
<1>4. \A i : Happened(i)' <=> Happened(i)
  BY <1>1, <1>2, <1>3 DEF Happened
<1>5. TrailOK'
  <2>1. e.now <= now /\ e.mark <= Len(trail) /\ e.now \in Nat /\ e.mark \in Nat
    BY <1>1 DEF EvalOK, Eval
  <2>2. \A i \in 1..Len(trail') : i = Len(trail) + 1 \/ i \in 1..Len(trail)
    BY <1>1, <1>3
  <2>3. \A i \in 1..Len(trail') : trail'[i].at <= now /\ trail'[i].mark <= Len(trail')
    <3>1. ASSUME NEW i \in 1..Len(trail)
          PROVE  trail'[i].at <= now /\ trail'[i].mark <= Len(trail')
      <4>1. trail[i] \in TrailRow /\ trail[i].mark <= Len(trail)
        BY <1>1 DEF TrailOK
      <4> QED BY <1>1, <1>3, <4>1 DEF TrailOK, TrailRow
    <3> QED BY <1>1, <1>2, <1>3, <2>1, <2>2, <3>1
  <2>4. \A i \in 1..Len(trail') : Happened(i)' => trail'[i].mark = i
    BY <1>1, <1>3, <1>4 DEF TrailOK, Happened
  <2> QED BY <1>1, <1>3, <2>3, <2>4 DEF TrailOK
<1>6. ASSUME NEW d \in evals PROVE EvalOK(d)'
  <2>1. EvalOK(d) /\ d \in Eval /\ d.mark \in Nat
    BY DEF Kept, Eval
  <2> QED BY <1>1, <1>3, <1>4, <2>1 DEF EvalOK, Happened
<1> QED BY <1>3, <1>4, <1>5, <1>6 DEF row

\* What is asked is the first rule that fires, with what it found.
LEMMA AskedOne ==
    ASSUME NEW e, NEW from \in 1..2, NEW x \in Asked(e, from)
    PROVE  \E n \in from..2 :
             /\ x = [e EXCEPT !.rule = n, !.step = "mail", !.found = Found(e, Rules[n])]
             /\ Fires(e, Rules[n])
<1> DEFINE firing == {i \in from .. Len(Rules) : Fires(e, Rules[i])}
<1>1. Len(Rules) = 2
  BY DEF Rules
<1>2. firing # {} /\ x = [e EXCEPT !.rule = Min(firing), !.step = "mail",
                                  !.found = Found(e, Rules[Min(firing)])]
  BY DEF Asked
<1>3. firing \in SUBSET Nat
  BY <1>1
<1>4. Min(firing) \in firing
  BY <1>2, <1>3, MinOf
<1> HIDE DEF firing
<1>5. Min(firing) \in from..2 /\ Fires(e, Rules[Min(firing)])
  BY <1>1, <1>4 DEF firing
<1> QED BY <1>2, <1>5

\* What a rule finds are places in the trail.
LEMMA FoundInTrail ==
    ASSUME Kept, NEW e, NEW rule PROVE Found(e, rule) \in SUBSET Nat
  BY DEF Found, EventsSince, Kept, TrailOK

\* An evaluation that goes on has the time and the mark it began with.
LEMMA AskedKept ==
    ASSUME Kept, NEW e \in Eval, EvalOK(e), NEW from \in 1..2, NEW x \in Asked(e, from)
    PROVE  /\ x \in Eval /\ EvalOK(x) /\ x.now = e.now /\ x.mark = e.mark
           /\ x.step = "mail" /\ x.rule \in from..2 /\ x.found = Found(e, Rules[x.rule])
<1>1. PICK n \in from..2 :
             /\ x = [e EXCEPT !.rule = n, !.step = "mail", !.found = Found(e, Rules[n])]
             /\ Fires(e, Rules[n])
  BY AskedOne
<1>2. Found(e, Rules[n]) \in SUBSET Nat
  BY FoundInTrail
<1>3. /\ x.rule = n /\ x.step = "mail" /\ x.found = Found(e, Rules[n])
      /\ x.now = e.now /\ x.mark = e.mark /\ x.to = e.to
  BY <1>1 DEF Eval
<1>4. x \in Eval
  <2>1. n \in 1..2
    OBVIOUS
  <2> QED BY <1>1, <1>2, <2>1 DEF Eval
<1> QED BY <1>3, <1>4 DEF EvalOK

\* The interval fires: what it begins is asked now, with the recipients of now.
LEMMA FirstAsked ==
    ASSUME Kept, OperationsAssumption, NEW e,
           e = [now |-> now, mark |-> Len(trail), to |-> recipients, rule |-> 1,
                step |-> "mail", found |-> {}],
           NEW x \in Asked(e, 1)
    PROVE  /\ x \in Eval /\ EvalOK(x) /\ x.now = now /\ x.mark = Len(trail)
           /\ x.step = "mail" /\ x.found = Found(e, Rules[x.rule])
<1>1. 1 \in 1..2
  OBVIOUS
<1>2. PICK n \in 1..2 : Fires(e, Rules[n])
  <2>1. PICK n \in 1..2 :
             /\ x = [e EXCEPT !.rule = n, !.step = "mail", !.found = Found(e, Rules[n])]
             /\ Fires(e, Rules[n])
    BY <1>1, AskedOne
  <2> QED BY <2>1
<1>3. e.to
  BY <1>2 DEF Fires
<1>4. now \in Nat /\ Len(trail) \in Nat /\ recipients \in BOOLEAN /\ Slow \in Nat
  BY OperationsAssumption DEF Kept, TrailOK
<1>5. e \in Eval
  BY <1>4 DEF Eval
<1>6. EvalOK(e)
  BY <1>3, <1>4 DEF EvalOK, Happened
<1>7. x \in Eval /\ EvalOK(x) /\ x.now = e.now /\ x.mark = e.mark
      /\ x.step = "mail" /\ x.found = Found(e, Rules[x.rule])
  BY <1>5, <1>6, <1>1, AskedKept
<1> QED BY <1>7

-----------------------------------------------------------------------------
(* Backups and drills. *)

\* What a backup that nobody wrote into holds, after each of its steps.
Data == [rows : Nat, keys : Nat]

Holding(b, n) ==
    /\ Len(b) = n
    /\ n >= 1 => b[1] = data
    /\ n >= 2 => b[2] = data.rows
    /\ n >= 3 => b[3] = data.keys

Whole(r) ==
    /\ r.step = "state" => Holding(r.bundle, 1)
    /\ r.step = "keys" => Holding(r.bundle, 2)
    /\ r.step = "counts" => Holding(r.bundle, 3)
    /\ r.step \in {"put", "copy", "judge"} => Matches(r.bundle)

Steps == {"dump", "state", "keys", "counts", "put", "copy", "pick", "judge"}

Run(began, bundle) ==
    [job : Jobs, step : Steps, began : {began}, bundle : {bundle}, torn : BOOLEAN]

RunOK(r) ==
    /\ r \in Run(r.began, r.bundle) /\ r.bundle \in Seq(Data \cup Nat)
    /\ r.step \in {"dump", "state", "keys", "counts"} => r.job = "backup"
    /\ r.step = "dump" => r.bundle = <<>>
    /\ r.torn = FALSE => Whole(r)

BundleOK(b) ==
    b.torn \in BOOLEAN /\ b.holds \in Seq(Data \cup Nat) /\ (b.torn = FALSE => Matches(b.holds))

BackupsOK ==
    /\ data \in Data
    /\ DOMAIN runs = Runners /\ runs = [w \in Runners |-> runs[w]]
    /\ \A w \in Runners : runs[w] # Nothing => RunOK(runs[w])
    /\ \A b \in store : BundleOK(b)

\* A run whose step, bundle and mark have changed.
Goes(q, r, step, bundle, torn) ==
    /\ r \in Run(q.began, bundle)
    /\ r.job = q.job /\ r.step = step /\ r.bundle = bundle /\ r.torn = torn /\ r.began = q.began

\* A run keeps its job and its name while its step, bundle and mark change.
LEMMA Changed ==
    ASSUME NEW began, NEW bundle, NEW q \in Run(began, bundle),
           NEW step \in Steps, NEW new, NEW torn \in BOOLEAN, NEW r
    PROVE  /\ r = [q EXCEPT !.step = step] => Goes(q, r, step, q.bundle, q.torn)
           /\ r = [q EXCEPT !.step = step, !.bundle = new] => Goes(q, r, step, new, q.torn)
           /\ r = [q EXCEPT !.step = step, !.bundle = new, !.torn = torn]
                => Goes(q, r, step, new, torn)
           /\ r = [q EXCEPT !.torn = torn] => Goes(q, r, q.step, q.bundle, torn)
  BY DEF Run, Goes

\* One run goes on, or begins, or is over; the data is as it was.
LEMMA OneRun ==
    ASSUME BackupsOK, NEW w \in Runners, NEW r, runs' = [runs EXCEPT ![w] = r],
           r # Nothing => RunOK(r), UNCHANGED data,
           \A b \in store' : b \in store \/ BundleOK(b)
    PROVE  BackupsOK'
<1>1. \A x : RunOK(x)' <=> RunOK(x)
  BY DEF RunOK, Whole, Holding
<1>2. \A v \in Runners : runs'[v] = IF v = w THEN r ELSE runs[v]
  BY DEF BackupsOK
<1> QED BY <1>1, <1>2 DEF BackupsOK

\* A run begins with nothing read.
LEMMA RunBegins ==
    ASSUME BackupsOK, NEW w \in Runners, NEW job \in Jobs, Begin(w, job),
           UNCHANGED <<data, store>>
    PROVE  BackupsOK'
<1>1. PICK r : r = [job |-> job, step |-> IF job = "backup" THEN "dump" ELSE "pick",
                    began |-> now, bundle |-> <<>>, torn |-> FALSE]
  OBVIOUS
<1>2. r.step \in {"dump", "pick"} /\ r.bundle = <<>> /\ r \in Run(r.began, r.bundle)
  BY <1>1 DEF Run, Steps
<1>3. RunOK(r)
  BY <1>1, <1>2 DEF RunOK, Whole, Holding
<1>4. runs' = [runs EXCEPT ![w] = r]
  BY <1>1 DEF Begin
<1> QED BY <1>3, <1>4, OneRun

\* A part is put at the end of a bundle.
LEMMA Appending ==
    ASSUME NEW S, NEW b \in Seq(S), NEW x \in S
    PROVE  /\ Append(b, x) \in Seq(S) /\ Len(Append(b, x)) = Len(b) + 1
           /\ Append(b, x)[Len(b) + 1] = x
           /\ \A i \in 1..Len(b) : Append(b, x)[i] = b[i]
OBVIOUS

\* The order of the reads of createBundle, and what each finds.
LEMMA ReadsInTurn ==
    /\ DOMAIN Reads = {"dump", "state", "keys", "counts"}
    /\ Reads["dump"] = "state" /\ Reads["state"] = "keys" /\ Reads["keys"] = "counts"
    /\ Reads["counts"] = "put"
    /\ Content("dump") = data /\ Content("keys") = data.keys
    /\ Content("state") = data.rows /\ Content("counts") = data.rows
BY DEF Reads, Content

\* The next part is of the same data as the ones before, unless a write came between them.
LEMMA BundleGrows ==
    ASSUME BackupsOK, NEW w \in Runners, CreateBundle(w)
    PROVE  BackupsOK'
<1>1. PICK q : q = runs[w]
  OBVIOUS
<1>2. RunOK(q) /\ q.step \in {"dump", "state", "keys", "counts"} /\ UNCHANGED <<data, store>>
  BY <1>1, ReadsInTurn DEF BackupsOK, CreateBundle
<1>3. Reads[q.step] \in {"state", "keys", "counts", "put"}
  BY <1>2, ReadsInTurn
<1>4. PICK r : r = [q EXCEPT !.step = Reads[q.step],
                             !.bundle = Append(q.bundle, Content(q.step))]
  OBVIOUS
<1>5. runs' = [runs EXCEPT ![w] = r]
  BY <1>1, <1>4 DEF CreateBundle, BackupsOK
<1>6. /\ r.job = q.job /\ r.step = Reads[q.step] /\ r.torn = q.torn
      /\ r.bundle = Append(q.bundle, Content(q.step)) /\ r \in Run(r.began, r.bundle)
  <2>1. q \in Run(q.began, q.bundle) /\ Reads[q.step] \in Steps
    BY <1>2, <1>3 DEF RunOK, Steps
  <2>2. Goes(q, r, Reads[q.step], Append(q.bundle, Content(q.step)), q.torn)
    BY <1>4, <2>1, Changed DEF Run
  <2> QED BY <2>2 DEF Goes
<1>7. /\ Content(q.step) \in Data \cup Nat /\ r.bundle \in Seq(Data \cup Nat)
      /\ Len(r.bundle) = Len(q.bundle) + 1 /\ r.bundle[Len(q.bundle) + 1] = Content(q.step)
      /\ \A i \in 1..Len(q.bundle) : r.bundle[i] = q.bundle[i]
  <2>1. data \in Data /\ data.rows \in Nat /\ data.keys \in Nat
    BY DEF BackupsOK, Data
  <2>2. Content(q.step) \in Data \cup Nat
    BY <1>2, <2>1, ReadsInTurn
  <2> QED BY <1>2, <1>6, <2>2, Appending DEF RunOK
<1>8. ASSUME q.torn = FALSE PROVE Whole(r)
  <2>1. Whole(q)
    BY <1>2, <1>8 DEF RunOK
  <2>2. CASE q.step = "dump"
    <3>1. r.step = "state" /\ Len(q.bundle) = 0
      BY <1>2, <1>6, <2>2, ReadsInTurn DEF RunOK
    <3> QED BY <1>7, <2>2, <3>1, ReadsInTurn DEF Whole, Holding
  <2>3. CASE q.step = "state"
    <3>1. r.step = "keys" /\ Holding(q.bundle, 1)
      BY <1>6, <2>1, <2>3, ReadsInTurn DEF Whole
    <3>2. Holding(r.bundle, 2)
      BY <1>7, <2>3, <3>1, ReadsInTurn DEF Holding
    <3> QED BY <3>1, <3>2 DEF Whole
  <2>4. CASE q.step = "keys"
    <3>1. r.step = "counts" /\ Holding(q.bundle, 2)
      BY <1>6, <2>1, <2>4, ReadsInTurn DEF Whole
    <3>2. Holding(r.bundle, 3)
      BY <1>7, <2>4, <3>1, ReadsInTurn DEF Holding
    <3> QED BY <3>1, <3>2 DEF Whole
  <2>5. CASE q.step = "counts"
    <3>1. r.step = "put" /\ Holding(q.bundle, 3)
      BY <1>6, <2>1, <2>5, ReadsInTurn DEF Whole
    <3>2. /\ r.bundle[1] = data /\ r.bundle[2] = data.rows /\ r.bundle[3] = data.keys
          /\ r.bundle[4] = data.rows
      BY <1>7, <2>5, <3>1, ReadsInTurn DEF Holding
    <3> QED BY <3>1, <3>2 DEF Whole, Matches, Decrypts, Counted, Published
  <2> QED BY <1>2, <2>2, <2>3, <2>4, <2>5
<1>9. r.step \in {"state", "keys", "counts"} => r.job = "backup"
  <2>1. r.step # "state" => q.step \in {"state", "keys", "counts"}
    BY <1>2, <1>6, ReadsInTurn
  <2>2. q.step = "dump" => q.job = "backup"
    BY <1>2 DEF RunOK
  <2> QED BY <1>2, <1>6, <2>1, <2>2 DEF RunOK
<1>10. RunOK(r)
  BY <1>2, <1>3, <1>6, <1>7, <1>9, <1>8 DEF RunOK
<1> QED BY <1>2, <1>5, <1>10, OneRun

\* The other steps of a run keep a bundle as it was read.
LEMMA RunGoesOn ==
    ASSUME BackupsOK, NEW w \in Runners,
           Put(w) \/ BackupDone(w) \/ RunFails(w) \/ DrillPick(w) \/ NoBundles(w) \/ DrillJudge(w)
    PROVE  BackupsOK'
<1>1. CASE BackupDone(w) \/ RunFails(w) \/ NoBundles(w) \/ DrillJudge(w)
  <2>1. runs' = [runs EXCEPT ![w] = Nothing] /\ UNCHANGED <<data, store>>
    BY <1>1 DEF BackupDone, RunFails, NoBundles, DrillJudge, Over
  <2> QED BY <2>1, OneRun
<1>2. PICK q : q = runs[w]
  OBVIOUS
<1>3. CASE Put(w)
  <2>1. RunOK(q) /\ q.step = "put"
    BY <1>2, <1>3 DEF Put, At, BackupsOK
  <2>2. PICK r : r = [q EXCEPT !.step = "copy"]
    OBVIOUS
  <2>3. PICK b : b = [named |-> q.began, holds |-> q.bundle, torn |-> q.torn]
    OBVIOUS
  <2>4. store' = store \cup {b} /\ runs' = [runs EXCEPT ![w] = r] /\ UNCHANGED data
    BY <1>2, <1>3, <2>2, <2>3 DEF Put, BackupsOK
  <2>5. Goes(q, r, "copy", q.bundle, q.torn)
    BY <2>1, <2>2, Changed DEF RunOK, Steps
  <2>6. RunOK(r)
    BY <2>1, <2>5 DEF RunOK, Whole, Goes
  <2>7. BundleOK(b)
    BY <2>1, <2>3 DEF BundleOK, RunOK, Whole, Run
  <2> QED BY <2>4, <2>6, <2>7, OneRun
<1>4. CASE DrillPick(w)
  <2>1. PICK b \in Newest :
          runs' = [runs EXCEPT ![w].step = "judge", ![w].bundle = b.holds, ![w].torn = b.torn]
    BY <1>4 DEF DrillPick
  <2>2. RunOK(q) /\ UNCHANGED <<data, store>>
    BY <1>2, <1>4 DEF DrillPick, At, BackupsOK
  <2>3. PICK r : r = [q EXCEPT !.step = "judge", !.bundle = b.holds, !.torn = b.torn]
    OBVIOUS
  <2>4. runs' = [runs EXCEPT ![w] = r]
    BY <1>2, <2>1, <2>3 DEF BackupsOK
  <2>5. BundleOK(b)
    BY DEF Newest, BackupsOK
  <2>6. Goes(q, r, "judge", b.holds, b.torn)
    BY <2>2, <2>3, <2>5, Changed DEF RunOK, Steps, BundleOK
  <2>7. RunOK(r)
    BY <2>5, <2>6 DEF RunOK, Whole, Goes, BundleOK
  <2> QED BY <2>2, <2>4, <2>7, OneRun
<1> QED BY <1>1, <1>3, <1>4

\* A write into a bundle being put together marks it.
LEMMA WriteTears ==
    ASSUME BackupsOK, NEW part \in {"rows", "keys"}, Write(part)
    PROVE  BackupsOK'
<1>1. UNCHANGED store /\ runs' = [w \in Runners |->
         IF runs[w] # Nothing /\ runs[w].job = "backup" /\ runs[w].step \in {"state", "keys", "counts"}
         THEN [runs[w] EXCEPT !.torn = TRUE] ELSE runs[w]]
  BY DEF Write
<1>2. ASSUME NEW w \in Runners, NEW x, x = runs'[w], x # Nothing
      PROVE  RunOK(x)'
  <2>1. PICK q : q = runs[w]
    OBVIOUS
  <2>2. q = Nothing => x = q
    BY <1>1, <1>2, <2>1
  <2>3. RunOK(q)
    BY <1>2, <2>1, <2>2 DEF BackupsOK
  <2>4. CASE q.step \in {"state", "keys", "counts"}
    <3>1. x = [q EXCEPT !.torn = TRUE]
      BY <1>1, <1>2, <2>1, <2>2, <2>3, <2>4 DEF RunOK
    <3>2. Goes(q, x, q.step, q.bundle, TRUE)
      BY <2>3, <2>4, <3>1, Changed DEF RunOK, Steps
    <3> QED BY <2>3, <3>2 DEF RunOK, Goes
  <2>5. CASE q.step \notin {"state", "keys", "counts"}
    <3>1. x = q
      BY <1>1, <1>2, <2>1, <2>5
    <3> QED BY <2>3, <2>5, <3>1 DEF RunOK, Whole, Holding
  <2> QED BY <2>4, <2>5
<1>3. DOMAIN runs' = Runners /\ runs' = [w \in Runners |-> runs'[w]]
  BY <1>1
<1>4. data' \in Data
  BY DEF Write, BackupsOK, Data
<1>5. ASSUME NEW w \in Runners, runs'[w] # Nothing
      PROVE  RunOK(runs[w])'
  <2>1. PICK x : x = runs'[w]
    OBVIOUS
  <2>2. RunOK(x)'
    BY <1>2, <1>5, <2>1
  <2> QED BY <2>1, <2>2 DEF RunOK, Whole, Holding
<1> QED BY <1>1, <1>3, <1>5, <1>4 DEF BackupsOK, BundleOK

\* Whatever the instance does next, a bundle that is not torn matches itself.
LEMMA BackupsKept == BackupsOK /\ [HostNext]_hostVars => BackupsOK'
<1> SUFFICES ASSUME BackupsOK, [HostNext]_hostVars PROVE BackupsOK'
  OBVIOUS
<1>1. CASE \E j \in Jobs : ScheduleDaily(j) \/ ByHand(j)
  BY <1>1, RunBegins DEF ScheduleDaily, ByHand, Jobs, Runners
<1>2. CASE \E w \in Runners : CreateBundle(w)
  BY <1>2, BundleGrows
<1>3. CASE \E w \in Runners : \/ Put(w) \/ BackupDone(w) \/ RunFails(w)
                              \/ DrillPick(w) \/ NoBundles(w) \/ DrillJudge(w)
  BY <1>3, RunGoesOn
<1>4. CASE \E part \in {"rows", "keys"} : Write(part)
  BY <1>4, WriteTears
<1>5. CASE UNCHANGED <<runs, store, data>>
  BY <1>5 DEF BackupsOK, RunOK, Whole, Holding, BundleOK
<1>6. CASE ServiceStops
  BY <1>6 DEF ServiceStops, BackupsOK
<1>7. CASE \/ StartAlerts \/ (\E e \in evals : Mail(e) \/ Record(e)) \/ SetRecipients
           \/ ServiceStarts \/ Tick \/ UNCHANGED hostVars
  BY <1>5, <1>7 DEF StartAlerts, Mail, Record, SetRecipients, ServiceStarts, Tick, backing, hostVars
<1> QED BY <1>1, <1>2, <1>3, <1>4, <1>6, <1>7 DEF HostNext

\* A backup that no write fell into passes its drill, for any schedule and any writes: its dump,
\* state file, keys and counts are of one moment (bundle.ts 63-105, operations.ts 139-162).
THEOREM BundlesAreSound == HostSpec => []BackupsOK
<1>1. HostInit => BackupsOK
  BY DEF HostInit, BackupsOK, Data
<1> QED BY <1>1, BackupsKept, PTL DEF HostSpec

-----------------------------------------------------------------------------
(* The rows and the evaluations stay well formed. *)

\* What a run says when it is over is no alert, and never that a sound bundle failed.
LEMMA RunsSay ==
    ASSUME Kept, BackupsOK, NEW w \in Runners,
           BackupDone(w) \/ RunFails(w) \/ NoBundles(w) \/ DrillJudge(w)
    PROVE  \E event \in Events \ {"alert.sent"}, note \in Notes : Over(w, event, note)
<1>1. CASE BackupDone(w)
  BY <1>1, NotesThereAre DEF BackupDone, Events
<1>2. CASE RunFails(w)
  BY <1>2, NotesThereAre DEF RunFails, Events
<1>3. CASE NoBundles(w)
  BY <1>3, NotesThereAre DEF NoBundles, Events
<1>4. CASE DrillJudge(w)
  <2>1. CASE Matches(runs[w].bundle)
    BY <1>4, <2>1, NotesThereAre DEF DrillJudge, Events
  <2>2. CASE ~ Matches(runs[w].bundle)
    <3>1. PICK q : q = runs[w]
      OBVIOUS
    <3>2. RunOK(q) /\ q.step = "judge"
      BY <1>4, <3>1 DEF DrillJudge, At, BackupsOK
    <3>3. q.torn # FALSE
      BY <2>2, <3>1, <3>2 DEF RunOK, Whole
    <3>4. q.torn = TRUE
      BY <3>2, <3>3 DEF RunOK, Run
    <3>5. Over(w, "drill.failed", "torn")
      BY <1>4, <2>2, <3>1, <3>4 DEF DrillJudge
    <3> QED BY <3>5, NotesThereAre DEF Events
  <2> QED BY <2>1, <2>2
<1> QED BY <1>1, <1>2, <1>3, <1>4

\* Every step keeps the trail in order and the evaluations in time.
LEMMA KeptStep == Kept /\ BackupsOK /\ [HostNext]_hostVars => Kept'
<1> SUFFICES ASSUME Kept, BackupsOK, [HostNext]_hostVars PROVE Kept'
  OBVIOUS
<1> USE OperationsAssumption
<1>1. ASSUME UNCHANGED <<now, trail>>, up' \in BOOLEAN, recipients' \in BOOLEAN,
             \A x \in evals' : x \in Eval /\ EvalOK(x)
      PROVE  Kept'
  <2>1. TrailOK' /\ \A x : EvalOK(x)' <=> EvalOK(x)
    BY <1>1 DEF Kept, TrailOK, EvalOK, Happened
  <2> QED BY <1>1, <2>1 DEF Kept
<1>2. CASE UNCHANGED <<now, trail, up, recipients, evals>>
  BY <1>1, <1>2 DEF Kept
<1>3. CASE \/ \E j \in Jobs : ScheduleDaily(j) \/ ByHand(j)
           \/ \E w \in Runners : CreateBundle(w) \/ Put(w) \/ DrillPick(w)
           \/ \E part \in {"rows", "keys"} : Write(part)
           \/ UNCHANGED hostVars
  BY <1>2, <1>3 DEF ScheduleDaily, ByHand, CreateBundle, Put, DrillPick, Write, hostVars,
                    trails, alerting
<1>4. ASSUME NEW w \in Runners,
             BackupDone(w) \/ RunFails(w) \/ NoBundles(w) \/ DrillJudge(w)
      PROVE  Kept'
  <2>1. PICK event \in Events \ {"alert.sent"}, note \in Notes : Over(w, event, note)
    BY <1>4, RunsSay
  <2> QED BY <2>1, NoteWritten DEF Over, alerting
<1>5. CASE StartAlerts
  <2>1. PICK e : e = [now |-> now, mark |-> Len(trail), to |-> recipients, rule |-> 1,
                      step |-> "mail", found |-> {}]
    OBVIOUS
  <2>2. evals' = evals \cup Asked(e, 1) /\ UNCHANGED <<now, trail, up, recipients>>
    BY <1>5, <2>1 DEF StartAlerts, trails
  <2>3. ASSUME NEW x \in Asked(e, 1) PROVE x \in Eval /\ EvalOK(x)
    BY <2>1, FirstAsked
  <2> QED BY <1>1, <2>2, <2>3 DEF Kept
<1>6. ASSUME NEW e \in evals, Mail(e) PROVE Kept'
  <2>1. PICK x : x = [e EXCEPT !.step = "record"]
    OBVIOUS
  <2>2. evals' = (evals \ {e}) \cup {x} /\ UNCHANGED <<now, trail, up, recipients>>
    BY <1>6, <2>1 DEF Mail
  <2>3. e \in Eval /\ EvalOK(e)
    BY DEF Kept
  <2>4. x \in Eval /\ EvalOK(x)
    BY <2>1, <2>3 DEF Eval, EvalOK
  <2> QED BY <1>1, <2>2, <2>4 DEF Kept
<1>7. ASSUME NEW e \in evals, Record(e) PROVE Kept'
  <2>1. /\ trail' = Append(trail, AlertSent(e)) /\ UNCHANGED <<now, up, recipients>>
        /\ evals' = (evals \ {e}) \cup Asked(e, e.rule + 1)
    BY <1>7 DEF Record
  <2>2. TrailOK' /\ Len(trail') = Len(trail) + 1 /\ \A d \in evals : EvalOK(d)'
    BY <2>1, AlertWritten
  <2>3. e \in Eval /\ EvalOK(e)
    BY DEF Kept
  <2>4. ASSUME NEW x \in Asked(e, e.rule + 1) PROVE x \in Eval /\ EvalOK(x)'
    <3>1. e.rule = 1
      <4>1. e.rule \in 1..2
        BY <2>3 DEF Eval
      <4>2. e.rule # 2
        BY DEF Asked, Rules
      <4> QED BY <4>1, <4>2
    <3>2. x \in Eval /\ x.now = e.now /\ x.mark = e.mark /\ EvalOK(x)
      BY <2>3, <3>1, AskedKept
    <3>3. EvalOK(e)'
      BY <2>2
    <3>4. x.to
      BY <3>2 DEF EvalOK
    <3> QED BY <3>2, <3>3, <3>4 DEF EvalOK
  <2>5. now' \in Nat /\ up' \in BOOLEAN /\ recipients' \in BOOLEAN
    BY <2>1 DEF Kept
  <2> QED BY <2>1, <2>2, <2>4, <2>5 DEF Kept
<1>8. CASE SetRecipients
  BY <1>1, <1>8 DEF SetRecipients, Kept, trails
<1>9. CASE ServiceStops
  BY <1>1, <1>9 DEF ServiceStops, Kept, trails
<1>10. CASE ServiceStarts
  BY <1>1, <1>10 DEF ServiceStarts, Kept, trails
<1>11. CASE Tick
  <2>1. /\ now' = now + 1 /\ UNCHANGED <<up, trail, recipients, evals>>
        /\ \A e \in evals : now - e.now < Slow
    BY <1>11 DEF Tick, trails, alerting
  <2>2. now \in Nat /\ TrailOK /\ trail \in Seq(TrailRow)
    BY DEF Kept, TrailOK
  <2>3. TrailOK'
    <3>1. ASSUME NEW i \in 1..Len(trail) PROVE trail[i].at <= now + 1
      <4>1. trail[i] \in TrailRow /\ trail[i].at <= now
        BY <2>2 DEF TrailOK
      <4>2. PICK a \in Nat : a = trail[i].at
        BY <4>1 DEF TrailRow
      <4> QED BY <2>2, <4>1, <4>2
    <3>2. \A i : Happened(i)' <=> Happened(i)
      BY <2>1 DEF Happened
    <3> QED BY <2>1, <2>2, <3>1, <3>2 DEF TrailOK
  <2>4. ASSUME NEW e \in evals PROVE EvalOK(e)'
    <3>1. e \in Eval /\ EvalOK(e) /\ now - e.now < Slow
      BY <2>1 DEF Kept
    <3>2. e.now \in Nat
      BY <3>1 DEF Eval
    <3>3. e.now <= now' /\ now' - e.now <= Slow
      BY <2>1, <2>2, <3>1, <3>2 DEF EvalOK
    <3>4. e.mark <= Len(trail') /\ e.to
      BY <2>1, <3>1 DEF EvalOK
    <3>5. ASSUME NEW i \in 1..Len(trail'), Happened(i)', i > e.mark PROVE trail'[i].at >= e.now
      BY <2>1, <3>1, <3>5 DEF EvalOK, Happened
    <3> QED BY <3>3, <3>4, <3>5 DEF EvalOK
  <2> QED BY <2>1, <2>2, <2>3, <2>4 DEF Kept
<1> QED BY <1>3, <1>4, <1>5, <1>6, <1>7, <1>8, <1>9, <1>10, <1>11 DEF HostNext

\* The invariant of an instance left to itself: the trail is in order, an evaluation is never
\* older than a mail takes, and what is backed up undisturbed is sound.
THEOREM HostInvariant == HostSpec => [](Kept /\ BackupsOK)
<1>1. HostInit => BackupsOK
  BY DEF HostInit, BackupsOK, Data
<1> QED BY <1>1, KeptAtFirst, BackupsKept, KeptStep, PTL DEF HostSpec

\* For any schedule, any writes and any runs by hand: the drill reports only a bundle that a write
\* fell into, or a step that failed; a sound backup is never called broken.
THEOREM DrillsFailForAReason == HostSpec => []DrillFailsForAReason
<1>1. Kept => DrillFailsForAReason
  <2> SUFFICES ASSUME Kept, NEW i \in 1..Len(trail) PROVE trail[i].note # "sound"
    BY DEF DrillFailsForAReason
  <2>1. trail[i] \in TrailRow
    BY DEF Kept, TrailOK
  <2>2. trail[i].note \in Notes
    BY <2>1 DEF TrailRow
  <2> QED BY <2>2, OperationsAssumption DEF Notes
<1> QED BY <1>1, HostInvariant, PTL

-----------------------------------------------------------------------------
(* No failure is skipped. *)

Told == {i \in 1..Len(trail) : trail[i].event = "alert.sent" /\ trail[i].note = "backup_failure"}

\* The first alert goes a day back; the ones after it never go back further.
Reach(t) == IF Told = {} THEN t ELSE trail[Min(Told)].at

Carried(e) ==
    e.rule = 1 =>
      /\ \A i \in 1..Len(trail) :
           trail[i].event \in Failures /\ i <= e.mark /\ trail[i].at > Reach(e.now) - Day
             => i \in listed \cup e.found
      /\ e.step = "record" => e.found \subseteq listed

Skips == NothingSkipped /\ \A e \in evals : Carried(e)

Grows ==
    /\ Len(trail') >= Len(trail) /\ \A i \in 1..Len(trail) : trail'[i] = trail[i]
    /\ listed \subseteq listed'

\* The rows one by one.
LEMMA Rows ==
    ASSUME Kept
    PROVE  /\ now \in Nat /\ trail \in Seq(TrailRow) /\ Len(trail) \in Nat /\ Len(trail) >= 1
           /\ \A i \in 1..Len(trail) :
                /\ trail[i].at \in Nat /\ trail[i].mark \in Nat
                /\ trail[i].at <= now /\ trail[i].mark <= Len(trail)
                /\ Happened(i) => trail[i].mark = i
                /\ trail[i].event \in Failures => Happened(i)
<1>1. now \in Nat /\ trail \in Seq(TrailRow) /\ Len(trail) \in Nat /\ Len(trail) >= 1
  BY DEF Kept, TrailOK
<1>2. ASSUME NEW i \in 1..Len(trail)
      PROVE  /\ trail[i].at \in Nat /\ trail[i].mark \in Nat
             /\ trail[i].at <= now /\ trail[i].mark <= Len(trail)
             /\ Happened(i) => trail[i].mark = i
             /\ trail[i].event \in Failures => Happened(i)
  <2>1. trail[i] \in TrailRow
    BY <1>1
  <2>2. trail[i].event \in Failures => Happened(i)
    BY DEF Happened, Failures
  <2> QED BY <2>1, <2>2 DEF Kept, TrailOK, TrailRow
<1> QED BY <1>1, <1>2

\* The first failure alert, if there is one.
LEMMA FirstTold ==
    ASSUME Kept
    PROVE  /\ Told \in SUBSET Nat /\ Told \subseteq 1..Len(trail)
           /\ Told # {} => Min(Told) \in Told /\ \A i \in Told : Min(Told) <= i
<1>1. Told \in SUBSET Nat /\ Told \subseteq 1..Len(trail)
  BY Rows DEF Told
<1> QED BY <1>1, MinOf

\* The last failure alert, as evaluateAlerts looks it up.
LEMMA LastTold ==
    ASSUME Kept
    PROVE  /\ Told = {} => LastAlert("backup_failure") = 0
           /\ Told # {} => LastAlert("backup_failure") \in Told
<1>1. LastAlert("backup_failure") = IF Told = {} THEN 0 ELSE Max(Told)
  BY DEF LastAlert, LastOf, Told
<1>2. Told \in SUBSET (0..Len(trail)) /\ Len(trail) \in Nat
  BY FirstTold, Rows
<1> QED BY <1>1, <1>2, MaxOf

\* The trail grows by rows that are no failure alert.
LEMMA StillCarried ==
    ASSUME Kept, Kept', NothingSkipped, Grows, Told' = Told
    PROVE  /\ NothingSkipped'
           /\ \A t : Reach(t)' = Reach(t)
           /\ \A e \in Eval : EvalOK(e) /\ Carried(e) => Carried(e)'
<1>1. Told # {} => Min(Told) \in 1..Len(trail)
  BY FirstTold
<1>2. \A t : Reach(t)' = Reach(t)
  BY <1>1 DEF Reach, Grows
<1>3. \A i \in 1..Len(trail') : i \in 1..Len(trail) \/ i > Len(trail)
  BY Rows
<1>4. NothingSkipped'
  <2> SUFFICES ASSUME NEW i \in 1..Len(trail'), NEW last \in Told,
                      trail'[i].event \in Failures, trail'[i].mark <= trail'[last].mark,
                      trail'[i].at > trail'[Min(Told)].at - Day
               PROVE  i \in listed'
    BY DEF NothingSkipped, Told
  <2>1. last \in 1..Len(trail) /\ Min(Told) \in 1..Len(trail) /\ trail'[last] = trail[last]
        /\ trail'[Min(Told)] = trail[Min(Told)]
    BY <1>1, FirstTold DEF Grows
  <2>2. CASE i \in 1..Len(trail)
    BY <2>1, <2>2 DEF NothingSkipped, Told, Grows
  <2>3. CASE i > Len(trail)
    <3>1. trail'[i].mark = i
      <4>1. Kept' => (trail'[i].event \in Failures => Happened(i)') /\ (Happened(i)' => trail'[i].mark = i)
        BY DEF Happened, Failures, Kept, TrailOK
      <4> QED BY <4>1
    <3>2. trail[last].mark <= Len(trail) /\ Len(trail) \in Nat /\ trail[last].mark \in Nat
      BY <2>1, Rows
    <3> QED BY <2>1, <2>3, <3>1, <3>2
  <2> QED BY <1>3, <2>2, <2>3
<1>5. ASSUME NEW e \in Eval, EvalOK(e), Carried(e) PROVE Carried(e)'
  <2>1. e.mark <= Len(trail) /\ e.mark \in Nat /\ Len(trail) \in Nat
    BY <1>5, Rows DEF EvalOK, Eval
  <2>2. ASSUME NEW i \in 1..Len(trail'), i <= e.mark PROVE i \in 1..Len(trail)
    BY <2>1, <2>2
  <2> QED BY <1>2, <1>5, <2>2 DEF Carried, Grows
<1> QED BY <1>2, <1>4, <1>5

\* Nothing has failed yet.
LEMMA SkipsAtFirst == HostInit => Skips
<1> SUFFICES ASSUME HostInit PROVE Skips
  OBVIOUS
<1>1. trail = <<[event |-> "owner.claimed", at |-> 0, mark |-> 1, note |-> Nothing]>> /\ evals = {}
  BY DEF HostInit
<1>2. Len(trail) = 1 /\ trail[1].event = "owner.claimed"
  BY <1>1
<1> QED BY <1>1, <1>2 DEF Skips, NothingSkipped

\* What an evaluation asked first finds, and what is listed already, is everything.
LEMMA FirstCarries ==
    ASSUME Kept, OperationsAssumption, NothingSkipped, NEW e,
           e = [now |-> now, mark |-> Len(trail), to |-> recipients, rule |-> 1,
                step |-> "mail", found |-> {}],
           NEW x \in Asked(e, 1)
    PROVE  Carried(x)
<1>1. /\ x.now = now /\ x.step = "mail" /\ x.found = Found(e, Rules[x.rule]) /\ e.now = now
  BY FirstAsked
<1>2. ASSUME x.rule = 1, NEW i \in 1..Len(trail), trail[i].event \in Failures,
             trail[i].at > Reach(now) - Day
      PROVE  i \in listed \cup x.found
  <2> DEFINE last == LastAlert("backup_failure")
  <2>1. x.found = {j \in 1..Len(trail) :
            /\ trail[j].event \in Failures
            /\ IF last # 0 THEN trail[j].mark > trail[last].mark ELSE trail[j].at > now - Day}
    BY <1>1, <1>2 DEF Found, EventsSince, Rules
  <2>2. CASE Told = {}
    <3>1. last = 0 /\ Reach(now) = now
      BY <2>2, LastTold DEF Reach
    <3> QED BY <1>2, <2>1, <3>1
  <2>3. CASE Told # {}
    <3>1. last \in Told /\ last \in 1..Len(trail) /\ last # 0 /\ Reach(now) = trail[Min(Told)].at
      BY <2>3, LastTold, FirstTold DEF Reach
    <3>2. trail[last].mark \in Nat /\ trail[i].mark \in Nat
      BY <3>1, Rows
    <3>3. CASE trail[i].mark <= trail[last].mark
      BY <1>2, <3>1, <3>3 DEF NothingSkipped, Told
    <3>4. CASE trail[i].mark > trail[last].mark
      BY <1>2, <2>1, <3>1, <3>4
    <3> QED BY <3>2, <3>3, <3>4
  <2> QED BY <2>2, <2>3
<1> QED BY <1>1, <1>2 DEF Carried

\* An alert is recorded: the trail grows by its row.
LEMMA AlertGrows ==
    ASSUME Kept, NEW e \in evals, Record(e)
    PROVE  /\ Grows /\ UNCHANGED <<now, listed>>
           /\ Len(trail') = Len(trail) + 1 /\ trail'[Len(trail) + 1] = AlertSent(e)
           /\ Told' = IF e.rule = 1 THEN Told \cup {Len(trail) + 1} ELSE Told
           /\ e \in Eval /\ EvalOK(e)
<1>1. /\ trail' = Append(trail, AlertSent(e)) /\ UNCHANGED <<now, up, listed, recipients>>
  BY DEF Record
<1>2. /\ Len(trail') = Len(trail) + 1 /\ trail'[Len(trail) + 1] = AlertSent(e)
      /\ \A i \in 1..Len(trail) : trail'[i] = trail[i]
  BY <1>1, AlertWritten
<1>3. Len(trail) \in Nat
  BY Rows
<1>4. e \in Eval /\ EvalOK(e) /\ e.rule \in 1..2
  BY DEF Kept, Eval
<1>5. trail'[Len(trail) + 1].event = "alert.sent"
      /\ (trail'[Len(trail) + 1].note = "backup_failure" <=> e.rule = 1)
  BY <1>2, <1>4 DEF AlertSent, Rules
<1>6. \A i : i \in Told' <=> i \in Told \/ (i = Len(trail) + 1 /\ e.rule = 1)
  BY <1>2, <1>3, <1>5 DEF Told
<1>7. Told' = IF e.rule = 1 THEN Told \cup {Len(trail) + 1} ELSE Told
  <2>1. e.rule = 1 => Told' = Told \cup {Len(trail) + 1}
    BY <1>6
  <2>2. e.rule # 1 => Told' = Told
    BY <1>6
  <2> QED BY <2>1, <2>2
<1> QED BY <1>1, <1>2, <1>3, <1>4, <1>7 DEF Grows

\* The first alert of the kind is older than any evaluation under way by less than a day:
\* what it leaves behind is older than a day for the others too, or listed.
LEMMA AlertCarries ==
    ASSUME Kept, Kept', OperationsAssumption, Skips, NEW e \in evals, Record(e), e.rule = 1
    PROVE  NothingSkipped' /\ \A d \in evals : Carried(d)'
<1> DEFINE n == Len(trail)
<1>1. /\ Grows /\ listed' = listed /\ Len(trail') = n + 1 /\ trail'[n + 1] = AlertSent(e)
      /\ Told' = Told \cup {n + 1} /\ e \in Eval /\ EvalOK(e)
  BY AlertGrows
<1>2. /\ n \in Nat /\ now \in Nat /\ e.now \in Nat /\ e.mark \in Nat /\ Day \in Nat /\ Slow \in Nat
      /\ Slow < Day
  BY <1>1, Rows, OperationsAssumption DEF Eval
<1>3. trail'[n + 1].event = "alert.sent" /\ trail'[n + 1].at = e.now /\ trail'[n + 1].mark = e.mark
  BY <1>1 DEF AlertSent
<1>4. \A i \in 1..n : trail'[i] = trail[i]
  BY <1>1 DEF Grows
<1>5. Carried(e) /\ e.step = "record" /\ NothingSkipped
  BY DEF Skips, Record
<1>6. \A i \in 1..n : trail[i].event \in Failures /\ i <= e.mark /\ trail[i].at > Reach(e.now) - Day
                       => i \in listed
  BY <1>5 DEF Carried
<1>7. /\ Told \subseteq 1..n /\ (Told # {} => Min(Told) \in Told)
      /\ \A i \in Told : Min(Told) <= i
  BY FirstTold
<1>8. Min(Told') = IF Told = {} THEN n + 1 ELSE Min(Told)
  <2>1. Told' \in SUBSET Nat /\ Told' # {}
    <3>1. n + 1 \in Nat /\ Told \subseteq Nat
      BY <1>2, FirstTold
    <3>2. Told' = Told \cup {n + 1}
      BY <1>1
    <3> HIDE DEF n
    <3> QED BY <3>1, <3>2
  <2>2. PICK T : T = Told'
    OBVIOUS
  <2>3. Min(T) \in T /\ \A i \in T : Min(T) <= i
    BY <2>1, <2>2, MinOf
  <2>4. T = Told \cup {n + 1}
    BY <1>1, <2>2
  <2>5. CASE Told = {}
    BY <2>2, <2>3, <2>4, <2>5
  <2>6. CASE Told # {}
    <3>1. Min(Told) \in T /\ Min(Told) \in 1..n
      BY <1>7, <2>4, <2>6
    <3>2. Min(T) <= Min(Told) /\ Min(T) \in Nat
      BY <2>1, <2>2, <2>3, <3>1
    <3>3. Min(T) # n + 1
      BY <1>2, <3>1, <3>2
    <3>4. Min(T) \in Told
      BY <2>3, <2>4, <3>3
    <3>5. Min(Told) <= Min(T)
      BY <1>7, <3>4
    <3> QED BY <2>2, <2>6, <3>1, <3>2, <3>5
  <2> QED BY <2>5, <2>6
<1>9. trail'[Min(Told')].at = Reach(e.now)
  BY <1>3, <1>4, <1>7, <1>8 DEF Reach
<1>10. NothingSkipped'
  <2> SUFFICES ASSUME NEW i \in 1..Len(trail'), NEW last \in Told',
                      trail'[i].event \in Failures, trail'[i].mark <= trail'[last].mark,
                      trail'[i].at > trail'[Min(Told')].at - Day
               PROVE  i \in listed
    BY <1>1 DEF NothingSkipped, Told
  <2>1. i \in 1..n
    BY <1>1, <1>2, <1>3 DEF Failures
  <2>2. trail'[i] = trail[i] /\ trail[i].mark = i /\ trail[i].at > Reach(e.now) - Day
    BY <1>4, <1>9, <2>1, Rows
  <2>3. CASE last = n + 1
    BY <1>3, <1>6, <2>1, <2>2, <2>3
  <2>4. CASE last \in Told
    <3>1. trail'[last] = trail[last] /\ Reach(e.now) = trail[Min(Told)].at
      BY <1>4, <1>7, <2>4 DEF Reach
    <3> QED BY <1>5, <2>1, <2>2, <2>4, <3>1 DEF NothingSkipped, Told
  <2> QED BY <1>1, <2>3, <2>4
<1>11. ASSUME NEW d \in evals PROVE Carried(d)'
  <2>1. d \in Eval /\ EvalOK(d) /\ Carried(d)
    BY DEF Kept, Skips
  <2>2. /\ d.now \in Nat /\ d.mark \in Nat /\ d.now <= now /\ d.mark <= n
        /\ now - e.now <= Slow
    BY <1>1, <2>1 DEF Eval, EvalOK
  <2>3. Reach(d.now)' = IF Told = {} THEN e.now ELSE Reach(d.now)
    BY <1>1, <1>3, <1>4, <1>7, <1>8 DEF Reach
  <2>4. ASSUME NEW i \in 1..Len(trail'), d.rule = 1, trail'[i].event \in Failures, i <= d.mark,
               trail'[i].at > Reach(d.now)' - Day
        PROVE  i \in listed \cup d.found
    <3>1. i \in 1..n /\ trail'[i] = trail[i]
      <4>1. i \in 1..n
        BY <1>1, <1>2, <2>2, <2>4
      <4> QED BY <1>4, <4>1
    <3>2. CASE Told # {}
      BY <2>1, <2>3, <2>4, <3>1, <3>2 DEF Carried
    <3>3. CASE Told = {}
      <4>1. Reach(e.now) = e.now /\ Reach(d.now) = d.now /\ trail[i].at > e.now - Day
        BY <2>3, <2>4, <3>1, <3>3 DEF Reach
      <4>2. trail[i].at \in Nat /\ Happened(i)
        BY <2>4, <3>1, Rows
      <4>3. PICK a \in Nat : a = trail[i].at
        BY <4>2
      <4>4. CASE trail[i].at > d.now - Day
        BY <2>1, <2>4, <3>1, <4>1, <4>4 DEF Carried
      <4>5. CASE trail[i].at <= d.now - Day
        <5>1. PICK t \in Nat, u \in Nat, w \in Nat : t = now /\ u = e.now /\ w = d.now
          BY <1>2, <2>2
        <5>2. a < e.now
          <6>1. a <= w - Day /\ w <= t /\ t - u <= Slow /\ Slow < Day /\ Day \in Nat /\ Slow \in Nat
            BY <1>2, <2>2, <4>3, <4>5, <5>1
          <6>2. a < u
            BY <6>1
          <6> QED BY <5>1, <6>2
        <5>3. i <= e.mark
          <6>1. i > e.mark => a >= e.now
            BY <1>1, <3>1, <4>2, <4>3 DEF EvalOK
          <6>2. i \in Int /\ e.mark \in Int /\ e.now \in Int
            BY <1>2, <2>2, <3>1
          <6>3. ~ (a >= e.now)
            BY <5>1, <5>2
          <6> QED BY <6>1, <6>2, <6>3
        <5> QED BY <1>6, <2>4, <3>1, <4>1, <5>3
      <4>6. a > d.now - Day \/ a <= d.now - Day
        <5>1. PICK w \in Nat : w = d.now
          BY <1>2, <2>2
        <5>2. a > w - Day \/ a <= w - Day
          BY <1>2, <4>3
        <5> QED BY <5>1, <5>2
      <4> QED BY <4>4, <4>5, <4>3, <4>6
    <3> QED BY <3>2, <3>3
  <2>5. d.rule = 1 /\ d.step = "record" => d.found \subseteq listed
    BY <2>1 DEF Carried
  <2> QED BY <1>1, <2>4, <2>5 DEF Carried
<1> QED BY <1>10, <1>11

\* A row that is written is no alert.
LEMMA RowGrows ==
    ASSUME Kept, NEW event, event # "alert.sent", NEW note, NEW w, Over(w, event, note)
    PROVE  Grows /\ Told' = Told /\ UNCHANGED <<now, listed, evals>>
<1>1. trail' = Append(trail, Row(event, note)) /\ UNCHANGED <<now, listed, evals>>
  BY DEF Over, alerting
<1>2. Len(trail) \in Nat /\ trail \in Seq(TrailRow)
  BY Rows
<1>3. Len(trail') = Len(trail) + 1 /\ trail'[Len(trail) + 1] = Row(event, note)
      /\ \A i \in 1..Len(trail) : trail'[i] = trail[i]
  BY <1>1, <1>2
<1>4. trail'[Len(trail) + 1].event # "alert.sent"
  BY <1>3 DEF Row
<1>5. \A i : i \in Told' <=> i \in Told
  BY <1>2, <1>3, <1>4 DEF Told
<1> QED BY <1>1, <1>2, <1>3, <1>5 DEF Grows

\* Every step keeps what an evaluation carries complete.
LEMMA SkipsStep ==
    Kept /\ BackupsOK /\ Skips /\ Kept' /\ [HostNext]_hostVars => Skips'
<1> SUFFICES ASSUME Kept, BackupsOK, Skips, Kept', [HostNext]_hostVars PROVE Skips'
  OBVIOUS
<1> USE OperationsAssumption
<1>1. ASSUME Grows, Told' = Told
      PROVE  NothingSkipped' /\ \A e \in evals : Carried(e)'
  <2>1. \A e \in evals : e \in Eval /\ EvalOK(e) /\ Carried(e)
    BY DEF Kept, Skips
  <2> QED BY <1>1, <2>1, StillCarried DEF Skips
<1>2. ASSUME UNCHANGED <<trail, listed>> PROVE Grows /\ Told' = Told
  <2>1. Len(trail) \in Nat
    BY Rows
  <2> QED BY <1>2, <2>1 DEF Grows, Told
<1>3. CASE UNCHANGED <<trail, listed, evals>>
  BY <1>1, <1>2, <1>3 DEF Skips
<1>4. CASE \/ \E j \in Jobs : ScheduleDaily(j) \/ ByHand(j)
           \/ \E w \in Runners : CreateBundle(w) \/ Put(w) \/ DrillPick(w)
           \/ \E part \in {"rows", "keys"} : Write(part)
           \/ SetRecipients \/ ServiceStarts \/ Tick \/ UNCHANGED hostVars
  BY <1>3, <1>4 DEF ScheduleDaily, ByHand, CreateBundle, Put, DrillPick, Write, SetRecipients,
                    ServiceStarts, Tick, hostVars, trails, alerting
<1>5. ASSUME NEW w \in Runners,
             BackupDone(w) \/ RunFails(w) \/ NoBundles(w) \/ DrillJudge(w)
      PROVE  Skips'
  <2>1. PICK event \in Events \ {"alert.sent"}, note \in Notes : Over(w, event, note)
    BY <1>5, RunsSay
  <2>2. Grows /\ Told' = Told /\ UNCHANGED evals
    BY <2>1, RowGrows
  <2> QED BY <1>1, <2>2 DEF Skips
<1>6. CASE StartAlerts
  <2>1. PICK e : e = [now |-> now, mark |-> Len(trail), to |-> recipients, rule |-> 1,
                      step |-> "mail", found |-> {}]
    OBVIOUS
  <2>2. evals' = evals \cup Asked(e, 1) /\ UNCHANGED <<trail, listed>>
    BY <1>6, <2>1 DEF StartAlerts, trails
  <2>3. ASSUME NEW x \in Asked(e, 1) PROVE Carried(x)'
    <3>1. Carried(x)
      BY <2>1, FirstCarries DEF Skips
    <3> QED BY <2>2, <3>1 DEF Carried, Reach, Told
  <2> QED BY <1>1, <1>2, <2>2, <2>3 DEF Skips
<1>7. ASSUME NEW e \in evals, Mail(e) PROVE Skips'
  <2>1. PICK x : x = [e EXCEPT !.step = "record"]
    OBVIOUS
  <2>2. /\ evals' = (evals \ {e}) \cup {x} /\ UNCHANGED trail
        /\ listed' = listed \cup e.found
    BY <1>7, <2>1 DEF Mail
  <2>3. Grows /\ Told' = Told
    <3>1. Len(trail) \in Nat
      BY Rows
    <3> QED BY <2>2, <3>1 DEF Grows, Told
  <2>4. Carried(e)' /\ e \in Eval
    BY <1>1, <2>3 DEF Kept
  <2>5. x.rule = e.rule /\ x.found = e.found /\ x.mark = e.mark /\ x.now = e.now
    BY <2>1, <2>4 DEF Eval
  <2>6. Carried(x)'
    BY <2>2, <2>4, <2>5 DEF Carried
  <2> QED BY <1>1, <2>2, <2>3, <2>6 DEF Skips
<1>8. ASSUME NEW e \in evals, Record(e) PROVE Skips'
  <2>1. evals' = (evals \ {e}) \cup Asked(e, e.rule + 1) /\ e \in Eval /\ EvalOK(e)
    BY <1>8 DEF Record, Kept
  <2>2. NothingSkipped' /\ \A d \in evals : Carried(d)'
    <3>1. CASE e.rule = 1
      BY <1>8, <3>1, AlertCarries
    <3>2. CASE e.rule # 1
      BY <1>1, <1>8, <3>2, AlertGrows
    <3> QED BY <3>1, <3>2
  <2>3. ASSUME NEW x \in Asked(e, e.rule + 1) PROVE x.rule # 1
    <3>1. e.rule = 1
      <4>1. e.rule \in 1..2
        BY <2>1 DEF Eval
      <4>2. e.rule # 2
        BY DEF Asked, Rules
      <4> QED BY <4>1, <4>2
    <3>2. x.rule \in 2..2
      BY <2>1, <3>1, AskedKept
    <3> QED BY <3>2
  <2>4. \A x \in Asked(e, e.rule + 1) : Carried(x)'
    BY <2>3 DEF Carried
  <2> QED BY <2>1, <2>2, <2>4 DEF Skips
<1>9. CASE ServiceStops
  BY <1>1, <1>2, <1>9 DEF ServiceStops, trails, Skips
<1> QED BY <1>4, <1>5, <1>6, <1>7, <1>8, <1>9 DEF HostNext

\* For any rhythm of alerts, however many evaluations overlap, and with the process stopped at any
\* point: no failure falls between two alerts (alerts.ts 10-16).
THEOREM NoFailureSkipped == HostSpec => []NothingSkipped
<1>1. HostInit => Skips
  BY SkipsAtFirst
<1>2. Kept /\ BackupsOK /\ Skips /\ (Kept /\ BackupsOK)' /\ [HostNext]_hostVars => Skips'
  BY SkipsStep
<1>3. Skips => NothingSkipped
  BY DEF Skips
<1> QED BY <1>1, <1>2, <1>3, HostInvariant, PTL DEF HostSpec

-----------------------------------------------------------------------------
(* A missing backup is noticed. *)

Created == {i \in 1..Len(trail) : trail[i].event = "backup.created"}

Due == Max({LastBackup + BackupOverdue, watched})

Noted ==
    \E i \in 1..Len(trail) :
      trail[i].event = "alert.sent" /\ trail[i].note = "backup_overdue" /\ trail[i].at >= LastBackup

Coming == \E e \in evals : e.now >= LastBackup + BackupOverdue /\ e.now <= Due + 1

Watching ==
    /\ watched # Nothing => watched \in Nat /\ watched <= now /\ up /\ recipients
    /\ up => alarm \in {now, now + 1}
    /\ watched # Nothing /\ alarm > Due + 1 => Noted \/ Coming

\* The row of the last backup, or the first of the trail.
LEMMA LastBackupIs ==
    ASSUME Kept
    PROVE  /\ LastBackup \in Nat /\ LastBackup <= now
           /\ Created = {} => LastOf(Created) = 0 /\ LastBackup = 0
           /\ Created # {} => /\ LastOf(Created) \in Created /\ LastBackup = trail[LastOf(Created)].at
                              /\ \A i \in Created : i <= LastOf(Created)
<1>1. Created \in SUBSET (0..Len(trail)) /\ Created \subseteq 1..Len(trail)
      /\ Len(trail) \in Nat /\ Len(trail) >= 1
  BY Rows DEF Created
<1>2. PICK T : T = {1} \cup Created
  OBVIOUS
<1>3. T \in SUBSET (0..Len(trail)) /\ T # {} /\ T \subseteq 1..Len(trail)
  BY <1>1, <1>2
<1>4. Max(T) \in T /\ \A i \in T : i <= Max(T)
  BY <1>1, <1>3, MaxOf
<1>5. LastBackup = trail[Max(T)].at
  BY <1>2, <1>3 DEF LastBackup, LastOf, Created
<1>6. LastBackup \in Nat /\ LastBackup <= now
  BY <1>3, <1>4, <1>5, Rows
<1>7. CASE Created = {}
  <2>1. Max(T) = 1
    BY <1>2, <1>4, <1>7
  <2> QED BY <1>5, <1>6, <1>7, <2>1 DEF LastOf, Kept, TrailOK
<1>8. CASE Created # {}
  <2>1. LastOf(Created) = Max(Created) /\ Max(Created) \in Created
        /\ \A i \in Created : i <= Max(Created)
    BY <1>1, <1>8, MaxOf DEF LastOf
  <2>2. PICK m \in Created : m = Max(Created)
    BY <2>1
  <2>3. m \in 1..Len(trail) /\ \A i \in T : i <= m
    BY <1>1, <1>2, <2>1, <2>2
  <2>4. m \in T /\ m <= Max(T) /\ Max(T) <= m /\ Max(T) \in Nat
    <3>1. m \in T
      BY <1>2
    <3>2. Max(T) \in 1..Len(trail)
      BY <1>3, <1>4
    <3> QED BY <1>1, <1>4, <2>3, <3>1, <3>2
  <2>5. Max(T) = m
    BY <2>3, <2>4
  <2> QED BY <1>5, <1>6, <1>8, <2>1, <2>2, <2>5
<1> QED BY <1>6, <1>7, <1>8

\* The later of two times.
LEMMA LaterOf ==
    ASSUME NEW a \in Nat, NEW b \in Nat
    PROVE  /\ Max({a, b}) \in Nat /\ Max({a, b}) >= a /\ Max({a, b}) >= b
<1>1. {a, b} \in SUBSET (0..(a + b)) /\ {a, b} # {} /\ a + b \in Nat
  OBVIOUS
<1>2. Max({a, b}) \in {a, b} /\ \A i \in {a, b} : i <= Max({a, b})
  BY <1>1, MaxOf
<1> QED BY <1>2

\* When a backup is due at the latest.
LEMMA DueIs ==
    ASSUME Kept, OperationsAssumption, watched \in Nat
    PROVE  Due \in Nat /\ Due >= LastBackup + BackupOverdue /\ Due >= watched
<1>1. LastBackup + BackupOverdue \in Nat
  BY LastBackupIs, OperationsAssumption
<1> QED BY <1>1, LaterOf DEF Due

\* At the start nothing is overdue.
LEMMA WatchingAtFirst == HostInit => Watching
<1> SUFFICES ASSUME HostInit PROVE Watching
  OBVIOUS
<1>1. now = 0 /\ up = TRUE /\ alarm = 1 /\ watched = IF recipients THEN 0 ELSE Nothing
  BY DEF HostInit
<1>2. watched # Nothing => recipients /\ watched = 0
  BY <1>1
<1>3. watched # Nothing => Due \in Nat
  BY <1>2, KeptAtFirst, DueIs, OperationsAssumption
<1> QED BY <1>1, <1>2, <1>3 DEF Watching

\* An evaluation of a time when a backup was overdue fires the rule, or its alert is there.
LEMMA OverdueFires ==
    ASSUME Kept, OperationsAssumption, NEW e, e.now \in Nat, e.to = TRUE,
           e.now >= LastBackup + BackupOverdue, NEW from \in 1..2, ~ Noted
    PROVE  Asked(e, from) # {}
<1>1. /\ Day \in Nat /\ BackupOverdue \in Nat /\ Day < BackupOverdue /\ LastBackup \in Nat
  BY LastBackupIs, OperationsAssumption
<1>2. ~ StillQuiet(e, "backup_overdue")
  <2> DEFINE alerts == {i \in 1..Len(trail) :
                          trail[i].event = "alert.sent" /\ trail[i].note = "backup_overdue"}
             last == LastAlert("backup_overdue")
  <2>1. last = IF alerts = {} THEN 0 ELSE Max(alerts)
    BY DEF LastAlert, LastOf
  <2>2. alerts \in SUBSET (0..Len(trail)) /\ Len(trail) \in Nat
    BY Rows
  <2>3. last # 0 => last \in alerts
    BY <2>1, <2>2, MaxOf
  <2>4. ASSUME last # 0 PROVE e.now - trail[last].at >= Day
    <3>1. last \in 1..Len(trail) /\ ~ (trail[last].at >= LastBackup)
      BY <2>3, <2>4 DEF Noted
    <3>2. PICK a \in Nat : a = trail[last].at
      BY <3>1, Rows
    <3>3. a < LastBackup
      BY <1>1, <3>1, <3>2
    <3>4. PICK t \in Nat, k \in Nat : t = e.now /\ k = LastBackup
      BY <1>1
    <3>5. a < k /\ t >= k + BackupOverdue
      BY <3>3, <3>4
    <3>6. t - a >= Day
      BY <1>1, <3>5
    <3> QED BY <3>2, <3>4, <3>6
  <2>5. QuietFor["backup_overdue"] = Day
    BY DEF QuietFor
  <2>6. last # 0 => e.now - trail[last].at \in Int
    <3>1. ASSUME last # 0 PROVE last \in 1..Len(trail)
      BY <2>3, <3>1
    <3>2. ASSUME NEW a \in Nat PROVE e.now - a \in Int
      BY <1>1
    <3> QED BY <3>1, <3>2, Rows
  <2> HIDE DEF last
  <2>7. ~ (last # 0 /\ e.now - trail[last].at < Day)
    BY <1>1, <2>4, <2>6
  <2> QED BY <2>5, <2>7 DEF StillQuiet, last
<1>3. Overdue(e)
  <2>1. /\ trail[1].at = 0 /\ e.now - trail[1].at >= BackupOverdue
    <3>1. trail[1].at = 0
      BY DEF Kept, TrailOK
    <3> QED BY <1>1, <3>1
  <2>2. LastOf(Created) # 0 => e.now - trail[LastOf(Created)].at >= BackupOverdue
    <3>1. LastOf(Created) # 0 => trail[LastOf(Created)].at = LastBackup
      BY LastBackupIs
    <3> QED BY <1>1, <3>1
  <2> QED BY <2>1, <2>2 DEF Overdue, Created
<1>4. Fires(e, Rules[2]) /\ 2 \in from..Len(Rules)
  BY <1>2, <1>3 DEF Fires, Rules
<1> QED BY <1>4 DEF Asked

\* The trail grows, and not by a backup.
LEMMA LastBackupBy ==
    Kept => /\ Created = {} => LastBackup = 0
            /\ Created # {} => /\ LastOf(Created) \in Created /\ LastBackup = trail[LastOf(Created)].at
                               /\ \A i \in Created : i <= LastOf(Created)
BY LastBackupIs

\* The same of the next state.
LEMMA LastBackupNext ==
    ASSUME Kept'
    PROVE  /\ Created' = {} => LastBackup' = 0
           /\ Created' # {} => /\ LastOf(Created') \in Created'
                               /\ LastBackup' = trail'[LastOf(Created')].at
                               /\ \A i \in Created' : i <= LastOf(Created')
<1>1. (Kept => /\ Created = {} => LastBackup = 0
               /\ Created # {} => /\ LastOf(Created) \in Created /\ LastBackup = trail[LastOf(Created)].at
                                  /\ \A i \in Created : i <= LastOf(Created))'
  BY LastBackupBy, PTL
<1> QED BY <1>1

\* When a backup is due, as an implication, to say it of the next state.
LEMMA DueBy ==
    Kept /\ watched \in Nat
      => Due \in Nat /\ Due >= LastBackup + BackupOverdue /\ Due >= watched /\ LastBackup \in Nat
BY DueIs, LastBackupIs, OperationsAssumption

\* When a backup is due in the next state.
LEMMA DueNext ==
    ASSUME Kept', watched' \in Nat
    PROVE  /\ Due' \in Nat /\ Due' >= LastBackup' + BackupOverdue /\ Due' >= watched'
           /\ LastBackup' \in Nat
<1>1. (Kept /\ watched \in Nat
        => Due \in Nat /\ Due >= LastBackup + BackupOverdue /\ Due >= watched /\ LastBackup \in Nat)'
  BY DueBy, PTL
<1> QED BY <1>1

\* The trail grows, and not by a backup: the last one stays, and so does its alert.
LEMMA SameBackup ==
    ASSUME Kept, Kept', Grows, Created' = Created
    PROVE  LastBackup' = LastBackup /\ (Noted => Noted')
<1>1. /\ Created' = {} => LastBackup' = 0
      /\ Created' # {} => LastBackup' = trail'[LastOf(Created')].at
  BY LastBackupNext
<1>2. LastBackup' = LastBackup
  <2>1. CASE Created = {}
    <3>1. LastBackup = 0 /\ LastBackup' = 0
      BY <1>1, <2>1, LastBackupIs
    <3> QED BY <3>1
  <2>2. CASE Created # {}
    <3>1. LastBackup' = trail'[LastOf(Created)].at /\ LastBackup = trail[LastOf(Created)].at
          /\ LastOf(Created) \in 1..Len(trail)
      BY <1>1, <2>2, LastBackupIs DEF Created
    <3> QED BY <3>1 DEF Grows
  <2> QED BY <2>1, <2>2
<1>3. Len(trail) \in Nat /\ Len(trail') \in Nat /\ Len(trail') >= Len(trail)
  BY Rows DEF Grows
<1>4. ASSUME NEW i \in 1..Len(trail) PROVE i \in 1..Len(trail') /\ trail'[i] = trail[i]
  BY <1>3 DEF Grows
<1> QED BY <1>2, <1>4 DEF Noted

\* Whoever is not waited for any more, or not for long enough.
LEMMA WatchedAnew ==
    ASSUME \/ watched' = Nothing
           \/ /\ watched' \in Nat /\ watched' <= now' /\ up' /\ recipients'
              /\ alarm' <= Due' + 1,
           up' => alarm' \in {now', now' + 1},
           now' \in Nat, alarm' \in Int, Due' \in Nat \/ watched' = Nothing
    PROVE  Watching'
<1>1. watched' # Nothing => ~ (alarm' > Due' + 1)
  OBVIOUS
<1> QED BY <1>1 DEF Watching

\* Nothing the watch depends on changes, except that it may be over.
LEMMA StillWatched ==
    ASSUME Watching, UNCHANGED <<watched, alarm, up, recipients, now>>,
           LastBackup' = LastBackup, Noted => Noted', Coming => Coming' \/ Noted'
    PROVE  Watching'
<1>1. Due' = Due
  BY DEF Due
<1> QED BY <1>1 DEF Watching

\* The interval is never more than one tick away.
LEMMA NotYetDue ==
    ASSUME NEW a, NEW n \in Nat, NEW d \in Nat, a \in {n, n + 1}, d >= n
    PROVE  a \in Int /\ a <= d + 1
OBVIOUS

\* A backup is made: nothing is overdue now.
LEMMA BackupResets ==
    ASSUME Kept, Kept', Watching, NEW w \in Runners, BackupDone(w)
    PROVE  Watching'
<1> USE OperationsAssumption
<1>1. /\ trail' = Append(trail, Row("backup.created", Nothing))
      /\ UNCHANGED <<now, up, recipients, alarm, watched>>
  BY DEF BackupDone, Over, alerting
<1>2. Len(trail) \in Nat /\ trail \in Seq(TrailRow) /\ now \in Nat
  BY Rows
<1>3. Len(trail') = Len(trail) + 1 /\ trail'[Len(trail) + 1] = Row("backup.created", Nothing)
  BY <1>1, <1>2
<1>4. trail'[Len(trail) + 1].event = "backup.created" /\ trail'[Len(trail) + 1].at = now
  BY <1>3 DEF Row
<1>5. Len(trail) + 1 \in Created' /\ Created' \subseteq 1..(Len(trail) + 1)
  BY <1>2, <1>3, <1>4 DEF Created
<1>6. LastOf(Created') \in Created' /\ Len(trail) + 1 <= LastOf(Created')
      /\ LastBackup' = trail'[LastOf(Created')].at
  BY <1>5, LastBackupNext
<1>7. LastOf(Created') = Len(trail) + 1
  <2>1. PICK m \in 1..(Len(trail) + 1) : m = LastOf(Created')
    BY <1>5, <1>6
  <2> QED BY <1>2, <1>6, <2>1
<1>8. LastBackup' = now
  BY <1>4, <1>6, <1>7
<1>9. CASE watched' = Nothing
  BY <1>1, <1>2, <1>9 DEF Watching
<1>10. CASE watched' # Nothing
  <2>1. watched' \in Nat /\ watched' <= now' /\ up' /\ recipients' /\ alarm \in {now, now + 1}
    BY <1>1, <1>10 DEF Watching
  <2>2. Due' \in Nat /\ Due' >= now + BackupOverdue
    BY <1>8, <2>1, DueNext
  <2>3. alarm' <= Due' + 1 /\ alarm' \in Int
    <3>1. BackupOverdue \in Nat
      BY OperationsAssumption
    <3>2. PICK d : d = Due'
      OBVIOUS
    <3>3. d \in Nat /\ d >= now
      BY <1>2, <2>2, <3>1, <3>2
    <3> QED BY <1>1, <1>2, <2>1, <3>2, <3>3, NotYetDue
  <2> QED BY <1>1, <1>2, <2>1, <2>2, <2>3, WatchedAnew
<1> QED BY <1>9, <1>10

\* A failure or a drill is recorded: the last backup is what it was.
LEMMA RowWatched ==
    ASSUME Kept, Kept', BackupsOK, Watching, NEW w \in Runners,
           RunFails(w) \/ NoBundles(w) \/ DrillJudge(w)
    PROVE  Watching'
<1>1. PICK event, note :
        event \in Events \ {"alert.sent", "backup.created"} /\ Over(w, event, note)
  BY DEF RunFails, NoBundles, DrillJudge, Events
<1>2. Grows /\ UNCHANGED <<now, evals, up, recipients, alarm, watched>>
  BY <1>1, RowGrows DEF Over, alerting
<1>3. Created' = Created
  <2>1. trail' = Append(trail, Row(event, note)) /\ Len(trail) \in Nat /\ trail \in Seq(TrailRow)
    BY <1>1, Rows DEF Over
  <2>2. Len(trail') = Len(trail) + 1 /\ trail'[Len(trail) + 1] = Row(event, note)
        /\ \A i \in 1..Len(trail) : trail'[i] = trail[i]
    BY <2>1
  <2>3. trail'[Len(trail) + 1].event # "backup.created"
    BY <1>1, <2>2 DEF Row
  <2>4. \A i : i \in Created' <=> i \in Created
    BY <2>1, <2>2, <2>3 DEF Created
  <2> QED BY <2>4
<1>4. LastBackup' = LastBackup /\ (Noted => Noted')
  BY <1>2, <1>3, SameBackup
<1>5. Coming => Coming'
  BY <1>2, <1>4 DEF Coming, Due
<1> QED BY <1>2, <1>4, <1>5, StillWatched

\* The interval fires: an overdue backup is found now, if it was not before.
LEMMA AskingWatched ==
    ASSUME Kept, Kept', Watching, StartAlerts
    PROVE  Watching'
<1>1. PICK e : e = [now |-> now, mark |-> Len(trail), to |-> recipients, rule |-> 1,
                    step |-> "mail", found |-> {}]
  OBVIOUS
<1>2. /\ up /\ alarm = now /\ alarm' = now + 1 /\ evals' = evals \cup Asked(e, 1)
      /\ UNCHANGED <<now, up, trail, recipients, watched>>
  BY <1>1 DEF StartAlerts, trails
<1>3. LastBackup' = LastBackup /\ Due' = Due /\ (Noted => Noted') /\ (Coming => Coming')
  BY <1>2 DEF LastBackup, Due, Noted, Coming
<1>4. now \in Nat
  BY Rows
<1>5. ASSUME watched' # Nothing, alarm' > Due' + 1 PROVE Noted' \/ Coming'
  <2>1. watched \in Nat /\ watched <= now /\ recipients
    BY <1>2, <1>5 DEF Watching
  <2>2. Due \in Nat /\ Due >= LastBackup + BackupOverdue /\ LastBackup \in Nat
    BY <2>1, DueIs, LastBackupIs, OperationsAssumption
  <2>3. CASE alarm > Due + 1
    BY <1>2, <1>3, <1>5, <2>3 DEF Watching
  <2>4. CASE now <= Due + 1 /\ ~ Noted
    <3>1. BackupOverdue \in Nat
      BY OperationsAssumption
    <3>2. now >= LastBackup + BackupOverdue
      BY <1>2, <1>3, <1>4, <1>5, <2>2, <3>1
    <3>3. e.now = now /\ e.to = TRUE
      BY <1>1, <2>1 DEF Kept
    <3>4. 1 \in 1..2
      OBVIOUS
    <3>5. PICK x : x \in Asked(e, 1)
      BY <1>4, <2>4, <3>2, <3>3, <3>4, OverdueFires, OperationsAssumption
    <3>6. x.now = now
      BY <1>1, <3>5, FirstAsked, OperationsAssumption
    <3> QED BY <1>2, <1>3, <2>4, <3>2, <3>5, <3>6 DEF Coming
  <2> QED BY <1>2, <1>3, <1>4, <2>2, <2>3, <2>4
<1> QED BY <1>2, <1>4, <1>5 DEF Watching

\* An evaluation goes on, or its alert is there.
LEMMA EvaluationWatched ==
    ASSUME Kept, Kept', Watching, NEW e \in evals, Mail(e) \/ Record(e)
    PROVE  Watching'
<1>1. e \in Eval /\ EvalOK(e) /\ e.now \in Nat /\ e.rule \in 1..2
  BY DEF Kept, Eval
<1>2. CASE Mail(e)
  <2>1. PICK x : x = [e EXCEPT !.step = "record"]
    OBVIOUS
  <2>2. /\ evals' = (evals \ {e}) \cup {x}
        /\ UNCHANGED <<now, up, trail, recipients, alarm, watched>>
    BY <1>2, <2>1 DEF Mail
  <2>3. LastBackup' = LastBackup /\ Due' = Due /\ (Noted => Noted')
    BY <2>2 DEF LastBackup, Due, Noted
  <2>4. x.now = e.now
    BY <1>1, <2>1 DEF Eval
  <2>5. Coming => Coming'
    BY <2>2, <2>3, <2>4 DEF Coming
  <2> QED BY <2>2, <2>3, <2>5, StillWatched
<1>3. CASE Record(e)
  <2>1. /\ evals' = (evals \ {e}) \cup Asked(e, e.rule + 1)
        /\ UNCHANGED <<now, up, recipients, alarm, watched>>
    BY <1>3 DEF Record
  <2>2. /\ Grows /\ Len(trail') = Len(trail) + 1 /\ trail'[Len(trail) + 1] = AlertSent(e)
    BY <1>3, AlertGrows
  <2>3. Len(trail) \in Nat
    BY Rows
  <2>4. Created' = Created
    <3>1. trail'[Len(trail) + 1].event # "backup.created"
      BY <2>2 DEF AlertSent
    <3>2. \A i : i \in Created' <=> i \in Created
      BY <2>2, <2>3, <3>1 DEF Created, Grows
    <3> QED BY <3>2
  <2>5. LastBackup' = LastBackup /\ (Noted => Noted')
    BY <2>2, <2>4, SameBackup
  <2>6. Due' = Due
    BY <2>1, <2>5 DEF Due
  <2>7. ASSUME e.now >= LastBackup + BackupOverdue, e.now <= Due + 1
        PROVE  Coming' \/ Noted'
    <3>1. LastBackup \in Nat /\ BackupOverdue \in Nat /\ e.to = TRUE
      BY <1>1, LastBackupIs, OperationsAssumption DEF EvalOK, Eval
    <3>2. CASE e.rule = 1 /\ ~ Noted
      <4>1. 2 \in 1..2 /\ e.rule + 1 = 2
        BY <3>2
      <4>2. PICK x : x \in Asked(e, 2)
        BY <1>1, <2>7, <3>1, <3>2, <4>1, OverdueFires, OperationsAssumption
      <4>3. x.now = e.now
        BY <1>1, <4>1, <4>2, AskedKept
      <4> QED BY <2>1, <2>5, <2>6, <2>7, <4>1, <4>2, <4>3 DEF Coming
    <3>3. CASE e.rule = 2
      <4>1. trail'[Len(trail) + 1].event = "alert.sent" /\ trail'[Len(trail) + 1].at = e.now
            /\ trail'[Len(trail) + 1].note = "backup_overdue"
        BY <2>2, <3>3 DEF AlertSent, Rules
      <4>2. Len(trail) + 1 \in 1..Len(trail') /\ e.now >= LastBackup'
        BY <1>1, <2>2, <2>3, <2>5, <2>7, <3>1
      <4> QED BY <4>1, <4>2 DEF Noted
    <3> QED BY <1>1, <2>5, <3>2, <3>3
  <2>8. Coming => Coming' \/ Noted'
    <3>1. SUFFICES ASSUME NEW d \in evals, d.now >= LastBackup + BackupOverdue, d.now <= Due + 1
                   PROVE  Coming' \/ Noted'
      BY DEF Coming
    <3>2. CASE d = e
      BY <2>7, <3>1, <3>2
    <3>3. CASE d # e
      BY <2>1, <2>5, <2>6, <3>1, <3>3 DEF Coming
    <3> QED BY <3>2, <3>3
  <2> QED BY <2>1, <2>5, <2>8, StillWatched
<1> QED BY <1>2, <1>3

\* Every step keeps the watch: the alert is there, or an evaluation that will write it.
LEMMA WatchStep ==
    Kept /\ BackupsOK /\ Watching /\ Kept' /\ [HostNext]_hostVars => Watching'
<1> SUFFICES ASSUME Kept, BackupsOK, Watching, Kept', [HostNext]_hostVars PROVE Watching'
  OBVIOUS
<1>1. CASE UNCHANGED <<now, up, trail, recipients, evals, alarm, watched>>
  <2>1. LastBackup' = LastBackup /\ (Noted => Noted')
    BY <1>1 DEF LastBackup, Noted
  <2>2. Coming => Coming'
    BY <1>1, <2>1 DEF Coming, Due
  <2> QED BY <1>1, <2>1, <2>2, StillWatched
<1>2. CASE \/ \E j \in Jobs : ScheduleDaily(j) \/ ByHand(j)
           \/ \E w \in Runners : CreateBundle(w) \/ Put(w) \/ DrillPick(w)
           \/ \E part \in {"rows", "keys"} : Write(part)
           \/ UNCHANGED hostVars
  BY <1>1, <1>2 DEF ScheduleDaily, ByHand, CreateBundle, Put, DrillPick, Write,
                    hostVars, trails, alerting
<1>3. CASE \E w \in Runners : BackupDone(w)
  BY <1>3, BackupResets
<1>4. CASE \E w \in Runners : RunFails(w) \/ NoBundles(w) \/ DrillJudge(w)
  BY <1>4, RowWatched
<1>5. CASE StartAlerts
  BY <1>5, AskingWatched
<1>6. CASE \E e \in evals : Mail(e) \/ Record(e)
  BY <1>6, EvaluationWatched
<1>7. now \in Nat
  BY Rows
<1>8. CASE SetRecipients
  <2>1. /\ up /\ watched' = (IF recipients THEN Nothing ELSE now) /\ recipients' = ~recipients
        /\ UNCHANGED <<now, up, alarm>>
    BY <1>8 DEF SetRecipients
  <2>2. alarm' \in {now', now' + 1}
    BY <2>1 DEF Watching
  <2>3. CASE recipients
    BY <1>7, <2>1, <2>2, <2>3, WatchedAnew
  <2>4. CASE ~recipients
    <3>1. watched' \in Nat /\ watched' = now
      BY <1>7, <2>1, <2>4
    <3>2. Due' \in Nat /\ Due' >= now
      BY <3>1, DueNext
    <3>3. alarm' <= Due' + 1 /\ alarm' \in Int
      BY <1>7, <2>1, <2>2, <3>2, NotYetDue
    <3>4. watched' \in Nat /\ watched' <= now' /\ up' /\ recipients' /\ now' \in Nat
      <4>1. recipients' /\ up'
        BY <2>1, <2>4
      <4> QED BY <1>7, <2>1, <3>1, <4>1
    <3> QED BY <2>2, <3>2, <3>3, <3>4, WatchedAnew
  <2> QED BY <2>3, <2>4
<1>9. CASE ServiceStops
  <2>1. up' = FALSE /\ watched' = Nothing
    BY <1>9 DEF ServiceStops
  <2> QED BY <2>1 DEF Watching
<1>10. CASE ServiceStarts
  <2>1. /\ up' = TRUE /\ alarm' = now + 1 /\ watched' = (IF recipients THEN now ELSE Nothing)
        /\ UNCHANGED <<now, recipients>>
    BY <1>10 DEF ServiceStarts
  <2>2. CASE ~recipients
    BY <1>7, <2>1, <2>2, WatchedAnew
  <2>3. CASE recipients
    <3>1. Due' \in Nat /\ Due' >= now
      BY <1>7, <2>1, <2>3, DueNext
    <3>2. alarm' \in {now, now + 1}
      BY <2>1
    <3>3. alarm' <= Due' + 1 /\ alarm' \in Int
      BY <1>7, <3>1, <3>2, NotYetDue
    <3>4. watched' \in Nat /\ watched' <= now' /\ up' /\ recipients' /\ now' \in Nat
          /\ alarm' \in {now', now' + 1}
      BY <1>7, <2>1, <2>3
    <3> QED BY <3>1, <3>3, <3>4, WatchedAnew
  <2> QED BY <2>2, <2>3
<1>11. CASE Tick
  <2>1. /\ now' = now + 1 /\ (up => alarm > now)
        /\ UNCHANGED <<up, trail, recipients, evals, alarm, watched>>
    BY <1>11 DEF Tick, trails, alerting
  <2>2. LastBackup' = LastBackup /\ Due' = Due /\ Noted' = Noted /\ Coming' = Coming
    BY <2>1 DEF LastBackup, Due, Noted, Coming
  <2>3. up => alarm' \in {now', now' + 1}
    BY <1>7, <2>1 DEF Watching
  <2> QED BY <1>7, <2>1, <2>2, <2>3 DEF Watching
<1> QED BY <1>2, <1>3, <1>4, <1>5, <1>6, <1>8, <1>9, <1>10, <1>11 DEF HostNext

\* For any period, schedule and load: with the service up and recipients set, a missing backup is
\* alerted within one interval and the time a mail takes (daily.ts 5-7, alerts.ts 199-221).
THEOREM OverdueIsNoticed == HostSpec => []OverdueNoticed
<1>1. HostInit => Watching
  BY WatchingAtFirst
<1>2. Kept /\ BackupsOK /\ Watching /\ (Kept /\ BackupsOK)' /\ [HostNext]_hostVars => Watching'
  BY WatchStep
<1>3. Kept /\ Watching => OverdueNoticed
  <2> SUFFICES ASSUME Kept, Watching, watched # Nothing, now > Due + 1 + Slow PROVE Noted
    BY DEF OverdueNoticed, Due, Noted
  <2>1. watched \in Nat /\ alarm \in {now, now + 1} /\ now \in Nat /\ Slow \in Nat
    BY Rows, OperationsAssumption DEF Watching
  <2>2. Due \in Nat
    BY <2>1, DueIs, OperationsAssumption
  <2>3. alarm > Due + 1
    BY <2>1, <2>2
  <2>4. ~ Coming
    <3> SUFFICES ASSUME NEW e \in evals, e.now <= Due + 1 PROVE FALSE
      BY DEF Coming
    <3>1. e.now \in Nat /\ now - e.now <= Slow
      BY DEF Kept, EvalOK, Eval
    <3> QED BY <2>1, <2>2, <3>1
  <2> QED BY <2>3, <2>4 DEF Watching
<1> QED BY <1>1, <1>2, <1>3, HostInvariant, PTL DEF HostSpec

=============================================================================
