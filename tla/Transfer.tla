------------------------------ MODULE Transfer ------------------------------
(***************************************************************************)
(* Export, import and the seed file (admin/state.ts, cli/state.ts,         *)
(* boot/seed.ts).  An export reads the instance in three queries that run  *)
(* side by side.  An import plans first, then writes the file row by row,  *)
(* outside any transaction: it can stop after any write, be started again, *)
(* and find the console writing at the same time.                          *)
(*                                                                         *)
(* A state file has the form of the database without what it cannot carry: *)
(* no secrets, no credentials, no factors.  None stands for "not there".   *)
(* Of the settings nothing is kept: a file lists them and an import reads  *)
(* none.  Redirect URIs, names and the preset are data no property tells   *)
(* apart.                                                                  *)
(***************************************************************************)
EXTENDS Integers, Sequences, FiniteSets, SequencesExt

CONSTANTS
    Apps, People, Groups, Roles, None,
    Homes,          \* bound: the instances the model starts from
    Files,          \* bound: files that come from elsewhere, exported or written by hand
    MaxImports, MaxEdits, MaxExports    \* bounds

VARIABLES
    db,         \* the configuration: [app, kind, status, factor, members, grant]
    file,       \* the state file at hand, or None
    draft,      \* the export under way: the parts read so far
    import,     \* the import under way: [serving, file, before, kinds, todo], or None
    since,      \* history: the file and the database when this file was first started,
                \*          None once anything else has written since
    spent       \* the bounds used up

vars == <<db, file, draft, import, since, spent>>

Kinds == {"owner", "admin", "guest"}

Statuses == {"invited", "active", "suspended"}

Holders == People \cup Groups   \* who can be granted an app

AppData == [roles : SUBSET Roles, enabled : BOOLEAN]

State == [app     : [Apps -> AppData \cup {None}],
          kind    : [People -> Kinds \cup {None}],
          status  : [People -> Statuses \cup {None}],
          members : [Groups -> (SUBSET People) \cup {None}],
          grant   : [Holders -> [Apps -> (SUBSET Roles) \cup {None}]]]

Configuration == [app     : [Apps -> AppData \cup {None}],
                  kind    : [People -> Kinds \cup {None}],
                  status  : [People -> Statuses \cup {None}],
                  factor  : SUBSET People,
                  members : [Groups -> (SUBSET People) \cup {None}],
                  grant   : [Holders -> [Apps -> (SUBSET Roles) \cup {None}]]]

ASSUME TransferAssumption ==
    /\ None \notin Kinds \cup Statuses \cup AppData
    /\ \A people \in SUBSET People : people # None
    /\ People \cap Groups = {}
    /\ IsFiniteSet(Apps) /\ IsFiniteSet(People) /\ IsFiniteSet(Groups) /\ IsFiniteSet(Roles)
    /\ Homes \subseteq Configuration /\ Files \subseteq State
    /\ \A d \in Homes, p \in People : (d.kind[p] = None) = (d.status[p] = None)

Parts == {"apps", "people", "groups"}

There(d) == {p \in People : d.kind[p] # None}

MustHoldFactor(kind) == kind = "admin"

-----------------------------------------------------------------------------
(* What a file asks for, and what it is given.                             *)

\* Mutant: a person the file invents is not asked for a factor.
DecideKindsAsAsked(f, d) ==
    [p \in People |->
        CASE f.kind[p] = None \/ d.kind[p] = "owner" -> None
          [] f.kind[p] = "owner" -> IF d.kind[p] = None THEN "guest" ELSE None
          [] MustHoldFactor(f.kind[p]) /\ d.kind[p] # None /\ p \notin d.factor -> None
          [] OTHER -> f.kind[p]]

\* The kind each person ends up with; None is "left as they are".
DecideKinds(f, d) ==
    [p \in People |->
        CASE f.kind[p] = None \/ d.kind[p] = "owner" -> None
          [] f.kind[p] = "owner"
             \/ (MustHoldFactor(f.kind[p]) /\ p \notin d.factor) ->
                IF d.kind[p] = None THEN "guest" ELSE None
          [] OTHER -> f.kind[p]]

\* The writes of an import, in the file's order: apps, then people, then groups.
GrantSteps(f, h) ==
    LET granted == {a \in Apps : f.grant[h][a] # None}
    IN  [i \in 1..Cardinality(granted) |-> <<"grant", h, SetToSeq(granted)[i]>>]

AppSteps(f, a) ==
    LET roles == SetToSeq(f.app[a].roles)
    IN  <<<<"app", a>>>> \o [i \in 1..Len(roles) |-> <<"role", a, roles[i]>>]

PersonSteps(f, p) == <<<<"person", p>>>> \o GrantSteps(f, p)

GroupSteps(f, g) == <<<<"group", g>>, <<"clear", g>>>> \o GrantSteps(f, g)

InOrder(steps) ==
    LET row == SetToSeq(DOMAIN steps)
    IN  FlattenSeq([i \in 1..Len(row) |-> steps[row[i]]])

Apart(f) ==
    [apps   |-> InOrder([a \in {a \in Apps : f.app[a] # None} |-> AppSteps(f, a)]),
     people |-> InOrder([p \in {p \in People : f.kind[p] # None} |-> PersonSteps(f, p)]),
     groups |-> InOrder([g \in {g \in Groups : f.members[g] # None} |-> GroupSteps(f, g)])]

\* Mutant: groups are written before the people they list.
ScriptGroupsFirst(f) == Apart(f).apps \o Apart(f).groups \o Apart(f).people

Script(f) == Apart(f).apps \o Apart(f).people \o Apart(f).groups

-----------------------------------------------------------------------------
Init ==
    /\ db \in Homes
    /\ file \in Files \cup {None}
    /\ draft = <<>> /\ import = None /\ since = None
    /\ spent = [imports |-> 0, edits |-> 0, exports |-> 0]

(* Export: the three parts are asked for together and answered in any order. *)

Part(d, part) ==
    CASE part = "apps"   -> [app |-> d.app]
      [] part = "people" -> [kind |-> d.kind, status |-> d.status,
                             direct |-> [p \in People |-> d.grant[p]]]
      [] part = "groups" -> [members |-> d.members,
                             shared |-> [g \in Groups |-> d.grant[g]]]

ExportRead(part) ==
    /\ part \in Parts /\ spent.exports < MaxExports
    /\ spent.imports = 0   \* bound: the model exports before it imports
    /\ part \notin DOMAIN draft
    /\ draft' = [read \in DOMAIN draft \cup {part} |->
                    IF read = part THEN Part(db, part) ELSE draft[read]]
    /\ UNCHANGED <<db, file, import, since, spent>>

ExportDone ==
    /\ DOMAIN draft = Parts
    /\ file' = [app |-> draft["apps"].app,
                kind |-> draft["people"].kind, status |-> draft["people"].status,
                members |-> draft["groups"].members,
                grant |-> [h \in Holders |-> IF h \in People THEN draft["people"].direct[h]
                                                             ELSE draft["groups"].shared[h]]]
    /\ draft' = <<>>
    /\ spent' = [spent EXCEPT !.exports = @ + 1]
    /\ UNCHANGED <<db, import, since>>

\* The operator puts another file in its place.
Choose(f) ==
    /\ f # file /\ import = None /\ draft = <<>>
    /\ file' = f
    /\ UNCHANGED <<db, draft, import, since, spent>>

-----------------------------------------------------------------------------
(* Import: the plan, then one write after another.  The console, the host  *)
(* and the seed at boot all come here.                                     *)

Plan(serving) ==
    /\ file # None /\ draft = <<>> /\ import = None /\ spent.imports < MaxImports
    /\ import' = [serving |-> serving, file |-> file, before |-> db,
                  kinds |-> DecideKinds(file, db), todo |-> Script(file)]
    /\ since' = IF since # None /\ since.file = file THEN since ELSE [file |-> file, db |-> db]
    /\ spent' = [spent EXCEPT !.imports = @ + 1]
    /\ UNCHANGED <<db, file, draft>>

\* The console's route is the owner's, with a proof that is fresh.
ImportRoute == (\E p \in People : db.kind[p] = "owner") /\ Plan(TRUE)

\* On the host: cli/state.js --import.
ImportOnHost == Plan(TRUE)

\* The seed is imported at every start, before the service answers anybody.
SeedOnBoot == Plan(FALSE)

Doing(kind) == import # None /\ import.todo # <<>> /\ Head(import.todo)[1] = kind

\* The write is made, and the import goes on with what is left -- after `first`,
\* the second half of this write.
Written(d, first) ==
    /\ db' = d
    /\ import' = [import EXCEPT !.todo = first \o Tail(@)]
    /\ UNCHANGED <<file, draft, since, spent>>

UpsertApp ==
    /\ Doing("app")
    /\ LET a == Head(import.todo)[2]
           kept == IF db.app[a] = None THEN {} ELSE db.app[a].roles
       IN  Written([db EXCEPT !.app[a] = [roles |-> kept, enabled |-> import.file.app[a].enabled]], <<>>)

\* The app's id was read by the upsert before: if the app is gone, the write fails.
UpsertRole ==
    /\ Doing("role")
    /\ LET a == Head(import.todo)[2]
           r == Head(import.todo)[3]
       IN  /\ db.app[a] # None
           /\ Written([db EXCEPT !.app[a].roles = @ \cup {r}], <<>>)

\* Mutant: somebody purged since the plan, whose kind it left alone, is created with none.
UpsertPersonUnnamed ==
    /\ Doing("person")
    /\ LET p == Head(import.todo)[2]
           decided == import.kinds[p]
       IN  Written([db EXCEPT !.kind[p] = IF decided = None THEN @ ELSE decided,
                              !.status[p] = IF @ = None THEN "invited" ELSE @], <<>>)

UpsertPerson ==
    /\ Doing("person")
    /\ LET p == Head(import.todo)[2]
           decided == import.kinds[p]
           created == [db EXCEPT
                !.kind[p] = IF decided = None THEN "guest" ELSE decided,
                !.status[p] = IF import.file.status[p] = "suspended" THEN "suspended" ELSE "invited"]
           updated == [db EXCEPT !.kind[p] = IF decided = None THEN @ ELSE decided]
       IN  Written(IF db.kind[p] = None THEN created ELSE updated, <<>>)

\* The holder's grant is there and empty; the roles found now are put in next.
ReplaceGrant ==
    /\ Doing("grant")
    /\ LET h == Head(import.todo)[2]
           a == Head(import.todo)[3]
       IN  IF db.app[a] = None
           THEN Written(db, <<>>)
           ELSE /\ h \in There(db) \/ (h \in Groups /\ db.members[h] # None)
                /\ Written([db EXCEPT !.grant[h][a] = {}],
                           <<<<"fill", h, a, import.file.grant[h][a] \cap db.app[a].roles>>>>)

FillGrant ==
    /\ Doing("fill")
    /\ LET h == Head(import.todo)[2]
           a == Head(import.todo)[3]
           roles == Head(import.todo)[4]
       IN  /\ db.grant[h][a] # None /\ roles \subseteq db.app[a].roles
           /\ Written([db EXCEPT !.grant[h][a] = @ \cup roles], <<>>)

UpsertGroup ==
    /\ Doing("group")
    /\ LET g == Head(import.todo)[2]
       IN  Written(IF db.members[g] = None THEN [db EXCEPT !.members[g] = {}] ELSE db, <<>>)

ClearMembers ==
    /\ Doing("clear")
    /\ LET g == Head(import.todo)[2]
           found == import.file.members[g] \cap There(db)
       IN  Written([db EXCEPT !.members[g] = IF @ = None THEN None ELSE {}],
                   <<<<"join", g, found>>>>)

AddMembers ==
    /\ Doing("join")
    /\ LET g == Head(import.todo)[2]
           found == Head(import.todo)[3]
       IN  /\ db.members[g] # None /\ found \subseteq There(db) /\ db.members[g] \cap found = {}
           /\ Written([db EXCEPT !.members[g] = @ \cup found], <<>>)

\* Every row is written: the result goes back, and in the console a row is recorded.
Finish ==
    /\ import # None /\ import.todo = <<>>
    /\ import' = None
    /\ UNCHANGED <<db, file, draft, since, spent>>

\* A write fails, the process stops, or the connection goes: what is written stays.
Stop ==
    /\ import # None
    /\ import' = None
    /\ UNCHANGED <<db, file, draft, since, spent>>

ImportStep ==
    \/ UpsertApp \/ UpsertRole \/ UpsertPerson \/ ReplaceGrant \/ FillGrant
    \/ UpsertGroup \/ ClearMembers \/ AddMembers

-----------------------------------------------------------------------------
(* Everything else that writes: the console, and the first run.            *)

Edited(d) ==
    /\ spent.edits < MaxEdits
    /\ d # db
    /\ import # None => import.serving
    /\ db' = d /\ since' = None
    /\ spent' = [spent EXCEPT !.edits = @ + 1]
    /\ UNCHANGED <<file, draft, import>>

ClaimOwner(p) ==
    /\ There(db) = {}
    /\ Edited([db EXCEPT !.kind[p] = "owner", !.status[p] = "active", !.factor = @ \cup {p}])

ChangeKind(p, kind) ==
    /\ db.kind[p] \in {"admin", "guest"}
    /\ MustHoldFactor(kind) => p \in db.factor
    /\ Edited([db EXCEPT !.kind[p] = kind])

ChangeStatus(p) ==
    /\ db.kind[p] \in {"admin", "guest"}
    /\ Edited([db EXCEPT !.status[p] = IF @ = "suspended" THEN "active" ELSE "suspended"])

\* A factor is verified -- by somebody invited, with the link that makes the account
\* active -- or removed again, which an admin cannot do to their last.
ChangeFactor(p) ==
    /\ p \in There(db)
    /\ IF p \in db.factor
       THEN ~MustHoldFactor(db.kind[p]) /\ Edited([db EXCEPT !.factor = @ \ {p}])
       ELSE /\ db.status[p] # "suspended"
            /\ Edited([db EXCEPT !.factor = @ \cup {p}, !.status[p] = "active"])

\* The daily purge takes a suspended account whose grace is over.
Purge(p) ==
    /\ db.kind[p] \in {"admin", "guest"} /\ db.status[p] = "suspended"
    /\ Edited([db EXCEPT !.kind[p] = None, !.status[p] = None, !.factor = @ \ {p},
                         !.members = [g \in Groups |-> IF @[g] = None THEN None ELSE @[g] \ {p}],
                         !.grant[p] = [a \in Apps |-> None]])

ChangeGrant(h, a, roles) ==
    /\ h \in There(db) \/ (h \in Groups /\ db.members[h] # None)
    /\ db.app[a] # None /\ (roles # None => roles \subseteq db.app[a].roles)
    /\ Edited([db EXCEPT !.grant[h][a] = roles])

RemoveRole(a, r) ==
    /\ db.app[a] # None
    /\ Edited([db EXCEPT !.app[a].roles = @ \ {r},
                         !.grant = [h \in Holders |-> [b \in Apps |->
                            IF b = a /\ @[h][b] # None THEN @[h][b] \ {r} ELSE @[h][b]]]])

DeleteApp(a) ==
    Edited([db EXCEPT !.app[a] = None,
                      !.grant = [h \in Holders |-> [@[h] EXCEPT ![a] = None]]])

ChangeMembers(g, ps) ==
    /\ ps # None => ps \subseteq There(db)
    /\ Edited([db EXCEPT !.members[g] = ps,
                         !.grant[g] = IF ps = None THEN [a \in Apps |-> None] ELSE @])

Edit ==
    \/ \E p \in People : ClaimOwner(p) \/ ChangeStatus(p) \/ ChangeFactor(p) \/ Purge(p)
    \/ \E p \in People, kind \in {"admin", "guest"} : ChangeKind(p, kind)
    \/ \E h \in Holders, a \in Apps, roles \in (SUBSET Roles) \cup {None} : ChangeGrant(h, a, roles)
    \/ \E a \in Apps, r \in Roles : RemoveRole(a, r)
    \/ \E a \in Apps : DeleteApp(a)
    \/ \E g \in Groups, ps \in (SUBSET People) \cup {None} : ChangeMembers(g, ps)

Next ==
    \/ \E part \in Parts : ExportRead(part)
    \/ ExportDone
    \/ \E f \in Files : Choose(f)
    \/ ImportRoute \/ ImportOnHost \/ SeedOnBoot
    \/ ImportStep \/ Finish \/ Stop
    \/ Edit

Spec == Init /\ [][Next]_vars

-----------------------------------------------------------------------------
TypeOK ==
    /\ db \in Configuration
    /\ file \in State \cup {None}
    /\ import # None => import.serving \in BOOLEAN
    /\ \A p \in People : (db.kind[p] = None) = (db.status[p] = None)

\* The database a file describes over another one, said without an order.
Settled(f, d) ==
    LET app == [a \in Apps |->
            CASE f.app[a] = None -> d.app[a]
              [] d.app[a] = None -> f.app[a]
              [] OTHER -> [roles |-> d.app[a].roles \cup f.app[a].roles,
                           enabled |-> f.app[a].enabled]]
        arrives == {p \in People : d.kind[p] = None /\ f.kind[p] # None}
        people == There(d) \cup arrives
        kinds == DecideKinds(f, d)
        listed(h) == IF h \in People THEN f.kind[h] # None ELSE f.members[h] # None
    IN  [app |-> app,
         kind |-> [p \in People |-> IF kinds[p] # None THEN kinds[p] ELSE d.kind[p]],
         status |-> [p \in People |->
            IF p \notin arrives THEN d.status[p]
            ELSE IF f.status[p] = "suspended" THEN "suspended" ELSE "invited"],
         factor |-> d.factor,
         members |-> [g \in Groups |->
            IF f.members[g] = None THEN d.members[g] ELSE f.members[g] \cap people],
         grant |-> [h \in Holders |-> [a \in Apps |->
            IF listed(h) /\ f.grant[h][a] # None /\ app[a] # None
            THEN f.grant[h][a] \cap app[a].roles ELSE d.grant[h][a]]]]

\* An import that is finished has left what the file describes -- whatever the order
\* of its rows, however often it stopped half way and was started again -- provided
\* nothing else has written since it was first started (state.ts 297-410; "running
\* it twice does nothing the first run did not already do", seed.ts 10).
SettlesAsDescribed ==
    import # None /\ import.todo = <<>> /\ since # None
        => db = Settled(since.file, since.db)

\* An import gives no power: who was the owner when it was planned stays the owner,
\* nobody becomes one, nobody becomes an admin who had no verified factor then, and
\* no suspension is lifted -- whatever the console does meanwhile (state.ts 96-138).
PowerNotImported ==
    [][ImportStep => \A p \in People :
        /\ db'.kind[p] # db.kind[p] =>
            /\ import.before.kind[p] # "owner"
            /\ db'.kind[p] # "owner"
            /\ MustHoldFactor(db'.kind[p]) => p \in import.before.factor
        /\ db.status[p] = "suspended" => db'.status[p] = "suspended"]_vars

=============================================================================
