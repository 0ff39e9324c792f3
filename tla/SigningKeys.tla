---------------------------- MODULE SigningKeys ----------------------------
(***************************************************************************)
(* The rotation of the signing keys of one algorithm (oidc/keys.ts): rows  *)
(* that go next -> current -> retiring -> retired, moved by operators at   *)
(* the console and the command line whose operations interleave at every   *)
(* await; the server process, which reads the rows only when it boots; the *)
(* published key set (oidc/keys-routes.ts) and the consumers that cache it.*)
(*                                                                         *)
(* Time passes in whole units and never inside an operation or a boot:     *)
(* those take moments, and the waits are hours.  A refused operation (a    *)
(* KeyError) changes nothing and has no action.  Left out: audit rows, the *)
(* sealing of the private halves, the second algorithm (the two rotate     *)
(* independently), the listing of the keys.                                *)
(***************************************************************************)
EXTENDS Integers

CONSTANTS
    Kids,           \* key ids that may be generated
    NoKid,
    Consumers,      \* apps that verify tokens
    Operators,      \* operations on the keys in flight at once
    Overlap,        \* MINIMUM_OVERLAP_MS
    CacheTTL,       \* how long a consumer keeps the key set: max-age
    TokenTTL,       \* the longest lifetime of a signed token
    RestartWindow,  \* how long after a promotion the server may go unrestarted
    ForceChoices,   \* whether operators pass --force: {FALSE}, or both
    MaxTime         \* bound: the clock

ASSUME SigningKeysAssumption ==
    /\ NoKid \notin Kids
    /\ CacheTTL \in Nat /\ TokenTTL \in Nat \ {0} /\ RestartWindow \in Nat /\ MaxTime \in Nat
    /\ ForceChoices \subseteq BOOLEAN
    /\ Overlap \in Nat /\ CacheTTL + TokenTTL <= Overlap

VARIABLES
    now,
    keys,        \* kid -> its row
    phase,       \* the server: "down", "minted" (half booted) or "up"
    signing,     \* the key it signs with, from boot
    loaded,      \* the keys it holds, from boot
    op,          \* operator -> the operation in flight
    caches,      \* consumer -> the key set it last fetched
    liveUntil,   \* history: key -> when the last token it signed expires
    forced       \* history: somebody has passed --force

server == <<phase, signing, loaded>>
outside == <<caches, liveUntil>>
vars == <<now, keys, server, op, outside, forced>>

Unset == -1   \* a null date

Status == {"unborn", "next", "current", "retiring", "retired"}

Row == [status : Status, createdAt : Nat, retireAfter : Nat \cup {Unset}]

\* What an operation has read: the rows it is about to write.
Operation == [pc : {"idle", "generating", "promoting", "switching", "retiring"},
              next : Kids \cup {NoKid}, current : Kids \cup {NoKid}, due : SUBSET Kids]

NoOperation == [pc |-> "idle", next |-> NoKid, current |-> NoKid, due |-> {}]

KeySet == [at : Nat \cup {Unset}, keys : SUBSET Kids]

TypeOK ==
    /\ now \in Nat
    /\ keys \in [Kids -> Row]
    /\ phase \in {"down", "minted", "up"}
    /\ signing \in Kids \cup {NoKid}
    /\ loaded \subseteq Kids
    /\ op \in [Operators -> Operation]
    /\ caches \in [Consumers -> KeySet]
    /\ liveUntil \in [Kids -> Nat]
    /\ forced \in BOOLEAN

Init ==
    /\ now = 0
    /\ keys = [k \in Kids |-> [status |-> "unborn", createdAt |-> 0, retireAfter |-> Unset]]
    /\ phase = "down"
    /\ signing = NoKid
    /\ loaded = {}
    /\ op = [o \in Operators |-> NoOperation]
    /\ caches = [c \in Consumers |-> [at |-> Unset, keys |-> {}]]
    /\ liveUntil = [k \in Kids |-> 0]
    /\ forced = FALSE

WithStatus(s) == {k \in Kids : keys[k].status = s}

PUBLISHED_STATUSES == {"current", "next", "retiring"}
Published == {k \in Kids : keys[k].status \in PUBLISHED_STATUSES}

STATUS_ORDER == [current |-> 0, next |-> 1, retiring |-> 2]

Born(status) == [status |-> status, createdAt |-> now, retireAfter |-> Unset]

-----------------------------------------------------------------------------
(* The server boots: loadSigningKeys, then the provider keeps what it got. *)

\* Under the bootstrap lock, a first boot generates the current key.
BootMint(k) ==
    /\ phase = "down"
    /\ WithStatus("current") = {}
    /\ keys[k].status = "unborn"
    /\ keys' = [keys EXCEPT ![k] = Born("current")]
    /\ phase' = "minted"
    /\ UNCHANGED <<now, signing, loaded, op, outside, forced>>

BootExisting ==
    /\ phase = "down"
    /\ WithStatus("current") # {}
    /\ phase' = "minted"
    /\ UNCHANGED <<now, keys, signing, loaded, op, outside, forced>>

\* A mutant: a boot that holds only the keys that sign or will.
BootLoadNotRetiring(k) ==
    /\ phase = "minted"
    /\ k \in Published
    /\ \A j \in Published : STATUS_ORDER[keys[k].status] <= STATUS_ORDER[keys[j].status]
    /\ loaded' = Published \ WithStatus("retiring")
    /\ signing' = k
    /\ phase' = "up"
    /\ UNCHANGED <<now, keys, op, outside, forced>>

\* decryptPublishedKeys: every published key, and the first in order signs.
BootLoad(k) ==
    /\ phase = "minted"
    /\ k \in Published
    /\ \A j \in Published : STATUS_ORDER[keys[k].status] <= STATUS_ORDER[keys[j].status]
    /\ loaded' = Published
    /\ signing' = k
    /\ phase' = "up"
    /\ UNCHANGED <<now, keys, op, outside, forced>>

\* Stopped by the operator or by a crash.  The operations run in the server or
\* in its container, and die with it.
Stop ==
    /\ phase # "down"
    /\ phase' = "down"
    /\ signing' = NoKid
    /\ loaded' = {}
    /\ op' = [o \in Operators |-> NoOperation]
    /\ UNCHANGED <<now, keys, outside, forced>>

Sign ==
    /\ phase = "up"
    /\ liveUntil' = [liveUntil EXCEPT ![signing] = now + TokenTTL]
    /\ UNCHANGED <<now, keys, server, op, caches, forced>>

\* GET /oidc/jwks is answered from the table, not from what was loaded.
Fetch(c) ==
    /\ phase = "up"
    /\ caches' = [caches EXCEPT ![c] = [at |-> now, keys |-> Published]]
    /\ UNCHANGED <<now, keys, server, op, liveUntil, forced>>

-----------------------------------------------------------------------------
(* The operations on the keys, each a read and later a write. *)

Idle(o) == op[o].pc = "idle"

\* The command line is executed in the container, the console in the server.
MayStart(o) == Idle(o) /\ phase # "down"

\* generateNext: no key is pending.
GenerateCheck(o) ==
    /\ MayStart(o)
    /\ WithStatus("next") = {}
    /\ op' = [op EXCEPT ![o].pc = "generating"]
    /\ UNCHANGED <<now, keys, server, outside, forced>>

GenerateCreate(o, k) ==
    /\ op[o].pc = "generating"
    /\ keys[k].status = "unborn"
    /\ keys' = [keys EXCEPT ![k] = Born("next")]
    /\ op' = [op EXCEPT ![o] = NoOperation]
    /\ UNCHANGED <<now, server, outside, forced>>

\* A mutant: the published wait is skipped.
PromoteReadTooSoon(o, k, force) ==
    /\ MayStart(o)
    /\ k \in WithStatus("next")
    /\ op' = [op EXCEPT ![o] = [pc |-> "promoting", next |-> k, current |-> NoKid, due |-> {}]]
    /\ forced' = (forced \/ force)
    /\ UNCHANGED <<now, keys, server, outside>>

\* promoteNext: a next key is found, and has been published long enough.
PromoteRead(o, k, force) ==
    /\ MayStart(o)
    /\ k \in WithStatus("next")
    /\ force \/ keys[k].createdAt + Overlap <= now
    /\ op' = [op EXCEPT ![o] = [pc |-> "promoting", next |-> k, current |-> NoKid, due |-> {}]]
    /\ forced' = (forced \/ force)
    /\ UNCHANGED <<now, keys, server, outside>>

\* After that the current key is read, if there is one.
PromoteReadCurrent(o, c) ==
    /\ op[o].pc = "promoting"
    /\ IF WithStatus("current") = {} THEN c = NoKid ELSE c \in WithStatus("current")
    /\ op' = [op EXCEPT ![o] = [pc |-> "switching", next |-> op[o].next, current |-> c, due |-> {}]]
    /\ UNCHANGED <<now, keys, server, outside, forced>>

Retiring(row) == [status |-> "retiring", createdAt |-> row.createdAt,
                  retireAfter |-> now + Overlap]
WithNewStatus(row, s) == [status |-> s, createdAt |-> row.createdAt,
                          retireAfter |-> row.retireAfter]

\* A mutant: the waiting key is left as it was.
PromoteSwitchHalf(o) ==
    /\ op[o].pc = "switching"
    /\ keys' = [k \in Kids |->
                  IF k = op[o].current THEN Retiring(keys[k]) ELSE keys[k]]
    /\ op' = [op EXCEPT ![o] = NoOperation]
    /\ UNCHANGED <<now, server, outside, forced>>

\* A mutant: the old key is not moved on.
PromoteSwitchKeepsOld(o) ==
    /\ op[o].pc = "switching"
    /\ keys' = [k \in Kids |->
                  IF k = op[o].next THEN WithNewStatus(keys[k], "current") ELSE keys[k]]
    /\ op' = [op EXCEPT ![o] = NoOperation]
    /\ UNCHANGED <<now, server, outside, forced>>

\* Then one transaction switches both, by kid, whatever they have become.
PromoteSwitch(o) ==
    /\ op[o].pc = "switching"
    /\ keys' = [k \in Kids |->
                  LET row == IF k = op[o].current THEN Retiring(keys[k]) ELSE keys[k]
                  IN  IF k = op[o].next THEN WithNewStatus(row, "current") ELSE row]
    /\ op' = [op EXCEPT ![o] = NoOperation]
    /\ UNCHANGED <<now, server, outside, forced>>

\* A mutant: the wait of a retiring key is not looked at.
RetireReadTooSoon(o, asked, force) ==
    /\ MayStart(o)
    /\ LET due == asked \cap WithStatus("retiring")
       IN  /\ due # {}
           /\ op' = [op EXCEPT ![o] = [pc |-> "retiring", next |-> NoKid, current |-> NoKid,
                                       due |-> due]]
    /\ forced' = (forced \/ force)
    /\ UNCHANGED <<now, keys, server, outside>>

\* retire: of the retiring keys asked for, those whose wait has passed.
RetireRead(o, asked, force) ==
    /\ MayStart(o)
    /\ LET due == {k \in asked \cap WithStatus("retiring") :
                     force \/ (keys[k].retireAfter # Unset /\ keys[k].retireAfter <= now)}
       IN  /\ due # {}
           /\ op' = [op EXCEPT ![o] = [pc |-> "retiring", next |-> NoKid, current |-> NoKid,
                                       due |-> due]]
    /\ forced' = (forced \/ force)
    /\ UNCHANGED <<now, keys, server, outside>>

\* One update per due key, by kid.
RetireWrite(o, k) ==
    /\ op[o].pc = "retiring"
    /\ k \in op[o].due
    /\ keys' = [keys EXCEPT ![k] = WithNewStatus(keys[k], "retired")]
    /\ op' = [op EXCEPT ![o] = IF op[o].due = {k} THEN NoOperation
                               ELSE [pc |-> "retiring", next |-> NoKid, current |-> NoKid,
                                     due |-> op[o].due \ {k}]]
    /\ UNCHANGED <<now, server, outside, forced>>

\* The command or the request dies between two of its steps.
Abandon(o) ==
    /\ ~Idle(o)
    /\ op' = [op EXCEPT ![o] = NoOperation]
    /\ UNCHANGED <<now, keys, server, outside, forced>>

-----------------------------------------------------------------------------
\* The server signing with a key that has been replaced is restarted in time:
\* "the restart is part of the step" (docs/runbooks/key-rotation.md).
RestartPending == phase = "up" /\ keys[signing].status \in {"retiring", "retired"}

\* What GET /api/admin/keys tells the console, to say "restart to finish".
restartRequired == \E k \in WithStatus("current") : k \notin loaded

Tick ==
    /\ now < MaxTime
    /\ \A o \in Operators : Idle(o)
    /\ phase # "minted"
    /\ RestartPending => now < keys[signing].retireAfter - Overlap + RestartWindow
    /\ now' = now + 1
    /\ UNCHANGED <<keys, server, op, outside, forced>>

Operate(o) ==
    \/ GenerateCheck(o)
    \/ \E k \in Kids : GenerateCreate(o, k)
    \/ \E k \in Kids, force \in ForceChoices : PromoteRead(o, k, force)
    \/ \E c \in Kids \cup {NoKid} : PromoteReadCurrent(o, c)
    \/ PromoteSwitch(o)
    \/ \E asked \in {Kids} \cup {{k} : k \in Kids}, force \in ForceChoices :
         RetireRead(o, asked, force)
    \/ \E k \in Kids : RetireWrite(o, k)
    \/ Abandon(o)

Serve ==
    \/ \E k \in Kids : BootMint(k)
    \/ BootExisting
    \/ \E k \in Kids : BootLoad(k)
    \/ Stop
    \/ Sign
    \/ \E c \in Consumers : Fetch(c)

Next == Serve \/ (\E o \in Operators : Operate(o)) \/ Tick

Spec == Init /\ [][Next]_vars

-----------------------------------------------------------------------------
(* Properties.  All are about rotations in which nobody has passed --force,
   which exists to give them up when a key is compromised. *)

Live(k) == now < liveUntil[k]
Fresh(c) == caches[c].at # Unset /\ now < caches[c].at + CacheTTL

\* The server is restarted soon enough after a promotion for the last token of
\* the old key to expire inside the overlap.
PromptRestart == RestartWindow + TokenTTL <= Overlap

\* "Retire too soon and tokens signed minutes ago stop verifying" (keys.ts): the
\* key of every token still alive is published, however operations interleave
\* and whenever the server restarts.
LiveTokensPublished == ~forced => \A k \in Kids : Live(k) => k \in Published

\* "Promote too soon and a consumer that cached the old key set rejects real
\* tokens" (keys.ts): a consumer's cached key set, while it may use it, holds
\* the key of every token still alive.
ConsumersVerify ==
    ~forced => \A c \in Consumers, k \in Kids :
                 Fresh(c) /\ Live(k) => k \in caches[c].keys

\* The server itself holds the key of every token still alive, across restarts.
OwnTokensVerify ==
    ~forced /\ phase = "up" => \A k \in Kids : Live(k) => k \in loaded

\* Once anybody has been given a key set there is always a current key, so no
\* later boot mints one that consumers have never seen (loadSigningKeys).
CurrentKeyStays ==
    ~forced /\ (\E c \in Consumers : caches[c].at # Unset)
        => WithStatus("current") # {}

\* "Promoting makes it current and pushes the old one to retiring" (keys.ts):
\* one key at a time is current, forced or not and wherever an operation is cut
\* off, as long as operations follow one another: two that overlap may generate
\* and promote a key each.
OneCurrentKey == \A j, k \in WithStatus("current") : j = k

-----------------------------------------------------------------------------
(* What comments promise and the code does not keep: TLC finds each of     *)
(* these violated (README, Known disagreements), and no run asks for them. *)

\* "Everything here says so rather than letting an operator believe a rotation
\* finished when it has not" (keys-routes.ts): while the server still signs with
\* a replaced key, the console is told to restart it.
RestartAnnounced == RestartPending => restartRequired
=============================================================================
