-------------------------- MODULE SigningKeys_proofs --------------------------
(***************************************************************************)
(* Proofs about SigningKeys, for any keys, operators, consumers and waits: *)
(* a rotation nobody forces, with a server restarted promptly after each   *)
(* promotion, leaves no live token that somebody cannot verify.            *)
(***************************************************************************)
EXTENDS SigningKeys, TLAPS

-----------------------------------------------------------------------------
(* The inductive invariant of an unforced rotation. *)

\* A key that has been replaced is published until its last token expires.
RowsOK ==
    \A k \in Kids :
        /\ keys[k].createdAt <= now
        /\ liveUntil[k] <= now + TokenTTL
        /\ keys[k].status \in {"unborn", "next"} => liveUntil[k] = 0
        /\ keys[k].status \in {"retiring", "retired"}
             => keys[k].retireAfter # Unset /\ liveUntil[k] <= keys[k].retireAfter
        /\ keys[k].status = "retired" => keys[k].retireAfter <= now

\* The server signs with a key it holds, current or only lately replaced.
ServerOK ==
    phase = "up" =>
        /\ signing \in Kids \cap loaded
        /\ keys[signing].status \in {"current", "retiring"}
        /\ keys[signing].status = "retiring"
             => now <= keys[signing].retireAfter - Overlap + RestartWindow
        /\ \A k \in Kids : Live(k) => k \in loaded

\* A key still on its way when it was read can only have been replaced since.
Recent(row, t) ==
    /\ row.status \in PUBLISHED_STATUSES
    /\ row.status = "retiring" => t < row.retireAfter

\* What an operation has read is still true enough to write.
OperationsOK ==
    \A o \in Operators :
        /\ op[o].pc \in {"promoting", "switching"}
             => /\ op[o].next \in Kids /\ Recent(keys[op[o].next], now)
                /\ keys[op[o].next].createdAt + Overlap <= now
        /\ op[o].pc = "switching" /\ op[o].current \in Kids
             => Recent(keys[op[o].current], now) /\ keys[op[o].current].status # "next"
        /\ op[o].pc = "retiring"
             => \A k \in op[o].due : /\ keys[k].status \in {"retiring", "retired"}
                                     /\ keys[k].retireAfter # Unset
                                     /\ keys[k].retireAfter <= now

\* A consumer's key set holds what was published before it was fetched and, while
\* it may be used, every key that ever signed.
CachesOK ==
    \A c \in Consumers, k \in Kids :
        caches[c].at # Unset =>
            /\ caches[c].at <= now
            /\ keys[k].status \in PUBLISHED_STATUSES /\ keys[k].createdAt < caches[c].at
                 => k \in caches[c].keys
            /\ keys[k].status \in {"current", "retiring"} /\ now < caches[c].at + CacheTTL
                 => k \in caches[c].keys

\* Nothing has been served before there was a current key.
Served == phase # "down" \/ \E c \in Consumers : caches[c].at # Unset

CurrentOK == Served => WithStatus("current") # {}

Sound == RowsOK /\ ServerOK /\ OperationsOK /\ CachesOK /\ CurrentOK

IInv == TypeOK /\ (~forced => Sound)

-----------------------------------------------------------------------------
(* Types. *)

\* The first state has its type.
LEMMA InitType == Init => TypeOK
<1> SUFFICES ASSUME Init PROVE TypeOK
  OBVIOUS
<1>1. [status |-> "unborn", createdAt |-> 0, retireAfter |-> Unset] \in Row
  BY DEF Row, Status
<1>2. NoOperation \in Operation /\ [at |-> Unset, keys |-> {}] \in KeySet
  BY DEF NoOperation, Operation, KeySet
<1>3. keys \in [Kids -> Row]
  BY <1>1 DEF Init
<1>4. op \in [Operators -> Operation] /\ caches \in [Consumers -> KeySet]
  BY <1>2 DEF Init
<1> QED
  BY <1>3, <1>4 DEF Init, TypeOK

\* A row keeps its shape whatever its new status.
LEMMA RowType ==
    ASSUME TypeOK, NEW row \in Row, NEW s \in Status
    PROVE  /\ Retiring(row) \in Row /\ WithNewStatus(row, s) \in Row
           /\ Born(s) \in Row
<1>1. now \in Nat /\ now + Overlap \in Nat /\ row.createdAt \in Nat
  BY SigningKeysAssumption DEF TypeOK, Row
<1>2. row.retireAfter \in Nat \cup {Unset}
  BY DEF Row
<1> QED
  BY <1>1, <1>2 DEF Row, Status, Retiring, WithNewStatus, Born

\* Every step keeps the type invariant.
LEMMA NextType == TypeOK /\ [Next]_vars => TypeOK'
<1> SUFFICES ASSUME TypeOK, [Next]_vars PROVE TypeOK'
  OBVIOUS
<1> USE SigningKeysAssumption
<1>1. NoOperation \in Operation
  BY DEF NoOperation, Operation
<1>2. Published \subseteq Kids
  BY DEF Published
<1>3. ASSUME NEW k \in Kids, BootMint(k) PROVE TypeOK'
  <2>1. Born("current") \in Row
    BY DEF TypeOK, Born, Row, Status
  <2> QED
    BY <1>3, <2>1 DEF BootMint, TypeOK, outside
<1>4. CASE BootExisting
  BY <1>4 DEF BootExisting, TypeOK, outside
<1>5. ASSUME NEW k \in Kids, BootLoad(k) PROVE TypeOK'
  BY <1>2, <1>5 DEF BootLoad, TypeOK, outside
<1>6. CASE Stop
  BY <1>1, <1>6 DEF Stop, TypeOK, outside
<1>7. CASE Sign
  <2>1. now + TokenTTL \in Nat
    BY DEF TypeOK
  <2>2. liveUntil' \in [Kids -> Nat]
    BY <1>7, <2>1 DEF Sign, TypeOK
  <2> QED
    BY <1>7, <2>2 DEF Sign, TypeOK, server
<1>8. ASSUME NEW c \in Consumers, Fetch(c) PROVE TypeOK'
  BY <1>2, <1>8 DEF Fetch, TypeOK, server, KeySet
<1>9. ASSUME NEW o \in Operators, Operate(o) PROVE TypeOK'
  <2>1. op[o] \in Operation
    BY DEF TypeOK
  <2>2. CASE GenerateCheck(o)
    <3>1. [op[o] EXCEPT !.pc = "generating"] \in Operation
      BY <2>1 DEF Operation
    <3> QED
      BY <2>2, <3>1 DEF GenerateCheck, TypeOK, server, outside
  <2>3. ASSUME NEW k \in Kids, GenerateCreate(o, k) PROVE TypeOK'
    <3>1. Born("next") \in Row
      BY DEF TypeOK, Born, Row, Status
    <3> QED
      BY <1>1, <2>3, <3>1 DEF GenerateCreate, TypeOK, server, outside
  <2>4. ASSUME NEW k \in Kids, NEW force \in ForceChoices, PromoteRead(o, k, force) PROVE TypeOK'
    <3>1. [pc |-> "promoting", next |-> k, current |-> NoKid, due |-> {}] \in Operation
      BY DEF Operation
    <3>2. force \in BOOLEAN
      OBVIOUS
    <3>3. forced' \in BOOLEAN
      BY <2>4, <3>2, Zenon DEF PromoteRead, TypeOK
    <3>4. op' \in [Operators -> Operation]
      BY <2>4, <3>1 DEF PromoteRead, TypeOK
    <3> QED
      BY <2>4, <3>3, <3>4 DEF PromoteRead, TypeOK, server, outside
  <2>5. ASSUME NEW c \in Kids \cup {NoKid}, PromoteReadCurrent(o, c) PROVE TypeOK'
    <3>1. [pc |-> "switching", next |-> op[o].next, current |-> c, due |-> {}] \in Operation
      BY <2>1 DEF Operation
    <3> QED
      BY <2>5, <3>1 DEF PromoteReadCurrent, TypeOK, server, outside
  <2>6. CASE PromoteSwitch(o)
    <3>1. ASSUME NEW k \in Kids
          PROVE  LET row == IF k = op[o].current THEN Retiring(keys[k]) ELSE keys[k]
                 IN  (IF k = op[o].next THEN WithNewStatus(row, "current") ELSE row) \in Row
      BY RowType DEF TypeOK, Status
    <3> QED
      BY <1>1, <2>6, <3>1 DEF PromoteSwitch, TypeOK, server, outside
  <2>7. ASSUME NEW asked \in SUBSET Kids, NEW force \in ForceChoices, RetireRead(o, asked, force)
        PROVE  TypeOK'
    <3> DEFINE due == {k \in asked \cap WithStatus("retiring") :
                         force \/ (keys[k].retireAfter # Unset /\ keys[k].retireAfter <= now)}
    <3>1. [pc |-> "retiring", next |-> NoKid, current |-> NoKid, due |-> due] \in Operation
      BY DEF Operation
    <3>2. force \in BOOLEAN
      OBVIOUS
    <3>3. forced' \in BOOLEAN
      BY <2>7, <3>2, Zenon DEF RetireRead, TypeOK
    <3>4. op' \in [Operators -> Operation]
      BY <2>7, <3>1 DEF RetireRead, TypeOK
    <3> QED
      BY <2>7, <3>3, <3>4 DEF RetireRead, TypeOK, server, outside
  <2>8. ASSUME NEW k \in Kids, RetireWrite(o, k) PROVE TypeOK'
    <3>1. WithNewStatus(keys[k], "retired") \in Row
      BY RowType DEF TypeOK, Status
    <3>2. [pc |-> "retiring", next |-> NoKid, current |-> NoKid,
           due |-> op[o].due \ {k}] \in Operation
      BY <2>1 DEF Operation
    <3> QED
      BY <1>1, <2>8, <3>1, <3>2 DEF RetireWrite, TypeOK, server, outside
  <2>9. CASE Abandon(o)
    BY <1>1, <2>9 DEF Abandon, TypeOK, server, outside
  <2> QED
    BY <1>9, <2>2, <2>3, <2>4, <2>5, <2>6, <2>7, <2>8, <2>9 DEF Operate
<1>10. CASE Tick
  BY <1>10 DEF Tick, TypeOK, server, outside
<1>11. CASE UNCHANGED vars
  BY <1>11 DEF vars, server, outside, TypeOK
<1> QED
  BY <1>3, <1>4, <1>5, <1>6, <1>7, <1>8, <1>9, <1>10, <1>11 DEF Next, Serve

\* The state keeps its type, whatever the keys, the operators and the waits.
THEOREM TypeCorrect == Spec => []TypeOK
BY InitType, NextType, PTL DEF Spec

-----------------------------------------------------------------------------
(* Soundness, one step at a time. *)

\* Nothing has happened yet.
LEMMA InitSound == Init => Sound
BY SigningKeysAssumption
   DEF Init, Sound, RowsOK, ServerOK, OperationsOK, CachesOK, CurrentOK, Served,
       NoOperation, WithStatus, Unset

\* A first boot mints a key nobody has seen; nobody has seen any.
LEMMA BootMintSound ==
    ASSUME TypeOK, Sound, NEW k \in Kids, BootMint(k)
    PROVE  Sound'
<1> USE SigningKeysAssumption
<1>1. keys[k].status = "unborn" /\ keys' = [keys EXCEPT ![k] = Born("current")]
  BY DEF BootMint
<1>2. keys'[k] = Born("current") /\ \A j \in Kids \ {k} : keys'[j] = keys[j]
  BY <1>1 DEF TypeOK
<1>3. /\ Born("current").status = "current" /\ Born("current").createdAt = now
  BY DEF Born
<1>4. now' = now /\ UNCHANGED <<caches, liveUntil, op>> /\ phase' = "minted"
  BY DEF BootMint, outside
<1>5. RowsOK'
  BY <1>1, <1>2, <1>3, <1>4 DEF Sound, RowsOK, TypeOK
<1>6. ServerOK'
  BY <1>4 DEF ServerOK
<1>7. OperationsOK'
  BY <1>1, <1>2, <1>4 DEF Sound, OperationsOK, Recent, PUBLISHED_STATUSES, TypeOK, Operation
<1>8. CachesOK'
  BY <1>2, <1>3, <1>4 DEF BootMint, Sound, CachesOK, CurrentOK, Served
<1>9. CurrentOK'
  BY <1>2, <1>3 DEF CurrentOK, WithStatus
<1> QED
  BY <1>5, <1>6, <1>7, <1>8, <1>9 DEF Sound

\* A later boot mints nothing.
LEMMA BootExistingSound ==
    ASSUME TypeOK, Sound, BootExisting
    PROVE  Sound'
BY DEF BootExisting, outside, Sound, RowsOK, ServerOK, OperationsOK, Recent, CachesOK,
       CurrentOK, WithStatus

\* A booted server signs with a current key and holds every key still in use.
LEMMA BootLoadSound ==
    ASSUME TypeOK, Sound, NEW k \in Kids, BootLoad(k)
    PROVE  Sound'
<1> USE SigningKeysAssumption
<1>1. UNCHANGED <<now, keys, op, caches, liveUntil>>
  BY DEF BootLoad, outside
<1>2. phase' = "up" /\ signing' = k /\ loaded' = Published
  BY DEF BootLoad
<1>3. PICK j \in Kids : keys[j].status = "current"
  BY DEF BootLoad, Sound, CurrentOK, Served, WithStatus
<1>4. keys[k].status = "current" /\ k \in Published
  BY <1>3 DEF BootLoad, Published, PUBLISHED_STATUSES, STATUS_ORDER
<1>5. \A i \in Kids : Live(i) => i \in Published
  BY DEF Sound, RowsOK, TypeOK, Row, Status, Live, Published, PUBLISHED_STATUSES
<1>6. ServerOK'
  BY <1>1, <1>2, <1>4, <1>5 DEF ServerOK, Live
<1>7. RowsOK' /\ OperationsOK' /\ CachesOK'
  BY <1>1 DEF Sound, RowsOK, OperationsOK, Recent, CachesOK
<1>8. CurrentOK'
  BY <1>1, <1>3 DEF CurrentOK, WithStatus
<1> QED
  BY <1>6, <1>7, <1>8 DEF Sound

\* A stopped server signs nothing, and forgets its operations.
LEMMA StopSound ==
    ASSUME TypeOK, Sound, Stop
    PROVE  Sound'
BY DEF Stop, outside, NoOperation, Sound, RowsOK, ServerOK, OperationsOK, CachesOK,
       CurrentOK, Served, WithStatus

\* A token signed now expires within the overlap of the key that signed it.
LEMMA SignSound ==
    ASSUME TypeOK, Sound, PromptRestart, Sign
    PROVE  Sound'
<1> USE SigningKeysAssumption
<1>1. UNCHANGED <<now, keys, phase, signing, loaded, op, caches>> /\ phase = "up"
  BY DEF Sign, server
<1>2. /\ signing \in Kids \cap loaded /\ keys[signing].status \in {"current", "retiring"}
      /\ keys[signing].status = "retiring"
           => now <= keys[signing].retireAfter - Overlap + RestartWindow
  BY <1>1 DEF Sound, ServerOK
<1>3. /\ liveUntil'[signing] = now + TokenTTL
      /\ \A k \in Kids \ {signing} : liveUntil'[k] = liveUntil[k]
  BY <1>1, <1>2 DEF Sign, TypeOK
<1>4. keys[signing] \in Row
  BY <1>2 DEF TypeOK
<1>5. keys[signing].status = "retiring" => keys[signing].retireAfter \in Nat
  BY <1>2, <1>4 DEF Sound, RowsOK, Row
<1>6. keys[signing].status = "retiring" => now + TokenTTL <= keys[signing].retireAfter
  BY <1>2, <1>5 DEF PromptRestart, TypeOK
<1>7. RowsOK'
  BY <1>1, <1>2, <1>3, <1>6 DEF Sound, RowsOK, TypeOK
<1>8. ServerOK'
  BY <1>1, <1>2, <1>3 DEF Sound, ServerOK, Live
<1>9. OperationsOK' /\ CachesOK' /\ CurrentOK'
  BY <1>1 DEF Sound, OperationsOK, Recent, CachesOK, CurrentOK, Served, WithStatus
<1> QED
  BY <1>7, <1>8, <1>9 DEF Sound

\* A fetched key set holds every published key.
LEMMA FetchSound ==
    ASSUME TypeOK, Sound, NEW c \in Consumers, Fetch(c)
    PROVE  Sound'
<1>1. UNCHANGED <<now, keys, phase, signing, loaded, op, liveUntil>> /\ phase = "up"
  BY DEF Fetch, server
<1>2. /\ caches'[c].at = now /\ caches'[c].keys = Published
      /\ \A d \in Consumers \ {c} : caches'[d] = caches[d]
  BY DEF Fetch, TypeOK
<1>3. CachesOK'
  BY <1>1, <1>2 DEF Sound, CachesOK, Published, PUBLISHED_STATUSES, TypeOK
<1>4. RowsOK' /\ ServerOK' /\ OperationsOK'
  BY <1>1 DEF Sound, RowsOK, ServerOK, OperationsOK, Recent, Live
<1>5. CurrentOK'
  BY <1>1 DEF Sound, CurrentOK, Served, WithStatus
<1> QED
  BY <1>3, <1>4, <1>5 DEF Sound

\* generateNext publishes a key that has signed nothing.
LEMMA GenerateSound ==
    ASSUME TypeOK, Sound, NEW o \in Operators,
           GenerateCheck(o) \/ \E k \in Kids : GenerateCreate(o, k)
    PROVE  Sound'
<1> USE SigningKeysAssumption
<1>1. CASE GenerateCheck(o)
  <2>1. UNCHANGED <<now, keys, phase, signing, loaded, caches, liveUntil>>
    BY <1>1 DEF GenerateCheck, server, outside
  <2>2. op'[o].pc = "generating" /\ \A p \in Operators \ {o} : op'[p] = op[p]
    BY <1>1 DEF GenerateCheck, TypeOK, Operation
  <2>3. OperationsOK'
    BY <2>1, <2>2 DEF Sound, OperationsOK, Recent
  <2> QED
    BY <2>1, <2>3 DEF Sound, RowsOK, ServerOK, Live, CachesOK, CurrentOK, Served, WithStatus
<1>2. ASSUME NEW k \in Kids, GenerateCreate(o, k) PROVE Sound'
  <2>1. UNCHANGED <<now, phase, signing, loaded, caches, liveUntil>>
    BY <1>2 DEF GenerateCreate, server, outside
  <2>2. /\ keys[k].status = "unborn"
        /\ keys'[k].status = "next" /\ keys'[k].createdAt = now
        /\ \A j \in Kids \ {k} : keys'[j] = keys[j]
    BY <1>2 DEF GenerateCreate, Born, TypeOK
  <2>3. op'[o].pc = "idle" /\ \A p \in Operators \ {o} : op'[p] = op[p]
    BY <1>2 DEF GenerateCreate, NoOperation, TypeOK
  <2>4. RowsOK'
    BY <2>1, <2>2 DEF Sound, RowsOK, TypeOK
  <2>5. ServerOK'
    BY <2>1, <2>2 DEF Sound, ServerOK, Live
  <2>6. OperationsOK'
    BY <2>1, <2>2, <2>3
       DEF Sound, OperationsOK, Recent, PUBLISHED_STATUSES, TypeOK, Operation
  <2>7. CachesOK'
    BY <2>1, <2>2 DEF Sound, CachesOK, TypeOK, KeySet, PUBLISHED_STATUSES
  <2>8. CurrentOK'
    BY <2>1, <2>2 DEF Sound, CurrentOK, Served, WithStatus
  <2> QED
    BY <2>4, <2>5, <2>6, <2>7, <2>8 DEF Sound
<1> QED
  BY <1>1, <1>2

\* An operation that only reads keeps what it read true.
LEMMA ReadSound ==
    ASSUME TypeOK, Sound, NEW o \in Operators, NEW q \in Operation,
           UNCHANGED <<now, keys, server, outside>>, op' = [op EXCEPT ![o] = q],
           q.pc \in {"promoting", "switching"}
             => /\ q.next \in Kids /\ Recent(keys[q.next], now)
                /\ keys[q.next].createdAt + Overlap <= now,
           q.pc = "switching" /\ q.current \in Kids
             => Recent(keys[q.current], now) /\ keys[q.current].status # "next",
           q.pc = "retiring"
             => \A k \in q.due : /\ keys[k].status \in {"retiring", "retired"}
                                 /\ keys[k].retireAfter # Unset
                                 /\ keys[k].retireAfter <= now
    PROVE  Sound'
<1>1. op'[o] = q /\ \A p \in Operators \ {o} : op'[p] = op[p]
  BY DEF TypeOK
<1>2. OperationsOK'
  BY <1>1 DEF Sound, OperationsOK, Recent
<1> QED
  BY <1>2 DEF server, outside, Sound, RowsOK, ServerOK, Live, CachesOK, CurrentOK,
              Served, WithStatus

\* promoteNext reads a key that has been published for the overlap.
LEMMA PromoteReadSound ==
    ASSUME TypeOK, Sound, NEW o \in Operators, NEW k \in Kids, PromoteRead(o, k, FALSE)
    PROVE  Sound'
<1> DEFINE q == [pc |-> "promoting", next |-> k, current |-> NoKid, due |-> {}]
<1>1. q \in Operation
  BY DEF Operation
<1>2. Recent(keys[k], now) /\ keys[k].createdAt + Overlap <= now
  BY DEF PromoteRead, WithStatus, Recent, PUBLISHED_STATUSES
<1> QED
  BY <1>1, <1>2, ReadSound DEF PromoteRead

\* The current key read is one that may be moved on.
LEMMA PromoteReadCurrentSound ==
    ASSUME TypeOK, Sound, NEW o \in Operators, NEW c \in Kids \cup {NoKid},
           PromoteReadCurrent(o, c)
    PROVE  Sound'
<1> USE SigningKeysAssumption
<1> DEFINE q == [pc |-> "switching", next |-> op[o].next, current |-> c, due |-> {}]
<1>1. q \in Operation
  BY DEF Operation, TypeOK
<1>2. c \in Kids => Recent(keys[c], now) /\ keys[c].status # "next"
  BY DEF PromoteReadCurrent, WithStatus, Recent, PUBLISHED_STATUSES
<1>3. /\ op[o].next \in Kids /\ Recent(keys[op[o].next], now)
      /\ keys[op[o].next].createdAt + Overlap <= now
  BY DEF PromoteReadCurrent, Sound, OperationsOK
<1> QED
  BY <1>1, <1>2, <1>3, ReadSound DEF PromoteReadCurrent

\* retire reads keys whose overlap has passed.
LEMMA RetireReadSound ==
    ASSUME TypeOK, Sound, NEW o \in Operators, NEW asked \in SUBSET Kids,
           RetireRead(o, asked, FALSE)
    PROVE  Sound'
<1> DEFINE due == {k \in asked \cap WithStatus("retiring") :
                     FALSE \/ (keys[k].retireAfter # Unset /\ keys[k].retireAfter <= now)}
           q == [pc |-> "retiring", next |-> NoKid, current |-> NoKid, due |-> due]
<1>1. q \in Operation
  BY DEF Operation
<1>2. \A k \in due : /\ keys[k].status \in {"retiring", "retired"}
                     /\ keys[k].retireAfter # Unset /\ keys[k].retireAfter <= now
  BY DEF WithStatus
<1>3. op' = [op EXCEPT ![o] = q] /\ UNCHANGED <<now, keys, server, outside>>
  BY DEF RetireRead
<1> HIDE DEF due
<1> QED
  BY <1>1, <1>2, <1>3, ReadSound

\* An operation that dies has nothing left to write.
LEMMA AbandonSound ==
    ASSUME TypeOK, Sound, NEW o \in Operators, Abandon(o)
    PROVE  Sound'
<1>1. NoOperation \in Operation /\ NoOperation.pc = "idle"
  BY DEF NoOperation, Operation
<1> QED
  BY <1>1, ReadSound DEF Abandon

\* The rows after the switch.
LEMMA SwitchedRows ==
    ASSUME TypeOK, Sound, NEW o \in Operators, PromoteSwitch(o), NEW k \in Kids
    PROVE  /\ keys'[k].createdAt = keys[k].createdAt
           /\ k = op[o].next => keys'[k].status = "current"
           /\ k # op[o].next /\ k = op[o].current
                => keys'[k].status = "retiring" /\ keys'[k].retireAfter = now + Overlap
           /\ k # op[o].next /\ k # op[o].current => keys'[k] = keys[k]
<1> DEFINE row == IF k = op[o].current THEN Retiring(keys[k]) ELSE keys[k]
<1>1. keys'[k] = IF k = op[o].next THEN WithNewStatus(row, "current") ELSE row
  BY DEF PromoteSwitch
<1>2. /\ row.createdAt = keys[k].createdAt
      /\ k = op[o].current => row.status = "retiring" /\ row.retireAfter = now + Overlap
      /\ k # op[o].current => row = keys[k]
  BY DEF Retiring
<1> HIDE DEF row
<1> QED
  BY <1>1, <1>2 DEF WithNewStatus

\* Promoting gives the old key its whole overlap, and the new one has had its own.
LEMMA PromoteSwitchSound ==
    ASSUME TypeOK, Sound, NEW o \in Operators, PromoteSwitch(o)
    PROVE  Sound'
<1> USE SigningKeysAssumption
<1> DEFINE n == op[o].next
           c == op[o].current
<1>1. /\ UNCHANGED <<now, phase, signing, loaded, caches, liveUntil>>
      /\ op[o].pc = "switching"
  BY DEF PromoteSwitch, server, outside
<1>2. /\ n \in Kids /\ Recent(keys[n], now) /\ keys[n].createdAt + Overlap <= now
      /\ c \in Kids => Recent(keys[c], now) /\ keys[c].status # "next"
  BY <1>1 DEF Sound, OperationsOK
<1>3. \A k \in Kids :
        /\ keys'[k].createdAt = keys[k].createdAt
        /\ k = n => keys'[k].status = "current"
        /\ k # n /\ k = c
             => keys'[k].status = "retiring" /\ keys'[k].retireAfter = now + Overlap
        /\ k # n /\ k # c => keys'[k] = keys[k]
  BY SwitchedRows
<1>4. op'[o].pc = "idle" /\ \A p \in Operators \ {o} : op'[p] = op[p]
  BY DEF PromoteSwitch, NoOperation, TypeOK
<1>5. now \in Nat /\ Overlap > 0 /\ TokenTTL <= Overlap
  BY DEF TypeOK
<1>6. RowsOK'
  <2> SUFFICES ASSUME NEW k \in Kids
               PROVE  /\ keys'[k].createdAt <= now
                      /\ liveUntil[k] <= now + TokenTTL
                      /\ keys'[k].status \in {"unborn", "next"} => liveUntil[k] = 0
                      /\ keys'[k].status \in {"retiring", "retired"}
                           => keys'[k].retireAfter # Unset /\ liveUntil[k] <= keys'[k].retireAfter
                      /\ keys'[k].status = "retired" => keys'[k].retireAfter <= now
    BY <1>1 DEF RowsOK
  <2>1. CASE k # n /\ k # c
    BY <1>3, <2>1 DEF Sound, RowsOK
  <2>2. CASE k = n
    BY <1>3, <2>2 DEF Sound, RowsOK
  <2>3. CASE k # n /\ k = c
    <3>1. liveUntil[k] \in Nat /\ liveUntil[k] <= now + TokenTTL /\ keys[k].createdAt <= now
      BY DEF Sound, RowsOK, TypeOK
    <3>2. now + Overlap # Unset /\ now + TokenTTL <= now + Overlap /\ now + Overlap \in Nat
      BY <1>5 DEF Unset
    <3> QED
      BY <1>3, <1>5, <2>3, <3>1, <3>2
  <2> QED
    BY <2>1, <2>2, <2>3
<1>7. ASSUME NEW k \in Kids, Recent(keys[k], now) PROVE Recent(keys'[k], now)
  <2>1. k = n => Recent(keys'[k], now)
    BY <1>3 DEF Recent, PUBLISHED_STATUSES
  <2>2. k # n /\ k = c => Recent(keys'[k], now)
    BY <1>1, <1>3, <1>5 DEF Recent, PUBLISHED_STATUSES
  <2>3. k # n /\ k # c => Recent(keys'[k], now)
    BY <1>1, <1>3, <1>7 DEF Recent
  <2> QED
    BY <2>1, <2>2, <2>3
<1>8. ServerOK'
  <2> SUFFICES ASSUME phase = "up"
               PROVE  /\ signing \in Kids \cap loaded
                      /\ keys'[signing].status \in {"current", "retiring"}
                      /\ keys'[signing].status = "retiring"
                           => now <= keys'[signing].retireAfter - Overlap + RestartWindow
                      /\ \A k \in Kids : Live(k) => k \in loaded
    BY <1>1 DEF ServerOK, Live
  <2>1. /\ signing \in Kids \cap loaded /\ keys[signing].status \in {"current", "retiring"}
        /\ keys[signing].status = "retiring"
             => now <= keys[signing].retireAfter - Overlap + RestartWindow
        /\ \A k \in Kids : Live(k) => k \in loaded
    BY DEF Sound, ServerOK
  <2>2. now <= (now + Overlap) - Overlap + RestartWindow
    BY <1>5
  <2> QED
    BY <1>3, <2>1, <2>2
<1>9. OperationsOK'
  <2> SUFFICES ASSUME NEW p \in Operators \ {o}
               PROVE
        /\ op[p].pc \in {"promoting", "switching"}
             => /\ op[p].next \in Kids /\ Recent(keys'[op[p].next], now)
                /\ keys'[op[p].next].createdAt + Overlap <= now
        /\ op[p].pc = "switching" /\ op[p].current \in Kids
             => Recent(keys'[op[p].current], now) /\ keys'[op[p].current].status # "next"
        /\ op[p].pc = "retiring"
             => \A k \in op[p].due : /\ keys'[k].status \in {"retiring", "retired"}
                                     /\ keys'[k].retireAfter # Unset
                                     /\ keys'[k].retireAfter <= now
    BY <1>1, <1>4 DEF OperationsOK, Recent
  <2>1. op[p].pc \in {"promoting", "switching"}
          => /\ op[p].next \in Kids /\ Recent(keys'[op[p].next], now)
             /\ keys'[op[p].next].createdAt + Overlap <= now
    BY <1>3, <1>7 DEF Sound, OperationsOK
  <2>2. op[p].pc = "switching" /\ op[p].current \in Kids
          => Recent(keys'[op[p].current], now) /\ keys'[op[p].current].status # "next"
    BY <1>3, <1>7 DEF Sound, OperationsOK
  <2>3. ASSUME op[p].pc = "retiring", NEW k \in op[p].due
        PROVE  /\ keys'[k].status \in {"retiring", "retired"}
               /\ keys'[k].retireAfter # Unset /\ keys'[k].retireAfter <= now
    <3>1. /\ keys[k].status \in {"retiring", "retired"}
          /\ keys[k].retireAfter # Unset /\ keys[k].retireAfter <= now
      BY <2>3 DEF Sound, OperationsOK
    <3>2. k \in Kids
      BY DEF TypeOK, Operation
    <3>3. keys[k].retireAfter \in Nat
      BY <3>1, <3>2 DEF TypeOK, Row
    <3>4. ~Recent(keys[k], now)
      BY <1>5, <3>1, <3>3 DEF Recent, PUBLISHED_STATUSES
    <3>5. k # n /\ k # c
      BY <1>2, <3>2, <3>4
    <3> QED
      BY <1>3, <3>1, <3>2, <3>5
  <2> QED
    BY <2>1, <2>2, <2>3
<1>10. CachesOK'
  <2> SUFFICES ASSUME NEW d \in Consumers, NEW k \in Kids, caches[d].at # Unset
               PROVE
        /\ caches[d].at <= now
        /\ keys'[k].status \in PUBLISHED_STATUSES /\ keys'[k].createdAt < caches[d].at
             => k \in caches[d].keys
        /\ keys'[k].status \in {"current", "retiring"} /\ now < caches[d].at + CacheTTL
             => k \in caches[d].keys
    BY <1>1 DEF CachesOK
  <2>1. /\ caches[d].at <= now
        /\ keys[k].status \in PUBLISHED_STATUSES /\ keys[k].createdAt < caches[d].at
             => k \in caches[d].keys
        /\ keys[k].status \in {"current", "retiring"} /\ now < caches[d].at + CacheTTL
             => k \in caches[d].keys
    BY DEF Sound, CachesOK
  <2>2. caches[d].at \in Nat /\ keys[k].createdAt \in Nat
    BY DEF TypeOK, KeySet, Row
  <2>3. CASE k # n /\ k # c
    BY <1>3, <2>1, <2>3
  <2>4. CASE k # n /\ k = c
    <3>1. keys[k].status \in {"current", "retiring"}
      BY <1>2, <2>4 DEF Recent, PUBLISHED_STATUSES
    <3> QED
      BY <1>3, <2>1, <2>4, <3>1 DEF PUBLISHED_STATUSES
  <2>5. CASE k = n
    <3>1. keys[k].status \in PUBLISHED_STATUSES
      BY <1>2, <2>5 DEF Recent
    <3>2. now < caches[d].at + CacheTTL => keys[k].createdAt < caches[d].at
      BY <1>2, <1>5, <2>2, <2>5
    <3> QED
      BY <1>3, <2>1, <3>1, <3>2
  <2> QED
    BY <2>3, <2>4, <2>5
<1>11. CurrentOK'
  BY <1>2, <1>3 DEF CurrentOK, WithStatus
<1> QED
  BY <1>6, <1>8, <1>9, <1>10, <1>11 DEF Sound

\* Retiring a key whose overlap has passed takes nothing from anybody.
LEMMA RetireWriteSound ==
    ASSUME TypeOK, Sound, PromptRestart, NEW o \in Operators, NEW k \in Kids,
           RetireWrite(o, k)
    PROVE  Sound'
<1> USE SigningKeysAssumption
<1>1. /\ UNCHANGED <<now, phase, signing, loaded, caches, liveUntil>>
      /\ op[o].pc = "retiring" /\ k \in op[o].due
  BY DEF RetireWrite, server, outside
<1>2. /\ keys[k].status \in {"retiring", "retired"}
      /\ keys[k].retireAfter # Unset /\ keys[k].retireAfter <= now
  BY <1>1 DEF Sound, OperationsOK
<1>3. keys[k].retireAfter \in Nat /\ now \in Nat /\ TokenTTL > 0
  BY <1>2 DEF TypeOK, Row
<1>4. /\ keys'[k].status = "retired" /\ keys'[k].createdAt = keys[k].createdAt
      /\ keys'[k].retireAfter = keys[k].retireAfter
      /\ \A j \in Kids \ {k} : keys'[j] = keys[j]
  BY DEF RetireWrite, WithNewStatus, TypeOK
<1>5. /\ op'[o].pc \in {"idle", "retiring"}
      /\ op'[o].due \subseteq op[o].due
      /\ \A p \in Operators \ {o} : op'[p] = op[p]
  BY DEF RetireWrite, NoOperation, TypeOK
<1>6. RowsOK'
  BY <1>1, <1>2, <1>4 DEF Sound, RowsOK
<1>7. ~Recent(keys[k], now)
  BY <1>2, <1>3 DEF Recent, PUBLISHED_STATUSES
<1>8. ServerOK'
  <2>1. ASSUME phase = "up" PROVE signing # k
    <3>1. keys[signing].status \in {"current", "retiring"}
          /\ (keys[signing].status = "retiring"
                => now <= keys[signing].retireAfter - Overlap + RestartWindow)
      BY <2>1 DEF Sound, ServerOK
    <3>2. now > keys[k].retireAfter - Overlap + RestartWindow
      BY <1>2, <1>3 DEF PromptRestart
    <3> QED
      BY <1>2, <1>3, <3>1, <3>2
  <2> QED
    BY <1>1, <1>4, <2>1 DEF Sound, ServerOK, Live
<1>9. OperationsOK'
  <2>1. ASSUME NEW j \in Kids, Recent(keys[j], now) PROVE Recent(keys'[j], now) /\ keys'[j] = keys[j]
    BY <1>1, <1>4, <1>7, <2>1 DEF Recent
  <2>2. ASSUME NEW j \in Kids,
               keys[j].status \in {"retiring", "retired"} /\ keys[j].retireAfter # Unset
                 /\ keys[j].retireAfter <= now
        PROVE  keys'[j].status \in {"retiring", "retired"} /\ keys'[j].retireAfter # Unset
                 /\ keys'[j].retireAfter <= now'
    BY <1>1, <1>4, <2>2
  <2>3. \A p \in Operators : op[p].due \subseteq Kids
    BY DEF TypeOK, Operation
  <2>4. ASSUME NEW p \in Operators \ {o}
        PROVE
        /\ op'[p].pc \in {"promoting", "switching"}
             => /\ op'[p].next \in Kids /\ Recent(keys'[op[p].next], now)
                /\ keys'[op'[p].next].createdAt + Overlap <= now'
        /\ op'[p].pc = "switching" /\ op'[p].current \in Kids
             => Recent(keys'[op[p].current], now) /\ keys'[op'[p].current].status # "next"
        /\ op'[p].pc = "retiring"
             => \A j \in op'[p].due : /\ keys'[j].status \in {"retiring", "retired"}
                                      /\ keys'[j].retireAfter # Unset
                                      /\ keys'[j].retireAfter <= now'
    BY <1>1, <1>5, <2>1, <2>2, <2>3 DEF Sound, OperationsOK
  <2>5. op'[o].pc = "retiring"
          => \A j \in op'[o].due : /\ keys'[j].status \in {"retiring", "retired"}
                                   /\ keys'[j].retireAfter # Unset
                                   /\ keys'[j].retireAfter <= now'
    BY <1>1, <1>5, <2>2, <2>3 DEF Sound, OperationsOK
  <2> QED
    BY <1>1, <1>5, <2>4, <2>5 DEF OperationsOK, Recent
<1>10. CachesOK'
  BY <1>1, <1>4 DEF Sound, CachesOK, PUBLISHED_STATUSES
<1>11. CurrentOK'
  BY <1>1, <1>2, <1>4 DEF Sound, CurrentOK, Served, WithStatus
<1> QED
  BY <1>6, <1>8, <1>9, <1>10, <1>11 DEF Sound

\* Time runs out tokens and caches, and the server is restarted before its window.
LEMMA TickSound ==
    ASSUME TypeOK, Sound, Tick
    PROVE  Sound'
<1> USE SigningKeysAssumption
<1>1. /\ now' = now + 1 /\ UNCHANGED <<keys, phase, signing, loaded, op, caches, liveUntil>>
      /\ \A o \in Operators : op[o].pc = "idle"
  BY DEF Tick, server, outside, Idle
<1>2. now \in Nat /\ \A k \in Kids : keys[k] \in Row /\ liveUntil[k] \in Nat
  BY DEF TypeOK
<1>3. RowsOK'
  BY <1>1, <1>2 DEF Sound, RowsOK, Row
<1>4. ServerOK'
  <2> SUFFICES ASSUME phase = "up"
               PROVE  /\ signing \in Kids \cap loaded
                      /\ keys[signing].status \in {"current", "retiring"}
                      /\ keys[signing].status = "retiring"
                           => now + 1 <= keys[signing].retireAfter - Overlap + RestartWindow
                      /\ \A k \in Kids : now + 1 < liveUntil[k] => k \in loaded
    BY <1>1 DEF ServerOK, Live
  <2>1. /\ signing \in Kids \cap loaded /\ keys[signing].status \in {"current", "retiring"}
        /\ \A k \in Kids : now < liveUntil[k] => k \in loaded
    BY DEF Sound, ServerOK, Live
  <2>2. ASSUME keys[signing].status = "retiring"
        PROVE  now + 1 <= keys[signing].retireAfter - Overlap + RestartWindow
    <3>1. now < keys[signing].retireAfter - Overlap + RestartWindow
      BY <2>2 DEF Tick, RestartPending
    <3>2. keys[signing].retireAfter \in Nat
      BY <1>2, <2>1, <2>2 DEF Sound, RowsOK, Row
    <3> QED
      BY <1>2, <3>1, <3>2
  <2> QED
    BY <1>2, <2>1, <2>2
<1>5. OperationsOK'
  BY <1>1 DEF OperationsOK
<1>6. CachesOK'
  BY <1>1, <1>2 DEF Sound, CachesOK, TypeOK, KeySet
<1>7. CurrentOK'
  BY <1>1 DEF Sound, CurrentOK, Served, WithStatus
<1> QED
  BY <1>3, <1>4, <1>5, <1>6, <1>7 DEF Sound

\* Every step keeps the inductive invariant, if the server is restarted promptly.
THEOREM NextIInv == ASSUME PromptRestart PROVE IInv /\ [Next]_vars => IInv'
<1> SUFFICES ASSUME IInv, [Next]_vars, ~forced' PROVE Sound'
  BY NextType DEF IInv
<1>1. TypeOK
  BY DEF IInv
<1>2. CASE UNCHANGED vars
  <2>1. Sound
    BY <1>2 DEF IInv, vars
  <2> QED
    BY <1>2, <2>1 DEF vars, server, outside, Sound, RowsOK, ServerOK, Live, OperationsOK,
                      Recent, CachesOK, CurrentOK, Served, WithStatus
<1>3. CASE Serve
  <2>1. Sound
    BY <1>3 DEF IInv, Serve, BootMint, BootExisting, BootLoad, Stop, Sign, Fetch
  <2> QED
    BY <1>1, <1>3, <2>1, BootMintSound, BootExistingSound, BootLoadSound, StopSound,
       SignSound, FetchSound DEF Serve
<1>4. ASSUME NEW o \in Operators, Operate(o) PROVE Sound'
  <2>1. ASSUME NEW k \in Kids, NEW force \in ForceChoices, PromoteRead(o, k, force)
        PROVE  Sound'
    <3>1. ~forced /\ force = FALSE
      BY <2>1, SigningKeysAssumption DEF PromoteRead
    <3> QED
      BY <1>1, <2>1, <3>1, PromoteReadSound DEF IInv
  <2>2. ASSUME NEW asked \in SUBSET Kids, NEW force \in ForceChoices,
               RetireRead(o, asked, force)
        PROVE  Sound'
    <3>1. ~forced /\ force = FALSE
      BY <2>2, SigningKeysAssumption DEF RetireRead
    <3> QED
      BY <1>1, <2>2, <3>1, RetireReadSound DEF IInv
  <2>3. CASE GenerateCheck(o) \/ \E k \in Kids : GenerateCreate(o, k)
    <3>1. Sound
      BY <2>3 DEF IInv, GenerateCheck, GenerateCreate
    <3> QED
      BY <1>1, <2>3, <3>1, GenerateSound
  <2>4. ASSUME NEW c \in Kids \cup {NoKid}, PromoteReadCurrent(o, c) PROVE Sound'
    <3>1. Sound
      BY <2>4 DEF IInv, PromoteReadCurrent
    <3> QED
      BY <1>1, <2>4, <3>1, PromoteReadCurrentSound
  <2>5. CASE PromoteSwitch(o)
    <3>1. Sound
      BY <2>5 DEF IInv, PromoteSwitch
    <3> QED
      BY <1>1, <2>5, <3>1, PromoteSwitchSound
  <2>6. ASSUME NEW k \in Kids, RetireWrite(o, k) PROVE Sound'
    <3>1. Sound
      BY <2>6 DEF IInv, RetireWrite
    <3> QED
      BY <1>1, <2>6, <3>1, RetireWriteSound
  <2>7. CASE Abandon(o)
    <3>1. Sound
      BY <2>7 DEF IInv, Abandon
    <3> QED
      BY <1>1, <2>7, <3>1, AbandonSound
  <2>8. \A k \in Kids : {k} \in SUBSET Kids
    OBVIOUS
  <2> QED
    BY <1>4, <2>1, <2>2, <2>3, <2>4, <2>5, <2>6, <2>7, <2>8 DEF Operate
<1>5. CASE Tick
  <2>1. Sound
    BY <1>5 DEF IInv, Tick
  <2> QED
    BY <1>1, <1>5, <2>1, TickSound
<1> QED
  BY <1>2, <1>3, <1>4, <1>5 DEF Next

\* The inductive invariant says what the properties say.
LEMMA InvariantImplies ==
    IInv => LiveTokensPublished /\ ConsumersVerify /\ OwnTokensVerify /\ CurrentKeyStays
<1> SUFFICES ASSUME TypeOK, Sound
             PROVE  /\ \A k \in Kids : Live(k) => k \in Published
                    /\ \A c \in Consumers, k \in Kids :
                         Fresh(c) /\ Live(k) => k \in caches[c].keys
                    /\ phase = "up" => \A k \in Kids : Live(k) => k \in loaded
                    /\ (\E c \in Consumers : caches[c].at # Unset)
                         => WithStatus("current") # {}
  BY DEF IInv, LiveTokensPublished, ConsumersVerify, OwnTokensVerify, CurrentKeyStays
<1>1. ASSUME NEW k \in Kids, Live(k) PROVE keys[k].status \in {"current", "retiring"}
  BY <1>1 DEF Live, Sound, RowsOK, TypeOK, Row, Status
<1>2. \A k \in Kids : Live(k) => k \in Published
  BY <1>1 DEF Published, PUBLISHED_STATUSES
<1>3. \A c \in Consumers, k \in Kids : Fresh(c) /\ Live(k) => k \in caches[c].keys
  BY <1>1 DEF Sound, CachesOK, Fresh
<1>4. phase = "up" => \A k \in Kids : Live(k) => k \in loaded
  BY DEF Sound, ServerOK
<1>5. (\E c \in Consumers : caches[c].at # Unset) => WithStatus("current") # {}
  BY DEF Sound, CurrentOK, Served
<1> QED
  BY <1>2, <1>3, <1>4, <1>5

\* With a prompt restart after each promotion, the inductive invariant holds.
THEOREM InductiveInvariant == ASSUME PromptRestart PROVE Spec => []IInv
<1>1. Init => IInv
  BY InitType, InitSound DEF IInv
<1>2. IInv /\ [Next]_vars => IInv'
  BY NextIInv
<1> QED
  BY <1>1, <1>2, PTL DEF Spec

\* No unforced rotation removes a key from the key set while a token it signed is
\* alive (retire in keys.ts), given a restart within the overlap less a token.
THEOREM PublishedUntilExpiry == ASSUME PromptRestart PROVE Spec => []LiveTokensPublished
<1>1. IInv => LiveTokensPublished
  BY InvariantImplies
<1> QED
  BY <1>1, InductiveInvariant, PTL

\* No consumer with a cached key set rejects a live token (promoteNext in keys.ts).
THEOREM ConsumersAlwaysVerify == ASSUME PromptRestart PROVE Spec => []ConsumersVerify
<1>1. IInv => ConsumersVerify
  BY InvariantImplies
<1> QED
  BY <1>1, InductiveInvariant, PTL

\* The server can verify its own live tokens after any restart (loadSigningKeys).
THEOREM ServerAlwaysVerifies == ASSUME PromptRestart PROVE Spec => []OwnTokensVerify
<1>1. IInv => OwnTokensVerify
  BY InvariantImplies
<1> QED
  BY <1>1, InductiveInvariant, PTL

\* No boot after the first mints a key nobody has seen (loadSigningKeys).
THEOREM NoSecondMint == ASSUME PromptRestart PROVE Spec => []CurrentKeyStays
<1>1. IInv => CurrentKeyStays
  BY InvariantImplies
<1> QED
  BY <1>1, InductiveInvariant, PTL

-----------------------------------------------------------------------------
(* One key signs, as long as there is one operator. *)

OneOperator == \A o, p \in Operators : o = p

\* Whoever is about to switch has read the current key there still is; operations
\* die with the server, so no boot mints a key under them.
Alone ==
    /\ OneCurrentKey
    /\ \A o \in Operators : op[o].pc # "idle" => phase # "down"
    /\ \A o \in Operators : op[o].pc = "switching" =>
         \A k \in WithStatus("current") : k = op[o].current

\* A step that makes no key current, nor an operator switch, keeps the invariant.
LEMMA NothingNew ==
    ASSUME Alone,
           \A k \in Kids : keys'[k].status = "current" => keys[k].status = "current",
           \A o \in Operators : /\ op'[o].pc # "idle" => phase' # "down"
                                /\ op'[o].pc = "switching" => op'[o] = op[o]
    PROVE  Alone'
BY DEF Alone, OneCurrentKey, WithStatus

LEMMA AloneServes ==
    ASSUME TypeOK, Alone, Serve PROVE Alone'
<1>1. ASSUME NEW k \in Kids, BootMint(k) PROVE Alone'
  <2>1. WithStatus("current")' = {k}
    BY <1>1 DEF BootMint, WithStatus, Born, TypeOK
  <2>2. \A o \in Operators : op'[o].pc = "idle"
    BY <1>1 DEF BootMint, Alone
  <2> QED BY <2>1, <2>2 DEF Alone, OneCurrentKey
<1>2. ASSUME NEW k \in Kids, BootLoad(k) PROVE Alone'
  BY <1>2, NothingNew DEF BootLoad
<1>3. ASSUME NEW c \in Consumers, Fetch(c) PROVE Alone'
  BY <1>3, NothingNew DEF Fetch, server, Alone
<1>4. CASE BootExisting
  BY <1>4, NothingNew DEF BootExisting
<1>5. CASE Sign
  BY <1>5, NothingNew DEF Sign, server, Alone
<1>6. CASE Stop
  BY <1>6, NothingNew DEF Stop, NoOperation
<1> QED BY <1>1, <1>2, <1>3, <1>4, <1>5, <1>6 DEF Serve

LEMMA AloneOperates ==
    ASSUME OneOperator, TypeOK, Alone, NEW o \in Operators, Operate(o) PROVE Alone'
<1>0. /\ \A p \in Operators : p = o
      /\ phase' = phase
  BY DEF OneOperator, Operate, GenerateCheck, GenerateCreate, PromoteRead, PromoteReadCurrent,
         PromoteSwitch, RetireRead, RetireWrite, Abandon, server
<1>1. phase # "down"
  BY DEF Operate, GenerateCheck, GenerateCreate, PromoteRead, PromoteReadCurrent, PromoteSwitch,
         RetireRead, RetireWrite, Abandon, MayStart, Idle, Alone
<1>2. CASE GenerateCheck(o)
  BY <1>0, <1>1, <1>2, NothingNew DEF GenerateCheck, TypeOK, Operation
<1>3. ASSUME NEW k \in Kids, GenerateCreate(o, k) PROVE Alone'
  BY <1>0, <1>1, <1>3, NothingNew DEF GenerateCreate, Born, NoOperation, TypeOK
<1>4. ASSUME NEW k \in Kids, NEW force, PromoteRead(o, k, force) PROVE Alone'
  BY <1>0, <1>1, <1>4, NothingNew DEF PromoteRead, TypeOK
<1>5. ASSUME NEW c \in Kids \cup {NoKid}, PromoteReadCurrent(o, c) PROVE Alone'
  <2>1. keys' = keys /\ op'[o].current = c
    BY <1>5 DEF PromoteReadCurrent, TypeOK
  <2>2. \A k \in WithStatus("current") : k = c
    BY <1>5 DEF PromoteReadCurrent, Alone, OneCurrentKey
  <2> QED BY <1>0, <1>1, <2>1, <2>2 DEF Alone, OneCurrentKey, WithStatus
<1>6. CASE PromoteSwitch(o)
  <2>1. \A k \in Kids : keys'[k].status = "current" => k = op[o].next
    BY <1>6 DEF PromoteSwitch, Retiring, WithNewStatus, Alone, WithStatus, TypeOK
  <2>2. op'[o].pc = "idle"
    BY <1>6 DEF PromoteSwitch, NoOperation, TypeOK
  <2> QED BY <1>0, <2>1, <2>2 DEF Alone, OneCurrentKey, WithStatus
<1>7. ASSUME NEW asked, NEW force, RetireRead(o, asked, force) PROVE Alone'
  <2>1. op'[o].pc = "retiring" /\ keys' = keys
    BY <1>7 DEF RetireRead, TypeOK
  <2> QED BY <1>0, <1>1, <2>1, NothingNew
<1>8. ASSUME NEW k \in Kids, RetireWrite(o, k) PROVE Alone'
  <2>1. op'[o].pc # "switching"
    BY <1>8 DEF RetireWrite, NoOperation, TypeOK
  <2>2. \A j \in Kids : keys'[j].status = "current" => keys[j].status = "current"
    BY <1>8 DEF RetireWrite, WithNewStatus, TypeOK
  <2> QED BY <1>0, <1>1, <2>1, <2>2, NothingNew
<1>9. CASE Abandon(o)
  BY <1>0, <1>1, <1>9, NothingNew DEF Abandon, NoOperation, TypeOK
<1> QED BY <1>2, <1>3, <1>4, <1>5, <1>6, <1>7, <1>8, <1>9 DEF Operate

\* With one operator at a time, forced or not and wherever an operation is cut off, one key is
\* current (promoteNext in keys.ts switches both rows in a transaction).
THEOREM OneKeySigns == ASSUME OneOperator PROVE Spec => []OneCurrentKey
<1>1. Init => Alone
  BY DEF Init, Alone, OneCurrentKey, WithStatus, NoOperation
<1>2. TypeOK /\ Alone /\ [Next]_vars => Alone'
  <2> SUFFICES ASSUME TypeOK, Alone, [Next]_vars PROVE Alone'
    OBVIOUS
  <2>1. CASE Tick \/ UNCHANGED vars
    BY <2>1, NothingNew DEF Tick, vars, server, Alone
  <2> QED BY <2>1, AloneServes, AloneOperates DEF Next
<1>3. Alone => OneCurrentKey
  BY DEF Alone
<1> QED
  BY <1>1, <1>2, <1>3, TypeCorrect, PTL DEF Spec
=============================================================================
