----------------------------- MODULE Operations -----------------------------
(***************************************************************************)
(* What an instance does by itself (index.ts): the nightly backup and the  *)
(* restore drill (backup/operations.ts, backup/bundle.ts), each on a timer *)
(* that is armed again when its run is over (jobs/daily.ts) or by hand on  *)
(* the host (cli/backup.ts), and the alert rules, which every few minutes  *)
(* read the audit trail that all of this writes (audit/alerts.ts).         *)
(*                                                                         *)
(* Time is counted in alert intervals.  The order of the trail stands for  *)
(* the time between two ticks: a mark is a place in it.                    *)
(***************************************************************************)
EXTENDS Integers, Sequences, FiniteSets, FiniteSetsExt

CONSTANTS
    Day, BackupAt, DrillAt, \* the period of the daily jobs and their times of day
    Quiet,                  \* how long after an alert the failure rule stays quiet
    BackupOverdue,          \* BACKUP_OVERDUE: a day and a half
    Slow, SlowRun,          \* bounds: an evaluation, a run is over within so many ticks
    Nothing,
    MaxTime,                \* bound
    MaxTrouble              \* bound: writes, runs by hand, faults, stops, new settings in all

ASSUME OperationsAssumption ==
    /\ {Day, BackupAt, DrillAt, Quiet, BackupOverdue, Slow, SlowRun} \subseteq Nat
    /\ Day < BackupOverdue
    /\ Slow < Day          \* a mail is sent, or given up, long before a day is over
    /\ Nothing # "sound"   \* a row without a note is not one with

VARIABLES
    now,
    up,         \* the service is running
    trail,      \* the audit trail, in id order: [event, at, mark, note]
    recipients, \* alert recipients are set
    evals,      \* the evaluations under way
    alarm,      \* when the interval timer fires next
    armed,      \* when each daily timer fires; Nothing while its run is going on
    runs,       \* backups and drills under way, by who started them
    store,      \* the bundles offsite
    data,       \* what a backup reads: [rows, keys], a version of each
    listed,     \* history: the rows that were in some mail
    watched,    \* history: since when the service has been up with recipients set
    trouble     \* how much of the bound is used up

hostVars == <<now, up, trail, recipients, evals, alarm, armed, runs, store, data, listed,
          watched, trouble>>

trails == <<trail, listed>>
alerting == <<recipients, evals, alarm, watched>>
backing == <<armed, runs, store, data>>

Jobs == {"backup", "drill"}

Runners == Jobs \cup {"host"}   \* a daily job runs under its own name

Failures == {"backup.failed", "drill.failed"}

Rules == <<"backup_failure", "backup_overdue">>

QuietFor == [backup_failure |-> Quiet, backup_overdue |-> Day]

Row(event, note) == [event |-> event, at |-> now, mark |-> Len(trail) + 1, note |-> note]

LastOf(rows) == IF rows = {} THEN 0 ELSE Max(rows)

\* The next time of day after now.
UntilNext(at, t) == Min({u \in t + 1 .. t + Day : u % Day = at % Day})

TimeOf(job) == IF job = "backup" THEN BackupAt ELSE DrillAt

-----------------------------------------------------------------------------
HostInit ==
    /\ now = 0 /\ up = TRUE
    /\ trail = <<[event |-> "owner.claimed", at |-> 0, mark |-> 1, note |-> Nothing]>>
    /\ recipients \in BOOLEAN
    /\ evals = {} /\ alarm = 1
    /\ armed = [j \in Jobs |-> UntilNext(TimeOf(j), 0)]
    /\ runs = [w \in Runners |-> Nothing]
    /\ store = {} /\ data = [rows |-> 0, keys |-> 0]
    /\ listed = {}
    /\ watched = IF recipients THEN 0 ELSE Nothing
    /\ trouble = 0

Trouble == trouble < MaxTrouble /\ trouble' = trouble + 1

-----------------------------------------------------------------------------
(* Runs.  A daily timer starts one and is armed again when it is over, so  *)
(* two of one kind overlap only when the host starts the second.           *)

Begin(w, job) ==
    runs' = [runs EXCEPT ![w] =
        [job |-> job, step |-> IF job = "backup" THEN "dump" ELSE "pick", began |-> now,
         bundle |-> <<>>, torn |-> FALSE]]

ScheduleDaily(job) ==
    /\ up /\ armed[job] = now
    /\ Begin(job, job)
    /\ armed' = [armed EXCEPT ![job] = Nothing]
    /\ UNCHANGED <<now, up, trails, alerting, store, data, trouble>>

ByHand(job) ==
    /\ up /\ runs["host"] = Nothing
    /\ Trouble
    /\ Begin("host", job)
    /\ UNCHANGED <<now, up, trails, alerting, armed, store, data>>

\* A run is over, and says so in the trail; a daily timer is armed again.
Over(w, event, note) ==
    /\ trail' = Append(trail, Row(event, note))
    /\ runs' = [runs EXCEPT ![w] = Nothing]
    /\ armed' = IF w \in Jobs THEN [armed EXCEPT ![w] = UntilNext(TimeOf(w), now)] ELSE armed
    /\ UNCHANGED <<now, up, listed, alerting, data>>

At(w, step) == runs[w] # Nothing /\ runs[w].step = step

(* createBundle: the dump, the state file, the keys and the counts are     *)
(* read one after another, and the manifest is written of the last two.    *)

Reads == [dump |-> "state", state |-> "keys", keys |-> "counts", counts |-> "put"]

Content(part) ==
    CASE part = "dump" -> data
      [] part = "keys" -> data.keys
      [] OTHER -> data.rows

CreateBundle(w) ==
    /\ runs[w] # Nothing /\ runs[w].step \in DOMAIN Reads
    /\ LET part == runs[w].step
       IN  runs' = [runs EXCEPT ![w].step = Reads[part],
                                ![w].bundle = Append(@, Content(part))]
    /\ UNCHANGED <<now, up, trails, alerting, armed, store, data, trouble>>

\* The bundle's name is the time its run began.
Put(w) ==
    /\ At(w, "put")
    /\ store' = store \cup {[named |-> runs[w].began, holds |-> runs[w].bundle, torn |-> runs[w].torn]}
    /\ runs' = [runs EXCEPT ![w].step = "copy"]
    /\ UNCHANGED <<now, up, trails, alerting, armed, data, trouble>>

\* The local copy is made and the row written.
BackupDone(w) ==
    /\ At(w, "copy")
    /\ Over(w, "backup.created", Nothing)
    /\ UNCHANGED <<store, trouble>>

\* Any step of a run can fail; that of a backup after the upload leaves its bundle offsite.
RunFails(w) ==
    /\ runs[w] # Nothing
    /\ Trouble
    /\ Over(w, IF runs[w].job = "backup" THEN "backup.failed" ELSE "drill.failed", "fault")
    /\ UNCHANGED store

(* runDrill: the newest bundle by name, opened, restored and compared.     *)

Newest == {b \in store : \A other \in store : other.named <= b.named}

DrillPick(w) ==
    /\ At(w, "pick")
    /\ \E b \in Newest :
         runs' = [runs EXCEPT ![w].step = "judge", ![w].bundle = b.holds, ![w].torn = b.torn]
    /\ UNCHANGED <<now, up, trails, alerting, armed, store, data, trouble>>

NoBundles(w) ==
    /\ At(w, "pick") /\ store = {}
    /\ Over(w, "drill.failed", "fault")
    /\ UNCHANGED <<store, trouble>>

\* Mutant: the restored database is held against the live one.
MatchesLive(bundle) == bundle[1] = data

\* The restored keys decrypt, and are the ones the manifest names.
Decrypts(bundle) == bundle[1].keys = bundle[3]

\* The people and the apps came back, as the manifest and the state file count them.
Counted(bundle) == bundle[1].rows = bundle[4] /\ bundle[1].rows = bundle[2]

\* A second service boots on the restored database and publishes the manifest's keys.
Published(bundle) == bundle[1].keys = bundle[3]

Matches(bundle) == Decrypts(bundle) /\ Counted(bundle) /\ Published(bundle)

DrillJudge(w) ==
    /\ At(w, "judge")
    /\ IF Matches(runs[w].bundle)
       THEN Over(w, "drill.passed", Nothing)
       ELSE Over(w, "drill.failed", IF runs[w].torn THEN "torn" ELSE "sound")
    /\ UNCHANGED <<store, trouble>>

\* Somebody adds a person or an app, or the keys are rotated.
Write(part) ==
    /\ up
    /\ Trouble
    /\ data' = [data EXCEPT ![part] = @ + 1]
    /\ runs' = [w \in Runners |->
         IF runs[w] # Nothing /\ runs[w].job = "backup" /\ runs[w].step \in {"state", "keys", "counts"}
         THEN [runs[w] EXCEPT !.torn = TRUE] ELSE runs[w]]
    /\ UNCHANGED <<now, up, trails, alerting, armed, store>>

-----------------------------------------------------------------------------
(* evaluateAlerts.  The interval does not wait for the evaluation before.  *)

LastAlert(rule) ==
    LastOf({i \in 1..Len(trail) : trail[i].event = "alert.sent" /\ trail[i].note = rule})

StillQuiet(e, rule) ==
    LET last == LastAlert(rule)
    IN  last # 0 /\ e.now - trail[last].at < QuietFor[rule]

\* The rows after the last alert's evaluation, or of the last day before the first alert.
EventsSince(e, rule, events) ==
    LET last == LastAlert(rule)
    IN  {i \in 1..Len(trail) :
            /\ trail[i].event \in events
            /\ IF last # 0 THEN trail[i].mark > trail[last].mark ELSE trail[i].at > e.now - Day}

\* Mutant: a backup that failed counts as the last one.
OverdueByAnyRun(e) ==
    LET last == LastOf({i \in 1..Len(trail) : trail[i].event \in {"backup.created", "backup.failed"}})
    IN  /\ e.now - trail[1].at >= BackupOverdue
        /\ last # 0 => e.now - trail[last].at >= BackupOverdue

Overdue(e) ==
    LET last == LastOf({i \in 1..Len(trail) : trail[i].event = "backup.created"})
    IN  /\ e.now - trail[1].at >= BackupOverdue
        /\ last # 0 => e.now - trail[last].at >= BackupOverdue

Found(e, rule) == IF rule = "backup_failure" THEN EventsSince(e, rule, Failures) ELSE {}

Fires(e, rule) ==
    /\ e.to /\ ~StillQuiet(e, rule)
    /\ IF rule = "backup_failure" THEN Found(e, rule) # {} ELSE Overdue(e)

\* The rules are asked one after another; the first that fires has its mail sent before
\* the next is asked.  When none is left that fires, the evaluation is over.
Asked(e, from) ==
    LET firing == {i \in from .. Len(Rules) : Fires(e, Rules[i])}
    IN  IF firing = {} THEN {}
        ELSE {[e EXCEPT !.rule = Min(firing), !.step = "mail",
                        !.found = Found(e, Rules[Min(firing)])]}

StartAlerts ==
    /\ up /\ alarm = now
    /\ alarm' = now + 1
    /\ evals' = evals \cup
         Asked([now |-> now, mark |-> Len(trail), to |-> recipients, rule |-> 1,
                step |-> "mail", found |-> {}], 1)
    /\ UNCHANGED <<now, up, trails, recipients, watched, backing, trouble>>

\* The mail goes to the driver, which delivers it or reports that it could not.
Mail(e) ==
    /\ e.step = "mail"
    /\ listed' = listed \cup e.found
    /\ evals' = (evals \ {e}) \cup {[e EXCEPT !.step = "record"]}
    /\ UNCHANGED <<now, up, trail, recipients, alarm, watched, backing, trouble>>

\* Mutant: the row is stamped as it is written.
AlertSentNow(e) ==
    [event |-> "alert.sent", at |-> now, mark |-> Len(trail), note |-> Rules[e.rule]]

\* Stamped with the evaluation's time, not with the row's own.
AlertSent(e) ==
    [event |-> "alert.sent", at |-> e.now, mark |-> e.mark, note |-> Rules[e.rule]]

Record(e) ==
    /\ e.step = "record"
    /\ trail' = Append(trail, AlertSent(e))
    /\ evals' = (evals \ {e}) \cup Asked(e, e.rule + 1)
    /\ UNCHANGED <<now, up, listed, recipients, alarm, watched, backing, trouble>>

SetRecipients ==
    /\ up
    /\ Trouble
    /\ recipients' = ~recipients
    /\ watched' = IF recipients THEN Nothing ELSE now
    /\ UNCHANGED <<now, up, trails, evals, alarm, backing>>

-----------------------------------------------------------------------------
(* The process stops with everything it was doing, and comes back.         *)

ServiceStops ==
    /\ up
    /\ Trouble
    /\ up' = FALSE
    /\ evals' = {} /\ runs' = [w \in Runners |-> Nothing] /\ watched' = Nothing
    /\ UNCHANGED <<now, trails, recipients, alarm, armed, store, data>>

ServiceStarts ==
    /\ ~up
    /\ up' = TRUE
    /\ alarm' = now + 1
    /\ armed' = [j \in Jobs |-> UntilNext(TimeOf(j), now)]
    /\ watched' = IF recipients THEN now ELSE Nothing
    /\ UNCHANGED <<now, trails, recipients, evals, runs, store, data, trouble>>

\* Time passes: no timer that is due is late, and nothing takes longer than its bound.
Tick ==
    /\ now < MaxTime
    /\ up => alarm > now /\ \A j \in Jobs : armed[j] # now
    /\ \A e \in evals : now - e.now < Slow
    /\ \A w \in Runners : runs[w] # Nothing => now - runs[w].began < SlowRun
    /\ now' = now + 1
    /\ UNCHANGED <<up, trails, alerting, backing, trouble>>

HostNext ==
    \/ \E j \in Jobs : ScheduleDaily(j) \/ ByHand(j)
    \/ \E w \in Runners :
         \/ CreateBundle(w) \/ Put(w) \/ BackupDone(w) \/ RunFails(w)
         \/ DrillPick(w) \/ NoBundles(w) \/ DrillJudge(w)
    \/ \E part \in {"rows", "keys"} : Write(part)
    \/ StartAlerts
    \/ \E e \in evals : Mail(e) \/ Record(e)
    \/ SetRecipients \/ ServiceStops \/ ServiceStarts \/ Tick

HostSpec == HostInit /\ [][HostNext]_hostVars

-----------------------------------------------------------------------------
\* A failure that the last alert's evaluation came after has been in a mail: no row falls
\* between two alerts, though rows are written while the mail is on its way, evaluations
\* overlap and the process stops between the mail and its row (alerts.ts 10-16: "one
\* email that lists everything since the last one").  Rows a day older than the first
\* alert are out of its reach (alerts.ts 249).
NothingSkipped ==
    LET rule == "backup_failure"
        alerts == {i \in 1..Len(trail) : trail[i].event = "alert.sent" /\ trail[i].note = rule}
    IN  \A i \in 1..Len(trail), last \in alerts :
            /\ trail[i].event \in Failures
            /\ trail[i].mark <= trail[last].mark
            /\ trail[i].at > trail[Min(alerts)].at - Day
            => i \in listed

LastBackup == trail[LastOf({1} \cup {i \in 1..Len(trail) : trail[i].event = "backup.created"})].at

\* No backup for a day and a half is noticed: with the service up and recipients set, an
\* alert goes out within one interval and the time a mail takes, whatever kept the backup
\* from being taken -- a fault, a stop over its hour, a timer not armed again
\* (daily.ts 5-7, alerts.ts 199-221).
OverdueNoticed ==
    watched # Nothing /\ now > Max({LastBackup + BackupOverdue, watched}) + 1 + Slow
        => \E i \in 1..Len(trail) :
             trail[i].event = "alert.sent" /\ trail[i].note = "backup_overdue" /\ trail[i].at >= LastBackup

\* A drill that holds a bundle against itself says no only to one that was taken while
\* something was written: the night's quiet backup is never reported as broken
\* (operations.ts 139-162, bundle.ts 63-105).
DrillFailsForAReason == \A i \in 1..Len(trail) : trail[i].note # "sound"

=============================================================================
