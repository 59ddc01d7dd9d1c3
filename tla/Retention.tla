----------------------------- MODULE Retention -----------------------------
(***************************************************************************)
(* The retention window of one organization: the traces table with its     *)
(* started_at, the plan, and the worker's RetentionCompactionJob, whose    *)
(* hourly timer does not wait for the run before.  Time passes in days.    *)
(***************************************************************************)
EXTENDS Naturals, FiniteSets

CONSTANTS
  Ids,             \* traces.id, ordered as uuids are: at random
  Plans,           \* plan tiers
  RetentionDays,   \* PLAN_RETENTION_DAYS
  Runs,            \* runs of the compaction that may overlap
  BatchSize,       \* traces a statement deletes, 200
  MaxDay,          \* bound: days of a behaviour
  MaxExits         \* bound: exits of the worker process

ASSUME RetentionDaysAssumption ==
  RetentionDays \in [Plans -> Nat \ {0}] /\ Plans # {}
ASSUME RetentionBoundsAssumption ==
  BatchSize \in Nat \ {0} /\ {MaxDay, MaxExits} \subseteq Nat
ASSUME IdsAssumption == Ids \subseteq Nat /\ IsFiniteSet(Ids)

VARIABLES
  today,
  plan,        \* organizations.plan_tier
  row,         \* "none" | "live" | "deleted"
  startedAt,   \* of a live trace, else 0
  run,         \* run -> [pc : "idle" | "org" | "find" | "delete", plan, cutoff, batch]
  upgraded,    \* history: the runs under way when the plan was last raised
  exits        \* times the worker has exited

storeVars == <<today, plan, row, startedAt>>
retentionVars == <<storeVars, run, upgraded, exits>>

Days == 0..MaxDay

Live == {i \in Ids : row[i] = "live"}

\* retentionCutoff; before the first day there is nothing.
Cutoff(tier) ==
  IF today > RetentionDays[tier] THEN today - RetentionDays[tier] ELSE 0

\* A plausible slip: a trace of the day before the window is still within it.
WithinRetentionLate(started, tier) == started + 1 >= Cutoff(tier)

WithinRetention(started, tier) == started >= Cutoff(tier)

NoRun == [pc |-> "idle", plan |-> CHOOSE p \in Plans : TRUE, cutoff |-> 0, batch |-> {}]

RetentionInit ==
  /\ today = 0
  /\ plan \in Plans
  /\ row = [i \in Ids |-> "none"]
  /\ startedAt = [i \in Ids |-> 0]
  /\ run = [c \in Runs |-> NoRun]
  /\ upgraded = {}
  /\ exits = 0

-----------------------------------------------------------------------------
\* Ingest commits a trace.  Its started_at is the time the request came in, that of
\* the server and not the client's, and midnight may have passed since.
Ingested(i, day) ==
  /\ row[i] = "none" /\ day \in {today, today - 1}
  /\ row' = [row EXCEPT ![i] = "live"]
  /\ startedAt' = [startedAt EXCEPT ![i] = day]
  /\ UNCHANGED <<today, plan, run, upgraded, exits>>

NextDay ==
  /\ today < MaxDay
  /\ today' = today + 1
  /\ UNCHANGED <<plan, row, startedAt, run, upgraded, exits>>

\* No code writes plan_tier: an operator does.
PlanChanged(p) ==
  /\ p # plan
  /\ plan' = p
  /\ upgraded' = IF RetentionDays[p] > RetentionDays[plan]
                   THEN {c \in Runs : run[c].pc # "idle"} ELSE upgraded
  /\ UNCHANGED <<today, row, startedAt, run, exits>>

-----------------------------------------------------------------------------
\* runCompaction: the organizations and their plans are read once.
StartRun(c) ==
  /\ run[c].pc = "idle"
  /\ run' = [run EXCEPT ![c].pc = "org", ![c].plan = plan]
  /\ UNCHANGED <<storeVars, upgraded, exits>>

\* loadRetentionService: the API's service, or where that is not resolved the same
\* windows once more.
RunCutoff(c) == Cutoff(run[c].plan)

\* A plausible slip: the cutoff is a day late.
StartOrganizationLate(c) ==
  /\ run[c].pc = "org"
  /\ run' = [run EXCEPT ![c] = [NoRun EXCEPT !.pc = "find", !.cutoff = RunCutoff(c) + 1]]
  /\ UNCHANGED <<storeVars, upgraded, exits>>

\* compactOrganization, once the organizations before it are done.
StartOrganization(c) ==
  /\ run[c].pc = "org"
  /\ run' = [run EXCEPT ![c] = [NoRun EXCEPT !.pc = "find", !.cutoff = RunCutoff(c)]]
  /\ UNCHANGED <<storeVars, upgraded, exits>>

Expired(c) == {i \in Live : startedAt[i] < run[c].cutoff}

\* The statement has no order: a batch is any of the expired traces.
Batches(c) ==
  {b \in SUBSET Expired(c) :
     Cardinality(b) = IF Cardinality(Expired(c)) < BatchSize
                      THEN Cardinality(Expired(c)) ELSE BatchSize}

FindExpired(c) ==
  /\ run[c].pc = "find"
  /\ IF Expired(c) = {}
       THEN run' = [run EXCEPT ![c] = NoRun] /\ upgraded' = upgraded \ {c}
       ELSE /\ \E b \in Batches(c) : run' = [run EXCEPT ![c].pc = "delete", ![c].batch = b]
            /\ UNCHANGED upgraded
  /\ UNCHANGED <<storeVars, exits>>

\* A plausible slip: the loop goes on with the batch it has.
DeleteBatchAgain(c) ==
  /\ run[c].pc = "delete"
  /\ row' = [i \in Ids |-> IF i \in run[c].batch THEN "deleted" ELSE row[i]]
  /\ startedAt' = [i \in Ids |-> IF i \in run[c].batch THEN 0 ELSE startedAt[i]]
  /\ UNCHANGED <<today, plan, run, upgraded, exits>>

\* deleteMany by id; spans, events and snapshots go with the traces.  Ids another
\* run has deleted are no error.
DeleteBatch(c) ==
  /\ run[c].pc = "delete"
  /\ row' = [i \in Ids |-> IF i \in run[c].batch THEN "deleted" ELSE row[i]]
  /\ startedAt' = [i \in Ids |-> IF i \in run[c].batch THEN 0 ELSE startedAt[i]]
  /\ run' = [run EXCEPT ![c].pc = "find", ![c].batch = {}]
  /\ UNCHANGED <<today, plan, upgraded, exits>>

RunStep(c) ==
  StartRun(c) \/ StartOrganization(c) \/ FindExpired(c) \/ DeleteBatch(c)

\* A run's promise is dropped: a failed statement is an unhandled rejection and ends
\* the process, as a crash does, with every run under way.
WorkerExits ==
  /\ exits < MaxExits
  /\ exits' = exits + 1
  /\ run' = [c \in Runs |-> NoRun]
  /\ upgraded' = {}
  /\ UNCHANGED storeVars

RetentionNext ==
  \/ \E i \in Ids, day \in Days : Ingested(i, day)
  \/ NextDay
  \/ \E p \in Plans : PlanChanged(p)
  \/ \E c \in Runs : RunStep(c)
  \/ WorkerExits

RetentionSpec == RetentionInit /\ [][RetentionNext]_retentionVars

-----------------------------------------------------------------------------
\* Retention deletes nothing a query would still show: a trace it deletes is outside
\* the window of the organization's plan, however long the run that deletes it has
\* been under way, unless the plan was raised under that run.
OnlyExpiredIsDeleted ==
  [][\A i \in Ids :
       row[i] = "live" /\ row'[i] = "deleted" =>
         \/ ~WithinRetention(startedAt[i], plan)
         \/ \E c \in upgraded : i \in run[c].batch]_retentionVars

\* The traces that have left the window of every plan: they stay so until they are deleted.
Overdue == {i \in Live : \A p \in Plans : ~WithinRetention(startedAt[i], p)}

\* All traces that have left the window of every plan are deleted in the end, though runs
\* overlap, take the same batches and end with the worker.
ExpiredIsDeleted == Overdue # {} ~> Overdue = {}

=============================================================================
