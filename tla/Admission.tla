----------------------------- MODULE Admission -----------------------------
(***************************************************************************)
(* What POST /v1/traces passes before IngestService: the middleware chain  *)
(* of AppModule (RateLimitMiddleware, then TenantContextMiddleware), the   *)
(* global QuotaIngestGuard and the route's IngestAuthGuard, in one API     *)
(* process and for one organization.                                       *)
(*                                                                         *)
(* Time passes in ticks in which a bucket refills by one part of a token.  *)
(***************************************************************************)
EXTENDS Naturals, FiniteSets, Sequences

CONSTANTS
  Slots,           \* requests handled at a time
  Addresses,       \* client addresses
  Capacity,        \* tokens of a full bucket, 120
  PartsPerToken,   \* ticks that refill a token, 500 ms at refillPerSecond = 2
  MonthlyLimit,    \* PLAN_MONTHLY_EVENT_LIMITS of the organization's plan
  MaxEvents,       \* events of the largest request
  MaxTime,         \* bound: ticks of a behaviour
  MaxMails         \* bound: warning mails counted of a billing period

ASSUME BucketAssumption == {Capacity, PartsPerToken} \subseteq Nat \ {0}
ASSUME QuotaAssumption ==
  {MonthlyLimit, MaxEvents, MaxTime} \subseteq Nat \ {0} /\ MaxMails \in Nat
ASSUME SlotsAssumption == IsFiniteSet(Slots) /\ Slots # {}

Full == Capacity * PartsPerToken

VARIABLES
  now,
  tokens,      \* the parts in each address's bucket
  lastRefill,
  grants,      \* history: what the limiter let through since the process started
  pc,          \* "idle" | "auth" | "quota" | "ingest"
  events,      \* the events of a slot's request
  used,        \* events rows created in the current billing period
  mails,       \* warning mails sent in the current billing period
  banner       \* the level of the console's last count: "clear" | "warning" | "blocked";
               \* history: "relieved" when usage has fallen since it was "blocked"

bucketVars == <<tokens, lastRefill>>
limitVars == <<bucketVars, grants>>
admissionVars == <<now, limitVars, pc, events, used, mails, banner>>

Grant == [at : Nat, address : Addresses]

\* A bucket the map does not hold is a full one.
AdmissionInit ==
  /\ now = 1
  /\ tokens = [a \in Addresses |-> Full]
  /\ lastRefill = [a \in Addresses |-> 1]
  /\ grants = <<>>
  /\ pc = [s \in Slots |-> "idle"]
  /\ events = [s \in Slots |-> 0]
  /\ used = 0 /\ mails = 0 /\ banner = "clear"

-----------------------------------------------------------------------------
\* RateLimitMiddleware.consume.

\* A plausible slip: the bucket is not capped.
RefilledUncapped(a) == tokens[a] + (now - lastRefill[a])

Refilled(a) ==
  LET parts == tokens[a] + (now - lastRefill[a])
  IN  IF parts < Full THEN parts ELSE Full

\* countIncomingEvents: a body without spans has none.
IncomingEvents == 0..MaxEvents

\* A request arrives from address a.  No tenant context exists yet, so that the
\* bucket is that of the address.
Arrive(s, a, n) ==
  /\ pc[s] = "idle"
  /\ lastRefill' = [lastRefill EXCEPT ![a] = now]
  /\ IF Refilled(a) < PartsPerToken
       THEN /\ tokens' = [tokens EXCEPT ![a] = Refilled(a)]
            /\ UNCHANGED <<grants, pc, events>>
       ELSE /\ tokens' = [tokens EXCEPT ![a] = Refilled(a) - PartsPerToken]
            /\ grants' = Append(grants, [at |-> now, address |-> a])
            /\ pc' = [pc EXCEPT ![s] = "auth"]
            /\ events' = [events EXCEPT ![s] = n]
  /\ UNCHANGED <<now, used, mails, banner>>

Tick ==
  /\ now < MaxTime
  /\ now' = now + 1
  /\ UNCHANGED <<limitVars, pc, events, used, mails, banner>>

-----------------------------------------------------------------------------
\* getUsage: limit_reached, and warning_threshold from 80 percent on.
UsageLevel ==
  CASE used >= MonthlyLimit -> "blocked"
    [] used < MonthlyLimit /\ 100 * used >= 80 * MonthlyLimit -> "warning"
    [] OTHER -> "clear"

\* What QuotaBanner and BillingPage show of an answer of GET /v1/quota.
ShowUsage(level) == banner # level /\ banner' = level

\* The banner asks every minute, BillingPage when it is opened.
RefreshBanner ==
  /\ ShowUsage(UsageLevel)
  /\ UNCHANGED <<now, limitVars, pc, events, used, mails>>

\* The request is answered and its slot is free again.
Answered(s) ==
  /\ pc' = [pc EXCEPT ![s] = "idle"]
  /\ events' = [events EXCEPT ![s] = 0]

\* TenantContextMiddleware looks up the key.
Authenticate(s) ==
  /\ pc[s] = "auth"
  /\ pc' = [pc EXCEPT ![s] = "quota"]
  /\ UNCHANGED <<now, limitVars, events, used, mails, banner>>

Unauthorized(s) ==
  /\ pc[s] = "auth"
  /\ Answered(s)
  /\ UNCHANGED <<now, limitVars, used, mails, banner>>

\* A plausible slip: the incoming events are left out.
UsedWithinQuota(n) == used <= MonthlyLimit

\* enforceIngest's comparison, of the events counted with those of the body.
WithinQuota(n) == used + n <= MonthlyLimit

\* A notifier is made for every check: no period is in the set of those it warned of.
WarnedBefore == FALSE

\* Nothing is sent without a key, and SendGrid may refuse.
SendEmail == mails' = mails + 1 \/ UNCHANGED mails

\* maybeSendQuotaWarning, which nobody waits for and whose errors are dropped.  It finds
\* an organization without an administrator's address, or sends its mail.
MaybeSendQuotaWarning ==
  IF UsageLevel = "warning" /\ ~WarnedBefore /\ mails < MaxMails
    THEN SendEmail
    ELSE UNCHANGED mails

\* The count is the last await of QuotaIngestGuard.  The request's own events are
\* not among those counted until its trace commits, and duplicates count as
\* incoming events as well.
EnforceIngest(s) ==
  /\ pc[s] = "quota"
  /\ IF WithinQuota(events[s])
       THEN pc' = [pc EXCEPT ![s] = "ingest"] /\ UNCHANGED events /\ MaybeSendQuotaWarning
       ELSE Answered(s) /\ UNCHANGED mails
  /\ UNCHANGED <<now, limitVars, used, banner>>

\* IngestAuthGuard refuses, or IngestService stores nothing: a duplicate, an invalid
\* envelope, a failed statement.
NothingStored(s) ==
  /\ pc[s] = "ingest"
  /\ Answered(s)
  /\ UNCHANGED <<now, limitVars, used, mails, banner>>

\* createFromIngest commits; a valid envelope has an event.
Stored(s) ==
  /\ pc[s] = "ingest" /\ events[s] > 0
  /\ used' = used + events[s]
  /\ Answered(s)
  /\ UNCHANGED <<now, limitVars, mails, banner>>

-----------------------------------------------------------------------------
Relieved == IF banner = "blocked" THEN "relieved" ELSE banner

\* The shortest window is 30 days and a month may have 31: on its last day retention
\* deletes events of its first, which the count then misses.
EventsDeleted(n) ==
  /\ n <= used
  /\ used' = used - n
  /\ banner' = Relieved
  /\ UNCHANGED <<now, limitVars, pc, events, mails>>

\* currentBillingPeriod: a calendar month starts.
NewPeriod ==
  /\ used # 0
  /\ used' = 0
  /\ mails' = 0
  /\ banner' = Relieved
  /\ UNCHANGED <<now, limitVars, pc, events>>

\* The process restarts.  A statement under way has or has not been executed.
Restart ==
  /\ tokens' = [a \in Addresses |-> Full]
  /\ lastRefill' = [a \in Addresses |-> now]
  /\ grants' = <<>>
  /\ pc' = [s \in Slots |-> "idle"]
  /\ events' = [s \in Slots |-> 0]
  /\ UNCHANGED <<now, used, mails, banner>>

AdmissionNext ==
  \/ \E s \in Slots, a \in Addresses, n \in IncomingEvents : Arrive(s, a, n)
  \/ \E s \in Slots :
       \/ Authenticate(s) \/ Unauthorized(s)
       \/ EnforceIngest(s)
       \/ NothingStored(s) \/ Stored(s)
  \/ \E n \in 1..MaxEvents : EventsDeleted(n)
  \/ NewPeriod \/ RefreshBanner \/ Restart \/ Tick

AdmissionSpec == AdmissionInit /\ [][AdmissionNext]_admissionVars

-----------------------------------------------------------------------------
\* In no span of time does an address get more requests through than a full bucket
\* and the refill of that span pay for.
RateBound ==
  \A a \in Addresses : \A t1 \in 1..now : \A t2 \in t1..now :
    LET passed == {i \in DOMAIN grants : grants[i].address = a /\ grants[i].at \in t1..t2}
    IN  Cardinality(passed) * PartsPerToken <= Full + (t2 - t1)

\* The requests past the quota check whose events may still be stored.
Admitted == {s \in Slots : pc[s] = "ingest" /\ events[s] > 0}

\* Usage is counted before the ingest writes, so that requests checked together may
\* exceed the quota; by less than what the process handles at a time, however they
\* and the deletions of retention interleave.
OvershootBounded ==
  used + MaxEvents * Cardinality(Admitted) < MonthlyLimit + MaxEvents * Cardinality(Slots)

\* "Ingest is blocked", says the console when its count has reached the limit; and until
\* usage falls, no request with events passes the quota check, whatever was admitted
\* before and is stored meanwhile.
BlockedMeansBlocked ==
  [][\A s \in Slots :
       banner = "blocked" /\ pc[s] = "quota" /\ pc'[s] = "ingest" => events[s] = 0
    ]_admissionVars

\* "At 80% usage, an email is sent": one in a billing period, not one with every request
\* that is checked above 80 percent.
MailedOncePerPeriod == mails <= 1

=============================================================================
