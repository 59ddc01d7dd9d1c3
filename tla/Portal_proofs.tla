---------------------------- MODULE Portal_proofs ----------------------------
(***************************************************************************)
(* Theorems about the pages of the console and what lies under them: the   *)
(* retention window (Retention), the trace a page shows (Query), and the   *)
(* way to a page (ConsoleSession).                                         *)
(***************************************************************************)
EXTENDS Portal, FiniteSetTheorems, WellFoundedInduction, TLAPS

-----------------------------------------------------------------------------
\* Retention.
RetentionTypeOK ==
  /\ today \in Nat
  /\ plan \in Plans
  /\ row \in [Ids -> {"none", "live", "deleted"}]
  /\ startedAt \in [Ids -> Nat]
  /\ run \in [Runs -> [pc : {"idle", "org", "find", "delete"}, plan : Plans, cutoff : Nat,
                       batch : SUBSET Ids]]
  /\ upgraded \subseteq Runs

\* What a run deletes was outside the window when it looked.
BatchOK(c) ==
  run[c].pc = "delete" =>
    \A i \in run[c].batch :
      row[i] = "deleted" \/ (row[i] = "live" /\ startedAt[i] < run[c].cutoff)

\* A run under which the plan was not raised is not ahead of the window: neither by the
\* plan it has read nor by the cutoff it has taken.
CutoffOK(c) ==
  c \notin upgraded =>
    /\ run[c].pc = "org" => RetentionDays[plan] <= RetentionDays[run[c].plan]
    /\ run[c].pc \in {"find", "delete"} => run[c].cutoff <= Cutoff(plan)

\* The inductive invariant.
RetentionInv ==
  /\ RetentionTypeOK
  /\ \A c \in Runs : BatchOK(c) /\ CutoffOK(c)

\* The fields of a compaction that is not running.
LEMMA NoRunType == NoRun \in [pc : {"idle"}, plan : Plans, cutoff : {0}, batch : {{}}]
  BY RetentionDaysAssumption DEF NoRun

\* No compaction runs at first and nothing is deleted.
LEMMA RetentionInvInit == RetentionInit => RetentionInv
  BY NoRunType DEF RetentionInit, RetentionInv, RetentionTypeOK, BatchOK, CutoffOK

\* The steps of a compaction keep the types.
LEMMA RetentionTypesStep ==
  ASSUME RetentionInv, RetentionNext
  PROVE  RetentionTypeOK'
<1> USE DEF RetentionInv, RetentionTypeOK, storeVars
<1>1. ASSUME NEW i \in Ids, NEW day \in Days, Ingested(i, day) PROVE RetentionTypeOK'
  BY <1>1 DEF Ingested, Days
<1>2. ASSUME NextDay PROVE RetentionTypeOK'
  BY <1>2 DEF NextDay
<1>3. ASSUME NEW p \in Plans, PlanChanged(p) PROVE RetentionTypeOK'
  BY <1>3 DEF PlanChanged
<1>4. ASSUME NEW c \in Runs, StartRun(c) PROVE RetentionTypeOK'
  BY <1>4 DEF StartRun
<1>5. ASSUME NEW c \in Runs, StartOrganization(c) PROVE RetentionTypeOK'
  <2>1. RunCutoff(c) \in Nat
    BY RetentionDaysAssumption DEF RunCutoff, Cutoff
  <2> QED
    BY <1>5, <2>1, NoRunType DEF StartOrganization
<1>6. ASSUME NEW c \in Runs, FindExpired(c) PROVE RetentionTypeOK'
  <2>1. \A b \in Batches(c) : b \subseteq Ids
    BY DEF Batches, Expired, Live
  <2> QED
    BY <1>6, <2>1, NoRunType DEF FindExpired
<1>7. ASSUME NEW c \in Runs, DeleteBatch(c) PROVE RetentionTypeOK'
  BY <1>7 DEF DeleteBatch
<1>8. ASSUME WorkerExits PROVE RetentionTypeOK'
  BY <1>8, NoRunType DEF WorkerExits
<1> QED
  BY <1>1, <1>2, <1>3, <1>4, <1>5, <1>6, <1>7, <1>8 DEF RetentionNext, RunStep

\* A batch holds only traces older than the cutoff of its run, whatever others delete.
LEMMA BatchesStep ==
  ASSUME RetentionInv, RetentionNext, NEW d \in Runs
  PROVE  BatchOK(d)'
<1> USE DEF RetentionInv, RetentionTypeOK, storeVars, BatchOK
<1>1. ASSUME NEW i \in Ids, NEW day \in Days, Ingested(i, day) PROVE BatchOK(d)'
  BY <1>1 DEF Ingested
<1>2. ASSUME NextDay PROVE BatchOK(d)'
  BY <1>2 DEF NextDay
<1>3. ASSUME NEW p \in Plans, PlanChanged(p) PROVE BatchOK(d)'
  BY <1>3 DEF PlanChanged
<1>4. ASSUME NEW c \in Runs, StartRun(c) PROVE BatchOK(d)'
  BY <1>4 DEF StartRun
<1>5. ASSUME NEW c \in Runs, StartOrganization(c) PROVE BatchOK(d)'
  BY <1>5, NoRunType DEF StartOrganization
<1>6. ASSUME NEW c \in Runs, FindExpired(c) PROVE BatchOK(d)'
  <2>1. ASSUME NEW b \in Batches(c), NEW i \in b
        PROVE  row[i] = "live" /\ startedAt[i] < run[c].cutoff
    BY DEF Batches, Expired, Live
  <2>2. CASE d = c
    BY <1>6, <2>1, <2>2, NoRunType DEF FindExpired
  <2>3. CASE d # c
    BY <1>6, <2>3 DEF FindExpired
  <2> QED
    BY <2>2, <2>3
<1>7. ASSUME NEW c \in Runs, DeleteBatch(c) PROVE BatchOK(d)'
  BY <1>7 DEF DeleteBatch
<1>8. ASSUME WorkerExits PROVE BatchOK(d)'
  BY <1>8, NoRunType DEF WorkerExits
<1> QED
  BY <1>1, <1>2, <1>3, <1>4, <1>5, <1>6, <1>7, <1>8 DEF RetentionNext, RunStep

\* A run is not ahead of the window, as days pass and the plan is lowered.
LEMMA CutoffsStep ==
  ASSUME RetentionInv, RetentionNext, NEW d \in Runs
  PROVE  CutoffOK(d)'
<1> USE DEF RetentionInv, RetentionTypeOK, storeVars, CutoffOK
<1>1. ASSUME NEW i \in Ids, NEW day \in Days, Ingested(i, day) PROVE CutoffOK(d)'
  BY <1>1 DEF Ingested, Cutoff
<1>2. ASSUME NextDay PROVE CutoffOK(d)'
  <2>1. Cutoff(plan) <= Cutoff(plan)' /\ Cutoff(plan)' \in Nat /\ Cutoff(plan) \in Nat
    BY <1>2, RetentionDaysAssumption DEF NextDay, Cutoff
  <2> QED
    BY <1>2, <2>1 DEF NextDay
<1>3. ASSUME NEW p \in Plans, PlanChanged(p) PROVE CutoffOK(d)'
  <2> SUFFICES ASSUME d \notin upgraded', run[d].pc # "idle" PROVE CutoffOK(d)'
    BY <1>3 DEF PlanChanged
  <2>1. RetentionDays[p] <= RetentionDays[plan] /\ d \notin upgraded
    BY <1>3, RetentionDaysAssumption DEF PlanChanged
  <2>2. Cutoff(plan) <= Cutoff(p) /\ Cutoff(plan) \in Nat /\ Cutoff(p) \in Nat
    BY <1>3, <2>1, RetentionDaysAssumption DEF Cutoff
  <2>3. Cutoff(plan)' = Cutoff(p) /\ run' = run /\ plan' = p
    BY <1>3 DEF PlanChanged, Cutoff
  <2>4. /\ RetentionDays[run[d].plan] \in Nat /\ RetentionDays[p] \in Nat
        /\ RetentionDays[plan] \in Nat
    BY RetentionDaysAssumption
  <2> QED
    BY <2>1, <2>2, <2>3, <2>4
<1>4. ASSUME NEW c \in Runs, StartRun(c) PROVE CutoffOK(d)'
  BY <1>4, RetentionDaysAssumption DEF StartRun, Cutoff
<1>5. ASSUME NEW c \in Runs, StartOrganization(c) PROVE CutoffOK(d)'
  <2>1. CASE d = c
    <3>1. c \notin upgraded => RunCutoff(c) <= Cutoff(plan)
      BY <1>5, RetentionDaysAssumption DEF StartOrganization, RunCutoff, Cutoff
    <3> QED
      BY <1>5, <2>1, <3>1, NoRunType DEF StartOrganization, Cutoff
  <2>2. CASE d # c
    BY <1>5, <2>2 DEF StartOrganization, Cutoff
  <2> QED
    BY <2>1, <2>2
<1>6. ASSUME NEW c \in Runs, FindExpired(c) PROVE CutoffOK(d)'
  BY <1>6, NoRunType DEF FindExpired, Cutoff
<1>7. ASSUME NEW c \in Runs, DeleteBatch(c) PROVE CutoffOK(d)'
  BY <1>7 DEF DeleteBatch, Cutoff
<1>8. ASSUME WorkerExits PROVE CutoffOK(d)'
  BY <1>8, NoRunType DEF WorkerExits
<1> QED
  BY <1>1, <1>2, <1>3, <1>4, <1>5, <1>6, <1>7, <1>8 DEF RetentionNext, RunStep

\* Every step of retention keeps its invariant.
LEMMA RetentionStep == RetentionInv /\ [RetentionNext]_retentionVars => RetentionInv'
<1>1. RetentionInv /\ RetentionNext => RetentionInv'
  BY RetentionTypesStep, BatchesStep, CutoffsStep DEF RetentionInv
<1>2. RetentionInv /\ UNCHANGED retentionVars => RetentionInv'
  BY DEF RetentionInv, RetentionTypeOK, BatchOK, CutoffOK, Cutoff, retentionVars, storeVars
<1> QED
  BY <1>1, <1>2

\* Plans, rows and runs keep their types, no run holds a trace of the window it saw, and
\* none under which the plan was not raised is ahead of the window.
THEOREM RetentionInvariant == RetentionSpec => []RetentionInv
  BY RetentionInvInit, RetentionStep, PTL DEF RetentionSpec

\* A step deletes a trace only in the batch of a run, and one of a run under which the
\* plan was not raised only from outside the window.
LEMMA DeletedIsExpired ==
  ASSUME RetentionInv, [RetentionNext]_retentionVars, NEW i \in Ids,
         row[i] = "live", row'[i] # "live"
  PROVE  /\ row'[i] = "deleted"
         /\ \/ ~WithinRetention(startedAt[i], plan)
            \/ \E c \in upgraded : i \in run[c].batch
<1> USE DEF RetentionInv, RetentionTypeOK, storeVars, retentionVars
<1>1. PICK c \in Runs : DeleteBatch(c)
  <2>1. ASSUME NEW j \in Ids, NEW day \in Days, Ingested(j, day) PROVE FALSE
    BY <2>1 DEF Ingested
  <2>2. ASSUME NextDay \/ (\E p \in Plans : PlanChanged(p)) \/ WorkerExits PROVE FALSE
    BY <2>2 DEF NextDay, PlanChanged, WorkerExits
  <2>3. ASSUME NEW c \in Runs, StartRun(c) \/ StartOrganization(c) \/ FindExpired(c) PROVE FALSE
    BY <2>3 DEF StartRun, StartOrganization, FindExpired
  <2> QED
    BY <2>1, <2>2, <2>3 DEF RetentionNext, RunStep
<1>2. i \in run[c].batch /\ row'[i] = "deleted" /\ run[c].pc = "delete"
  BY <1>1 DEF DeleteBatch
<1>3. startedAt[i] < run[c].cutoff
  BY <1>2 DEF BatchOK
<1>4. c \notin upgraded => ~WithinRetention(startedAt[i], plan)
  <2>1. Cutoff(plan) \in Nat
    BY RetentionDaysAssumption DEF Cutoff
  <2> QED
    BY <1>2, <1>3, <2>1 DEF CutoffOK, WithinRetention
<1> QED
  BY <1>2, <1>4

\* Retention deletes nothing a query would still show, however runs overlap, unless the
\* plan was raised under the run that deletes it.
THEOREM RetentionSafety == RetentionSpec => OnlyExpiredIsDeleted
<1> DEFINE Deletes == \A i \in Ids :
                        row[i] = "live" /\ row'[i] = "deleted" =>
                          \/ ~WithinRetention(startedAt[i], plan)
                          \/ \E c \in upgraded : i \in run[c].batch
<1>1. RetentionInv /\ [RetentionNext]_retentionVars => [Deletes]_retentionVars
  BY DeletedIsExpired
<1> QED
  BY <1>1, RetentionInvariant, PTL DEF RetentionSpec, OnlyExpiredIsDeleted

-----------------------------------------------------------------------------
\* Query: the payloads of one request.

\* Induction: a set that holds 0 and is closed under successor holds every number.
LEMMA SetInduction ==
  ASSUME NEW G, 0 \in G, \A n \in Nat : n \in G => n + 1 \in G
  PROVE  Nat \subseteq G
<1> DEFINE T == Nat \ G
           R == OpToRel(<, Nat)
<1>1. ASSUME T # {} PROVE FALSE
  <2>1. IsWellFoundedOn(R, Nat)
    BY NatLessThanWellFounded
  <2>2. T \subseteq Nat
    OBVIOUS
  <2> HIDE DEF T, R
  <2>3. PICK x \in T : \A y \in T : ~(<<y, x>> \in R)
    BY <1>1, <2>1, <2>2, WFMin
  <2>4. \A y \in T : ~(y < x)
    BY <2>2, <2>3 DEF R, OpToRel
  <2> USE DEF T
  <2>5. x \in Nat /\ x \notin G /\ x # 0
    BY <2>3
  <2>6. x - 1 \in Nat /\ x - 1 < x /\ (x - 1) + 1 = x
    BY <2>5
  <2>7. x - 1 \in G
    BY <2>4, <2>6
  <2> QED
    BY <2>5, <2>6, <2>7
<1> QED
  BY <1>1

\* The function that FoldLeft defines by recursion on sets of indices.
Cached(order, g, D) ==
  g = [s \in SUBSET D |->
         IF s = {} THEN RequestCache ELSE HydratePayload(g[s \ {Max(s)}], order[Max(s)])]

\* The largest index of a set is in it.
HasLast(D) == \A s \in SUBSET D : s # {} => Max(s) \in s

\* The largest of the first m numbers.
LEMMA LastOfInterval ==
  ASSUME NEW m \in Nat, NEW s \in SUBSET (1..(m + 1)), m + 1 \in s
  PROVE  Max(s) = m + 1
<1>1. \A y \in s : m + 1 >= y
  OBVIOUS
<1>2. \A x \in s : (\A y \in s : x >= y) => x = m + 1
  OBVIOUS
<1> QED
  BY <1>1, <1>2, Zenon DEF Max

\* FoldLeft's recursion on the first m indices has a solution.
LEMMA CachedExists ==
  ASSUME NEW order, NEW n \in Nat
  PROVE  HasLast(1..n) /\ \E g : Cached(order, g, 1..n)
<1> DEFINE G == {m \in Nat : HasLast(1..m) /\ \E g : Cached(order, g, 1..m)}
<1>1. 0 \in G
  <2>1. 1..0 = {} /\ SUBSET {} = {{}}
    OBVIOUS
  <2>2. HasLast({})
    BY <2>1 DEF HasLast
  <2>3. Cached(order, [s \in SUBSET {} |-> RequestCache], {})
    BY <2>1, Zenon DEF Cached
  <2> QED
    BY <2>1, <2>2, <2>3
<1>2. ASSUME NEW m \in Nat, m \in G PROVE m + 1 \in G
  <2> DEFINE C == 1..m
             D == 1..(m + 1)
  <2>1. PICK g : Cached(order, g, C)
    BY <1>2
  <2>2. HasLast(C)
    BY <1>2
  <2>3. /\ C \subseteq D /\ m + 1 \notin C
        /\ \A s \in SUBSET D : m + 1 \notin s => s \in SUBSET C
        /\ \A s \in SUBSET D : s \ {m + 1} \in SUBSET C
    OBVIOUS
  <2>4. \A s \in SUBSET D : m + 1 \in s => Max(s) = m + 1
    BY LastOfInterval
  <2>5. HasLast(D)
    BY <2>2, <2>3, <2>4 DEF HasLast
  <2> DEFINE last == m + 1
             h == [s \in SUBSET D |->
                     IF last \in s THEN HydratePayload(g[s \ {last}], order[last]) ELSE g[s]]
  <2> HIDE DEF C, D, last
  <2>6. ASSUME NEW s \in SUBSET D
        PROVE  h[s] = IF s = {} THEN RequestCache
                               ELSE HydratePayload(h[s \ {Max(s)}], order[Max(s)])
    <3>1. CASE s = {}
      <4>1. s \in SUBSET C /\ last \notin s
        BY <3>1
      <4>2. h[s] = g[s]
        BY <4>1
      <4>3. g[s] = RequestCache
        BY <2>1, <3>1, <4>1, Zenon DEF Cached
      <4> QED
        BY <3>1, <4>2, <4>3
    <3>2. CASE last \in s
      <4>1. Max(s) = last /\ s # {}
        BY <2>4, <3>2 DEF last
      <4>2. s \ {last} \in SUBSET D /\ last \notin s \ {last}
        OBVIOUS
      <4>3. h[s \ {last}] = g[s \ {last}]
        BY <4>2
      <4>4. h[s] = HydratePayload(g[s \ {last}], order[last])
        BY <3>2
      <4> QED
        BY <4>1, <4>3, <4>4
    <3>3. CASE last \notin s /\ s # {}
      <4>1. s \in SUBSET C
        BY <2>3, <3>3 DEF last
      <4>2. g[s] = HydratePayload(g[s \ {Max(s)}], order[Max(s)])
        BY <2>1, <3>3, <4>1, Zenon DEF Cached
      <4>3. s \ {Max(s)} \in SUBSET D /\ last \notin s \ {Max(s)}
        BY <3>3
      <4>4. h[s] = g[s] /\ h[s \ {Max(s)}] = g[s \ {Max(s)}]
        BY <3>3, <4>3
      <4> QED
        BY <3>3, <4>2, <4>4
    <3> QED
      BY <3>1, <3>2, <3>3
  <2> HIDE DEF h
  <2>7. h = [s \in SUBSET D |-> h[s]]
    BY DEF h
  <2>8. Cached(order, h, D)
    BY <2>6, <2>7, Zenon DEF Cached
  <2> QED
    BY <2>5, <2>8 DEF D
<1> HIDE DEF G
<1>3. Nat \subseteq G
  BY <1>1, <1>2, SetInduction
<1> QED
  BY <1>3 DEF G

\* Hydrating a list of references goes through it from the first to the last.
LEMMA FoldSteps ==
  ASSUME NEW n \in Nat, NEW order, DOMAIN order = 1..n
  PROVE  \E g : /\ g[1..0] = RequestCache
                /\ \A k \in 1..n : g[1..k] = HydratePayload(g[1..(k - 1)], order[k])
                /\ FoldLeft(HydratePayload, RequestCache, order) = g[1..n]
<1> DEFINE D == 1..n
           iter[s \in SUBSET DOMAIN order] ==
             IF s = {} THEN RequestCache
                       ELSE HydratePayload(iter[s \ {Max(s)}], order[Max(s)])
<1>1. FoldLeft(HydratePayload, RequestCache, order) = iter[DOMAIN order]
  BY Zenon DEF FoldLeft, MapThenFoldSet
<1>2. \E g : g = [s \in SUBSET DOMAIN order |->
                    IF s = {} THEN RequestCache
                              ELSE HydratePayload(g[s \ {Max(s)}], order[Max(s)])]
  <2>1. PICK g : Cached(order, g, 1..n)
    BY CachedExists, Zenon
  <2> QED
    BY <2>1, Zenon DEF Cached
<1>3. iter = [s \in SUBSET DOMAIN order |->
                IF s = {} THEN RequestCache
                          ELSE HydratePayload(iter[s \ {Max(s)}], order[Max(s)])]
  BY <1>2, Zenon
<1> HIDE DEF iter
<1>4. \A s \in SUBSET D : iter[s] = IF s = {} THEN RequestCache
                                    ELSE HydratePayload(iter[s \ {Max(s)}], order[Max(s)])
  BY <1>3, Zenon
<1>5. iter[1..0] = RequestCache
  <2>1. 1..0 = {} /\ {} \in SUBSET D
    OBVIOUS
  <2> QED
    BY <1>4, <2>1
<1>6. ASSUME NEW k \in 1..n PROVE iter[1..k] = HydratePayload(iter[1..(k - 1)], order[k])
  <2>1. k - 1 \in Nat /\ (k - 1) + 1 = k /\ 1..k \in SUBSET D /\ k \in 1..k
    OBVIOUS
  <2>2. Max(1..k) = k
    BY <2>1, LastOfInterval
  <2>3. (1..k) \ {k} = 1..(k - 1) /\ 1..k # {}
    OBVIOUS
  <2> HIDE DEF D
  <2> QED
    BY <1>4, <2>1, <2>2, <2>3
<1> QED
  BY <1>1, <1>5, <1>6

\* What the cache holds when the first k references have been read: the last of them.
Kept(k) == IF k < CacheMax THEN k ELSE CacheMax

\* The cache after a list of different references holds the last that fit.
LEMMA HydratedKeeps ==
  ASSUME NEW n \in Nat, NEW order \in [1..n -> Refs],
         \A i, j \in 1..n : i # j => order[i] # order[j]
  PROVE  Hydrated(order) = {order[i] : i \in (n - Kept(n) + 1)..n}
<1>1. CacheMax \in Nat \ {0}
  BY QueryAssumption
<1>2. PICK g : /\ g[1..0] = RequestCache
               /\ \A k \in 1..n : g[1..k] = HydratePayload(g[1..(k - 1)], order[k])
               /\ FoldLeft(HydratePayload, RequestCache, order) = g[1..n]
  BY FoldSteps
<1> DEFINE Holds(c, k) ==
             /\ c \in Seq(Refs) /\ Len(c) = Kept(k)
             /\ \A j \in 1..Kept(k) : c[j] = order[k - Kept(k) + j]
           G == {k \in Nat : k <= n => Holds(g[1..k], k)}
<1>3. 0 \in G
  <2>1. Kept(0) = 0
    BY <1>1 DEF Kept
  <2>2. g[1..0] = <<>>
    BY <1>2 DEF RequestCache
  <2>3. Holds(<<>>, 0)
    BY <2>1
  <2> HIDE DEF Holds
  <2> QED
    BY <2>2, <2>3
<1>4. ASSUME NEW k \in Nat, k \in G PROVE k + 1 \in G
  <2> SUFFICES ASSUME k + 1 <= n PROVE Holds(g[1..(k + 1)], k + 1)
    OBVIOUS
  <2> DEFINE c == g[1..k]
             ref == order[k + 1]
  <2>1. k + 1 \in 1..n /\ (k + 1) - 1 = k /\ k <= n
    OBVIOUS
  <2>2. g[1..(k + 1)] = HydratePayload(c, ref)
    BY <1>2, <2>1
  <2>3. Holds(c, k)
    BY <1>4, <2>1
  <2>4. Kept(k) \in Nat /\ Kept(k) <= k /\ Kept(k) <= CacheMax
    BY <1>1 DEF Kept
  <2>5. ref \in Refs
    BY <2>1
  <2> HIDE DEF c, ref
  <2>6. \A j \in 1..Kept(k) : c[j] # ref
    <3> SUFFICES ASSUME NEW j \in 1..Kept(k) PROVE c[j] # ref
      OBVIOUS
    <3>1. k - Kept(k) + j \in 1..n /\ k - Kept(k) + j # k + 1
      BY <2>1, <2>4
    <3> QED
      BY <2>1, <2>3, <3>1 DEF ref
  <2>7. ref \notin ToSet(c)
    BY <2>3, <2>4, <2>6 DEF ToSet
  <2>8. g[1..(k + 1)] = StoreInCache(c, ref)
    BY <2>2, <2>7 DEF HydratePayload
  <2>9. CASE k < CacheMax
    <3>1. Kept(k) = k /\ Kept(k + 1) = k + 1
      BY <1>1, <2>9 DEF Kept
    <3>2. g[1..(k + 1)] = Append(c, ref)
      BY <1>1, <2>3, <2>8, <2>9, <3>1 DEF StoreInCache
    <3>3. \A j \in 1..(k + 1) : Append(c, ref)[j] = order[j]
      BY <2>1, <2>3, <3>1 DEF ref
    <3> QED
      BY <2>3, <2>5, <3>1, <3>2, <3>3
  <2>10. CASE ~(k < CacheMax)
    <3>1. Kept(k) = CacheMax /\ Kept(k + 1) = CacheMax
      BY <1>1, <2>10 DEF Kept
    <3>2. g[1..(k + 1)] = Append(Tail(c), ref)
      BY <1>1, <2>3, <2>8, <2>10, <3>1 DEF StoreInCache
    <3>3. Tail(c) \in Seq(Refs) /\ Len(Tail(c)) = CacheMax - 1
      BY <1>1, <2>3, <3>1
    <3>4. \A j \in 1..(CacheMax - 1) : Tail(c)[j] = c[j + 1]
      BY <1>1, <2>3, <3>1
    <3>5. \A j \in 1..CacheMax : Append(Tail(c), ref)[j] = order[(k + 1) - CacheMax + j]
      <4> SUFFICES ASSUME NEW j \in 1..CacheMax
                   PROVE  Append(Tail(c), ref)[j] = order[(k + 1) - CacheMax + j]
        OBVIOUS
      <4>1. CASE j = CacheMax
        BY <1>1, <3>3, <4>1 DEF ref
      <4>2. CASE j # CacheMax
        <5>1. j \in 1..(CacheMax - 1) /\ j + 1 \in 1..Kept(k)
          BY <1>1, <3>1, <4>2
        <5>2. Append(Tail(c), ref)[j] = c[j + 1]
          BY <1>1, <3>3, <3>4, <5>1
        <5>3. c[j + 1] = order[k - CacheMax + (j + 1)]
          BY <2>3, <3>1, <5>1
        <5>4. k - CacheMax + (j + 1) = (k + 1) - CacheMax + j
          BY <1>1
        <5> QED
          BY <5>2, <5>3, <5>4
      <4> QED
        BY <4>1, <4>2
    <3> QED
      BY <1>1, <2>5, <3>1, <3>2, <3>3, <3>5
  <2> QED
    BY <2>9, <2>10
<1> HIDE DEF G
<1>5. n \in G
  BY <1>3, <1>4, SetInduction
<1>6. Holds(g[1..n], n)
  BY <1>5 DEF G
<1>7. Kept(n) \in Nat /\ Kept(n) <= n
  BY <1>1 DEF Kept
<1>8. Hydrated(order) = {g[1..n][j] : j \in 1..Kept(n)}
  BY <1>2, <1>6 DEF Hydrated, ToSet
<1>9. ASSUME NEW i \in (n - Kept(n) + 1)..n
      PROVE  \E j \in 1..Kept(n) : g[1..n][j] = order[i]
  <2>1. i - (n - Kept(n)) \in 1..Kept(n) /\ n - Kept(n) + (i - (n - Kept(n))) = i
    BY <1>7
  <2> QED
    BY <1>6, <2>1
<1>10. ASSUME NEW j \in 1..Kept(n)
       PROVE  \E i \in (n - Kept(n) + 1)..n : g[1..n][j] = order[i]
  <2>1. n - Kept(n) + j \in (n - Kept(n) + 1)..n
    BY <1>7
  <2> QED
    BY <1>6, <2>1
<1> QED
  BY <1>8, <1>9, <1>10

\* A list without repetitions holds as many references as it is long.
LEMMA CountOfDistinct ==
  ASSUME NEW n \in Nat, NEW order \in [1..n -> Refs],
         \A i, j \in 1..n : i # j => order[i] # order[j],
         NEW a \in 1..(n + 1)
  PROVE  Cardinality({order[i] : i \in a..n}) = n - a + 1
<1> DEFINE S == {order[i] : i \in a..n}
           f == [i \in a..n |-> order[i]]
<1>1. f \in Bijection(a..n, S)
  <2>1. a..n \subseteq 1..n
    OBVIOUS
  <2>2. f \in [a..n -> S]
    OBVIOUS
  <2>3. IsInjective(f)
    BY <2>1 DEF IsInjective
  <2>4. \A x \in S : \E i \in a..n : f[i] = x
    OBVIOUS
  <2> HIDE DEF f, S
  <2> QED
    BY <2>2, <2>3, <2>4, Zenon DEF Bijection, Injection, Surjection
<1>2. IsFiniteSet(a..n) /\ Cardinality(a..n) = n - a + 1
  <2>1. a \in Int /\ n \in Int /\ (IF a > n THEN 0 ELSE n - a + 1) = n - a + 1
    OBVIOUS
  <2>2. IsFiniteSet(a..n) /\ Cardinality(a..n) = IF a > n THEN 0 ELSE n - a + 1
    BY <2>1, FS_Interval, Zenon
  <2> QED
    BY <2>1, <2>2, Zenon
<1> QED
  BY <1>1, <1>2, FS_Bijection DEF ExistsBijection

\* hydrateMany's answer has what was read, up to the size of the cache.
LEMMA HydratedCount ==
  ASSUME NEW readable \in SUBSET Refs, NEW order \in SetToSeqs(readable)
  PROVE  /\ ToSet(order) \subseteq Refs /\ Hydrated(order) \subseteq Refs
         /\ Cardinality(Hydrated(order)) = Kept(Cardinality(ToSet(order)))
<1> DEFINE n == Cardinality(readable)
<1>1. IsFiniteSet(readable) /\ n \in Nat
  BY QueryAssumption, FS_Subset, FS_CardinalityType
<1>2. order \in [1..n -> Refs] /\ \A i, j \in 1..n : i # j => order[i] # order[j]
  BY DEF SetToSeqs
<1> HIDE DEF n
<1>3. Kept(n) \in Nat /\ Kept(n) <= n
  BY <1>1, QueryAssumption DEF Kept
<1>4. ToSet(order) = {order[i] : i \in 1..n}
  BY <1>2 DEF ToSet
<1>5. Cardinality(ToSet(order)) = n
  <2>1. 1 \in 1..(n + 1) /\ n - 1 + 1 = n
    BY <1>1
  <2> QED
    BY <1>1, <1>2, <1>4, <2>1, CountOfDistinct
<1>6. Hydrated(order) = {order[i] : i \in (n - Kept(n) + 1)..n}
  BY <1>1, <1>2, HydratedKeeps
<1>7. n - Kept(n) + 1 \in 1..(n + 1) /\ n - (n - Kept(n) + 1) + 1 = Kept(n)
  BY <1>1, <1>3
<1>8. Cardinality(Hydrated(order)) = Kept(n)
  BY <1>1, <1>2, <1>6, <1>7, CountOfDistinct
<1>9. Hydrated(order) \subseteq Refs
  BY <1>1, <1>2, <1>3, <1>6
<1>10. ToSet(order) \subseteq Refs
  BY <1>2, <1>4
<1> QED
  BY <1>5, <1>8, <1>9, <1>10

-----------------------------------------------------------------------------
\* Query: the trace a page shows.
DetailTypeOK ==
  detail \in [pc : DOMAIN After \cup {"idle", "check", "answered"},
              trace : [id : Ids, startedAt : Nat] \cup {NoTrace}, parts : SUBSET Parts,
              readable : SUBSET Refs, payloads : SUBSET Refs, overtaken : BOOLEAN]

\* The parts that have been read of a trace that was there all the time, by the
\* statement that comes next.
ReadBefore ==
  [snapshot |-> {"trace"}, spans |-> {"trace", "snapshot"},
   events |-> {"trace", "snapshot", "spans"}, check |-> Parts]

\* A getDetail under way that the raising of a plan has not overtaken: no run can delete
\* of the window, so that its trace has left the window or is there with all its parts.
DetailOK ==
  /\ detail.pc # "idle" /\ ~detail.overtaken => upgraded = {}
  /\ detail.pc \in DOMAIN ReadBefore =>
       /\ detail.trace \in [id : Ids, startedAt : Nat]
       /\ \/ detail.overtaken
          \/ ~WithinRetention(detail.trace.startedAt, plan)
          \/ /\ row[detail.trace.id] = "live"
             /\ startedAt[detail.trace.id] = detail.trace.startedAt
             /\ detail.parts = ReadBefore[detail.pc]

\* The inductive invariant.
QueryInv == RetentionInv /\ DetailTypeOK /\ DetailOK /\ DetailIsWhole /\ PayloadsAreShown

\* No detail is read at first.
LEMMA QueryInvInit == QueryInit => QueryInv
  BY RetentionInvInit
  DEF QueryInit, QueryInv, DetailTypeOK, DetailOK, DetailIsWhole, PayloadsAreShown, NoDetail,
      ReadBefore, Parts

\* A live trace keeps its started_at.
LEMMA LiveKeepsTime ==
  ASSUME RetentionInv, RetentionNext, NEW i \in Ids, row[i] = "live", row'[i] = "live"
  PROVE  startedAt'[i] = startedAt[i]
  BY DEF RetentionInv, RetentionTypeOK, RetentionNext, RunStep, Ingested, NextDay, PlanChanged,
         StartRun, StartOrganization, FindExpired, DeleteBatch, WorkerExits, storeVars

\* Unless the plan is raised, its window never grows and no run gets ahead of it.
LEMMA WindowShrinks ==
  ASSUME RetentionInv, RetentionNext, ~(RetentionDays[plan'] > RetentionDays[plan])
  PROVE  /\ Cutoff(plan) \in Nat /\ Cutoff(plan)' \in Nat
         /\ Cutoff(plan) <= Cutoff(plan)'
         /\ upgraded = {} => upgraded' = {}
<1> USE DEF RetentionInv, RetentionTypeOK, storeVars
<1>1. today' \in Nat /\ plan' \in Plans
  BY RetentionTypesStep
<1>2. today <= today'
  <2>1. NextDay => today <= today'
    BY DEF NextDay
  <2>2. ~NextDay => today' = today
    BY DEF RetentionNext, RunStep, Ingested, PlanChanged, StartRun, StartOrganization,
           FindExpired, DeleteBatch, WorkerExits
  <2> QED
    BY <2>1, <2>2
<1>3. ASSUME upgraded = {} PROVE upgraded' = {}
  <2>1. ASSUME NEW p \in Plans, PlanChanged(p) PROVE upgraded' = {}
    BY <1>3, <2>1 DEF PlanChanged
  <2>2. ASSUME NEW c \in Runs, RunStep(c) PROVE upgraded' = {}
    BY <1>3, <2>2 DEF RunStep, StartRun, StartOrganization, FindExpired, DeleteBatch
  <2>3. ASSUME NEW i \in Ids, NEW day \in Days, Ingested(i, day) PROVE upgraded' = {}
    BY <1>3, <2>3 DEF Ingested
  <2>4. ASSUME NextDay \/ WorkerExits PROVE upgraded' = {}
    BY <1>3, <2>4 DEF NextDay, WorkerExits
  <2> QED
    BY <2>1, <2>2, <2>3, <2>4 DEF RetentionNext
<1> QED
  BY <1>1, <1>2, <1>3, RetentionDaysAssumption DEF Cutoff

\* Ingest and retention leave what getDetail has read alone.
LEMMA TableKeepsDetail ==
  ASSUME QueryInv, TableStep
  PROVE  (DetailTypeOK /\ DetailOK /\ DetailIsWhole /\ PayloadsAreShown)'
<1> USE DEF QueryInv
<1>1. RetentionNext
  BY DEF TableStep
<1>2. CASE detail.pc # "idle" /\ RetentionDays[plan'] > RetentionDays[plan]
  <2>1. detail' = [detail EXCEPT !.overtaken = TRUE]
    BY <1>2 DEF TableStep
  <2> QED
    BY <1>2, <2>1 DEF DetailTypeOK, DetailOK, DetailIsWhole, PayloadsAreShown, ReadBefore, Parts
<1>3. CASE detail.pc = "idle"
  BY <1>3 DEF TableStep, DetailTypeOK, DetailOK, DetailIsWhole, PayloadsAreShown, ReadBefore
<1>4. CASE detail.pc # "idle" /\ ~(RetentionDays[plan'] > RetentionDays[plan])
  <2>1. detail' = detail
    BY <1>4 DEF TableStep
  <2>2. DetailTypeOK' /\ DetailIsWhole' /\ PayloadsAreShown'
    BY <2>1 DEF DetailTypeOK, DetailIsWhole, PayloadsAreShown
  <2>3. ~detail.overtaken => upgraded' = {}
    BY <1>1, <1>4, WindowShrinks DEF DetailOK
  <2>4. ASSUME detail.pc \in DOMAIN ReadBefore, ~detail.overtaken,
               WithinRetention(detail.trace.startedAt, plan)'
        PROVE  /\ row'[detail.trace.id] = "live"
               /\ startedAt'[detail.trace.id] = detail.trace.startedAt
               /\ detail.parts = ReadBefore[detail.pc]
    <3>1. detail.trace \in [id : Ids, startedAt : Nat] /\ upgraded = {}
      BY <1>4, <2>4 DEF DetailTypeOK, DetailOK
    <3>2. WithinRetention(detail.trace.startedAt, plan)
      BY <1>1, <1>4, <2>1, <2>4, <3>1, WindowShrinks DEF WithinRetention
    <3>3. /\ row[detail.trace.id] = "live"
          /\ startedAt[detail.trace.id] = detail.trace.startedAt
          /\ detail.parts = ReadBefore[detail.pc]
      BY <2>4, <3>2 DEF DetailOK
    <3>4. row'[detail.trace.id] = "live"
      BY <1>1, <3>1, <3>2, <3>3, DeletedIsExpired
    <3> QED
      BY <1>1, <3>1, <3>3, <3>4, LiveKeepsTime
  <2>5. DetailOK'
    BY <1>4, <2>1, <2>3, <2>4 DEF DetailOK
  <2> QED
    BY <2>2, <2>5
<1> QED
  BY <1>2, <1>3, <1>4

\* Every step of the query API keeps the invariant of getDetail.
LEMMA QueryStep == QueryInv /\ [QueryNext]_allVars => QueryInv'
<1> SUFFICES ASSUME QueryInv, [QueryNext]_allVars PROVE QueryInv'
  OBVIOUS
<1> USE DEF QueryInv
<1>1. CASE TableStep
  BY <1>1, TableKeepsDetail, RetentionStep DEF TableStep
<1>2. ASSUME UNCHANGED retentionVars PROVE RetentionInv'
  BY <1>2, RetentionStep
<1>3. ASSUME UNCHANGED <<retentionVars, detail>>
      PROVE  (DetailTypeOK /\ DetailOK /\ DetailIsWhole /\ PayloadsAreShown)'
  BY <1>3
  DEF retentionVars, storeVars, DetailTypeOK, DetailOK, DetailIsWhole, PayloadsAreShown,
      WithinRetention, Cutoff
<1>4. CASE SearchWindow \/ SearchRows \/ LoadMore \/ (\E p \in Projects : SwitchProject(p))
            \/ UNCHANGED allVars
  BY <1>2, <1>3, <1>4 DEF SearchWindow, SearchRows, LoadMore, SwitchProject, allVars, queryVars
<1>5. ASSUME UNCHANGED retentionVars, detail' = NoDetail PROVE QueryInv'
  BY <1>2, <1>5
  DEF DetailTypeOK, DetailOK, DetailIsWhole, PayloadsAreShown, NoDetail, ReadBefore, Parts
<1>6. CASE ApplyFilters
  BY <1>5, <1>6 DEF ApplyFilters
<1>7. ASSUME NEW i \in Ids, OpenTrace(i) PROVE QueryInv'
  <2>1. CASE row[i] = "live"
    <3>1. detail' = [NoDetail EXCEPT !.pc = "snapshot", !.trace = Row(i), !.parts = {"trace"},
                                     !.overtaken = upgraded # {}]
      BY <1>7, <2>1 DEF OpenTrace
    <3>2. Row(i) \in [id : Ids, startedAt : Nat] /\ Row(i).id = i /\ Row(i).startedAt = startedAt[i]
      BY DEF Row, RetentionInv, RetentionTypeOK
    <3>3. UNCHANGED <<row, startedAt, upgraded>>
      BY <1>7 DEF OpenTrace, retentionVars, storeVars
    <3>4. DetailTypeOK'
      BY <3>1, <3>2 DEF DetailTypeOK, NoDetail, Parts, After
    <3>5. DetailOK' /\ DetailIsWhole' /\ PayloadsAreShown'
      BY <2>1, <3>1, <3>2, <3>3
      DEF DetailOK, DetailIsWhole, PayloadsAreShown, NoDetail, ReadBefore
    <3> QED
      BY <1>2, <1>7, <3>4, <3>5 DEF OpenTrace
  <2>2. CASE row[i] # "live"
    BY <1>5, <1>7, <2>2 DEF OpenTrace
  <2> QED
    BY <2>1, <2>2
<1>8. CASE ReadPart
  <2>1. UNCHANGED <<row, startedAt, upgraded, plan, today>>
    BY <1>8 DEF ReadPart, retentionVars, storeVars
  <2> DEFINE parts == IF row[detail.trace.id] = "live" THEN detail.parts \cup {detail.pc}
                      ELSE detail.parts
  <2>2. detail.pc \in DOMAIN After
        /\ detail' = [detail EXCEPT !.pc = After[detail.pc], !.parts = parts]
    BY <1>8 DEF ReadPart
  <2>5. parts \subseteq Parts
    BY <2>2 DEF DetailTypeOK, After, Parts
  <2>6. \/ detail.pc = "snapshot" /\ After[detail.pc] = "spans"
        \/ detail.pc = "spans" /\ After[detail.pc] = "events"
        \/ detail.pc = "events" /\ After[detail.pc] = "check"
    BY <2>2 DEF After
  <2>7. DOMAIN After = {"snapshot", "spans", "events"}
    BY DEF After
  <2> HIDE DEF parts
  <2>3. DetailTypeOK'
    BY <2>2, <2>5, <2>6, <2>7 DEF DetailTypeOK
  <2> USE DEF parts
  <2>4. DetailOK' /\ DetailIsWhole' /\ PayloadsAreShown'
    <3>1. /\ detail.pc \in DOMAIN ReadBefore /\ After[detail.pc] \in DOMAIN ReadBefore
          /\ ReadBefore[After[detail.pc]] = ReadBefore[detail.pc] \cup {detail.pc}
      BY <2>6 DEF ReadBefore, Parts
    <3>2. /\ detail'.pc = After[detail.pc] /\ detail'.parts = parts
          /\ detail'.trace = detail.trace /\ detail'.overtaken = detail.overtaken
      BY <2>2 DEF DetailTypeOK
    <3>3. detail'.pc \notin {"idle", "answered"} /\ detail.pc # "idle"
      BY <2>6, <3>2
    <3>4. DetailIsWhole' /\ PayloadsAreShown'
      BY <3>3 DEF DetailIsWhole, PayloadsAreShown
    <3>5. WithinRetention(detail.trace.startedAt, plan)'
            = WithinRetention(detail.trace.startedAt, plan)
      BY <2>1, <3>2 DEF WithinRetention, Cutoff
    <3> QED
      BY <2>1, <3>1, <3>2, <3>3, <3>4, <3>5 DEF DetailOK
  <2> QED
    BY <1>2, <1>8, <2>3, <2>4 DEF ReadPart
<1>9. ASSUME NEW readable \in SUBSET Refs, AnswerDetail(readable) PROVE QueryInv'
  <2>1. CASE WithinRetention(detail.trace.startedAt, plan)
    <3>1. PICK order \in SetToSeqs(IF "events" \in detail.parts THEN readable ELSE {}) :
            detail' = [detail EXCEPT !.pc = "answered", !.readable = ToSet(order),
                                     !.payloads = Hydrated(order)]
      BY <1>9, <2>1 DEF AnswerDetail
    <3>2. /\ ToSet(order) \subseteq Refs /\ Hydrated(order) \subseteq Refs
          /\ Cardinality(Hydrated(order)) = Kept(Cardinality(ToSet(order)))
      <4> DEFINE read == IF "events" \in detail.parts THEN readable ELSE {}
      <4>1. read \in SUBSET Refs /\ order \in SetToSeqs(read)
        BY <3>1
      <4> QED
        BY <4>1, HydratedCount
    <3>3. detail.pc = "check" /\ UNCHANGED upgraded
      BY <1>9 DEF AnswerDetail, retentionVars
    <3>4. DetailTypeOK'
      BY <3>1, <3>2 DEF DetailTypeOK
    <3>5. DetailOK' /\ DetailIsWhole'
      BY <2>1, <3>1, <3>3 DEF DetailTypeOK, DetailOK, DetailIsWhole, ReadBefore
    <3>6. PayloadsAreShown'
      BY <3>1, <3>2 DEF DetailTypeOK, PayloadsAreShown, Kept
    <3> QED
      BY <1>2, <1>9, <3>4, <3>5, <3>6 DEF AnswerDetail
  <2>2. CASE ~WithinRetention(detail.trace.startedAt, plan)
    BY <1>5, <1>9, <2>2 DEF AnswerDetail
  <2> QED
    BY <2>1, <2>2
<1> QED
  BY <1>1, <1>4, <1>6, <1>7, <1>8, <1>9 DEF QueryNext

\* The window, its runs and the trace a page shows are related as QueryInv says, in every
\* reachable state.
THEOREM QueryInvariant == QuerySpec => []QueryInv
  BY QueryInvInit, QueryStep, PTL DEF QuerySpec

\* A trace is never shown in part, unless the plan was raised under the request or under
\* a run beside it.
THEOREM DetailWholeness == QuerySpec => []DetailIsWhole
<1>1. QueryInv => DetailIsWhole
  BY DEF QueryInv
<1> QED
  BY <1>1, QueryInvariant, PTL

\* Every payload that could be read is in the answer, but for those beyond the size of
\* the cache, in whichever order the reads of hydrateMany ended.
THEOREM HydrationIsComplete == QuerySpec => []PayloadsAreShown
<1>1. QueryInv => PayloadsAreShown
  BY DEF QueryInv
<1> QED
  BY <1>1, QueryInvariant, PTL

-----------------------------------------------------------------------------
\* Query: the list of the explorer.
ListRow == [id : Ids, startedAt : Nat]

\* Newer is a strict total order of the rows a list can have.
LEMMA NewerIsOrder ==
  ASSUME NEW a \in ListRow, NEW b \in ListRow
  PROVE  /\ ~(Newer(a, b) /\ Newer(b, a))
         /\ Newer(a, b) \/ a = b \/ Newer(b, a)
         /\ ~Newer(a, a)
<1>1. a.id \in Nat /\ b.id \in Nat /\ a.startedAt \in Nat /\ b.startedAt \in Nat
  BY IdsAssumption DEF ListRow
<1>2. a.id = b.id /\ a.startedAt = b.startedAt => a = b
  BY DEF ListRow
<1> QED
  BY <1>1, <1>2 DEF Newer

\* The order of a listing is transitive.
LEMMA NewerIsTransitive ==
  ASSUME NEW a \in ListRow, NEW b \in ListRow, NEW c \in ListRow, Newer(a, b), Newer(b, c)
  PROVE  Newer(a, c)
<1>1. /\ a.id \in Nat /\ b.id \in Nat /\ c.id \in Nat
      /\ a.startedAt \in Nat /\ b.startedAt \in Nat /\ c.startedAt \in Nat
  BY IdsAssumption DEF ListRow
<1> QED
  BY <1>1 DEF Newer

\* The more rows are newer than a row, the later it comes.
LEMMA RankIsMonotone ==
  ASSUME NEW S \in SUBSET ListRow, IsFiniteSet(S), NEW a \in S, NEW b \in S, Newer(a, b)
  PROVE  Cardinality({q \in S : Newer(q, a)}) < Cardinality({q \in S : Newer(q, b)})
<1> DEFINE Before(r) == {q \in S : Newer(q, r)}
<1>1. Before(a) \subseteq Before(b)
  BY NewerIsTransitive
<1>2. a \in Before(b) /\ a \notin Before(a)
  BY NewerIsOrder
<1>3. IsFiniteSet(Before(a)) /\ IsFiniteSet(Before(b))
  BY FS_Subset
<1> HIDE DEF Before
<1>4. /\ Cardinality(Before(a)) <= Cardinality(Before(b))
      /\ Cardinality(Before(a)) # Cardinality(Before(b))
  BY <1>1, <1>2, <1>3, FS_Subset
<1>5. Cardinality(Before(a)) \in Nat /\ Cardinality(Before(b)) \in Nat
  BY <1>3, FS_CardinalityType
<1> QED
  BY <1>4, <1>5 DEF Before

\* For each place in the list there is a row.
LEMMA RankIsOnto ==
  ASSUME NEW S \in SUBSET ListRow, IsFiniteSet(S), NEW n \in 1..Cardinality(S)
  PROVE  \E r \in S : Cardinality({q \in S : Newer(q, r)}) = n - 1
<1> DEFINE Before(r) == {q \in S : Newer(q, r)}
           T == 0..Cardinality(S) - 1
           f == [r \in S |-> Cardinality(Before(r))]
<1>1. Cardinality(S) \in Nat
  BY FS_CardinalityType
<1>2. IsFiniteSet(T) /\ Cardinality(T) = Cardinality(S)
  <2> DEFINE last == Cardinality(S) - 1
  <2>1. last \in Int /\ 0 \in Int
    BY <1>1
  <2> HIDE DEF last
  <2>2. IsFiniteSet(0..last) /\ Cardinality(0..last) = IF 0 > last THEN 0 ELSE last - 0 + 1
    BY <2>1, FS_Interval
  <2> USE DEF last
  <2> QED
    BY <1>1, <2>2
<1>3. ASSUME NEW r \in S PROVE Cardinality(Before(r)) \in T
  <2>1. Before(r) \subseteq S /\ r \notin Before(r)
    BY NewerIsOrder
  <2>2. IsFiniteSet(Before(r)) /\ Cardinality(Before(r)) <= Cardinality(S)
        /\ Cardinality(Before(r)) # Cardinality(S)
    BY <2>1, FS_Subset
  <2>3. Cardinality(Before(r)) \in Nat
    BY <2>2, FS_CardinalityType
  <2> QED
    BY <1>1, <2>2, <2>3
<1>4. ASSUME NEW a \in S, NEW b \in S, f[a] = f[b] PROVE a = b
  <2>1. Newer(a, b) => Cardinality(Before(a)) < Cardinality(Before(b))
    BY RankIsMonotone
  <2>2. Newer(b, a) => Cardinality(Before(b)) < Cardinality(Before(a))
    BY RankIsMonotone
  <2>3. Cardinality(Before(a)) = Cardinality(Before(b)) /\ Cardinality(Before(a)) \in T
    BY <1>3, <1>4
  <2> HIDE DEF Before
  <2>4. ~Newer(a, b) /\ ~Newer(b, a)
    BY <1>1, <2>1, <2>2, <2>3
  <2> QED
    BY <2>4, NewerIsOrder
<1>5. f \in Injection(S, T)
  BY <1>3, <1>4 DEF Injection, IsInjective
<1>6. f \in Surjection(S, T)
  BY <1>2, <1>5, FS_Injection
<1>7. n - 1 \in T
  BY <1>1
<1> QED
  BY <1>6, <1>7 DEF Surjection

\* What sorting a set of rows gives.
Sorted(s) == \A m, n \in DOMAIN s : m < n => Newer(s[m], s[n])

\* SortedRows returns the rows of a finite set, each once, newest first.
LEMMA SortedRowsIsSorted ==
  ASSUME NEW S \in SUBSET ListRow, IsFiniteSet(S)
  PROVE  /\ SortedRows(S) \in Seq(S)
         /\ Len(SortedRows(S)) = Cardinality(S)
         /\ Sorted(SortedRows(S))
         /\ \A r \in S : \E n \in 1..Cardinality(S) : SortedRows(S)[n] = r
<1> DEFINE Rank(r) == Cardinality({q \in S : Newer(q, r)})
           s == SortedRows(S)
<1>1. Cardinality(S) \in Nat
  BY FS_CardinalityType
<1>2. ASSUME NEW n \in 1..Cardinality(S) PROVE s[n] \in S /\ Rank(s[n]) = n - 1
  <2>1. \E r \in S : Rank(r) = n - 1
    BY RankIsOnto
  <2>2. s[n] = CHOOSE r \in S : Rank(r) = n - 1
    BY DEF SortedRows
  <2> QED
    BY <2>1, <2>2
<1>3. s \in [1..Cardinality(S) -> S]
  BY <1>2 DEF SortedRows
<1>4. s \in Seq(S) /\ Len(s) = Cardinality(S)
  BY <1>1, <1>3
<1>5. Sorted(s)
  <2> SUFFICES ASSUME NEW m \in 1..Cardinality(S), NEW n \in 1..Cardinality(S), m < n
               PROVE  Newer(s[m], s[n])
    BY <1>3 DEF Sorted
  <2>1. s[m] \in S /\ s[n] \in S /\ Rank(s[m]) = m - 1 /\ Rank(s[n]) = n - 1
    BY <1>2
  <2>2. s[m] # s[n]
    BY <2>1
  <2>3. ~Newer(s[n], s[m])
    <3>1. ASSUME Newer(s[n], s[m]) PROVE Rank(s[n]) < Rank(s[m])
      BY <2>1, <3>1, RankIsMonotone
    <3> HIDE DEF s, Rank
    <3> QED
      BY <1>1, <2>1, <3>1
  <2> QED
    BY <2>1, <2>2, <2>3, NewerIsOrder
<1>6. ASSUME NEW r \in S PROVE \E n \in 1..Cardinality(S) : s[n] = r
  <2>1. Rank(r) \in 0..Cardinality(S) - 1
    <3>1. {q \in S : Newer(q, r)} \subseteq S /\ r \notin {q \in S : Newer(q, r)}
      BY NewerIsOrder
    <3>2. /\ IsFiniteSet({q \in S : Newer(q, r)}) /\ Rank(r) <= Cardinality(S)
          /\ Rank(r) # Cardinality(S)
      BY <3>1, FS_Subset
    <3>3. Rank(r) \in Nat
      BY <3>2, FS_CardinalityType
    <3> QED
      BY <1>1, <3>2, <3>3
  <2> DEFINE n == Rank(r) + 1
  <2>2. n \in 1..Cardinality(S)
    BY <1>1, <2>1
  <2>3. s[n] \in S /\ Rank(s[n]) = Rank(r)
    BY <1>2, <2>1, <2>2
  <2>4. ~Newer(s[n], r) /\ ~Newer(r, s[n])
    <3>1. ASSUME Newer(s[n], r) PROVE Rank(s[n]) < Rank(r)
      BY <2>3, <3>1, RankIsMonotone
    <3>2. ASSUME Newer(r, s[n]) PROVE Rank(r) < Rank(s[n])
      BY <2>3, <3>2, RankIsMonotone
    <3> HIDE DEF s, Rank
    <3> QED
      BY <2>1, <2>3, <3>1, <3>2
  <2>5. s[n] = r
    BY <2>3, <2>4, NewerIsOrder
  <2> QED
    BY <2>2, <2>5
<1> QED
  BY <1>4, <1>5, <1>6

\* All of s is as new as c or newer.
UpTo(s, c) == \A n \in DOMAIN s : s[n] = c \/ Newer(s[n], c)

\* A row of the table is a row of a listing.
LEMMA RowIsListRow ==
  ASSUME RetentionTypeOK, NEW i \in Ids
  PROVE  Row(i) \in ListRow /\ Row(i).id = i /\ Row(i).startedAt = startedAt[i]
  BY DEF RetentionTypeOK, Row, ListRow

\* The table is finite.
LEMMA RowsAreFinite ==
  ASSUME RetentionTypeOK, NEW rows \in SUBSET Ids
  PROVE  {Row(i) : i \in rows} \subseteq ListRow /\ IsFiniteSet({Row(i) : i \in rows})
<1> DEFINE S == {Row(i) : i \in rows}
           f == [i \in rows |-> Row(i)]
<1>1. IsFiniteSet(rows)
  BY IdsAssumption, FS_Subset
<1>2. f \in Surjection(rows, S)
  BY DEF Surjection
<1>3. IsFiniteSet(S)
  BY <1>1, <1>2, FS_Surjection
<1> QED
  BY <1>3, RowIsListRow

\* A page of rows: the newest of them, and where they go on.
LEMMA PageOfRows ==
  ASSUME RetentionTypeOK, NEW rows \in SUBSET Ids, NEW page, page = PageOf(rows)
  PROVE  /\ page \in [traces : Seq(ListRow), next : ListRow \cup {NoTrace}]
         /\ Sorted(page.traces)
         /\ \A n \in DOMAIN page.traces : \E i \in rows : page.traces[n] = Row(i)
         /\ page.next = NoTrace => \A i \in rows : Row(i) \in ToSet(page.traces)
         /\ page.next # NoTrace =>
              /\ UpTo(page.traces, page.next)
              /\ \E i \in rows : page.next = Row(i)
              /\ \A i \in rows : Row(i) \in ToSet(page.traces) \/ Newer(page.next, Row(i))
<1> DEFINE S == {Row(i) : i \in rows}
           s == SortedRows(S)
<1>1. S \subseteq ListRow /\ IsFiniteSet(S)
  BY RowsAreFinite
<1>2. /\ s \in Seq(S) /\ Len(s) = Cardinality(S) /\ Sorted(s)
      /\ \A r \in S : \E n \in 1..Cardinality(S) : s[n] = r
  BY <1>1, SortedRowsIsSorted
<1> HIDE DEF S, s
<1>3. \A n \in DOMAIN s : s[n] \in S
  BY <1>2
<1>4. page = IF Len(s) <= Limit THEN [traces |-> s, next |-> NoTrace]
             ELSE [traces |-> SubSeq(s, 1, Limit), next |-> Cursor(s[Limit])]
  BY DEF PageOf, S, s
<1>5. \A i \in rows : Row(i) \in S
  BY DEF S
<1>6. \A r \in S : \E i \in rows : r = Row(i)
  BY DEF S
<1>7. s \in Seq(ListRow)
  BY <1>1, <1>2
<1>8. Limit \in Nat \ {0} /\ NoTrace \notin ListRow
  BY QueryAssumption DEF ListRow
<1>9. CASE Len(s) <= Limit
  <2>1. page.traces = s /\ page.next = NoTrace
    BY <1>4, <1>9
  <2>2. \A r \in S : r \in ToSet(s)
    BY <1>2 DEF ToSet
  <2> QED
    BY <1>2, <1>3, <1>4, <1>5, <1>6, <1>7, <1>9, <2>1, <2>2
<1>10. CASE Len(s) > Limit
  <2> DEFINE t == SubSeq(s, 1, Limit)
  <2>1. Len(s) \in Nat /\ Limit \in 1..Len(s) /\ s[Limit] \in ListRow
    BY <1>7, <1>8, <1>10
  <2>2. Cursor(s[Limit]) = s[Limit]
    BY <2>1 DEF Cursor, ListRow
  <2>3. page.traces = t /\ page.next = s[Limit]
    BY <1>4, <1>10, <2>1, <2>2
  <2>4. t \in Seq(ListRow) /\ DOMAIN t = 1..Limit /\ \A n \in 1..Limit : t[n] = s[n]
    BY <1>7, <1>8, <1>10, <2>1
  <2>5. 1..Limit \subseteq DOMAIN s /\ DOMAIN s = 1..Len(s)
    BY <1>7, <2>1
  <2> HIDE DEF t
  <2>6. Sorted(t)
    BY <1>2, <2>4, <2>5 DEF Sorted
  <2>7. UpTo(t, s[Limit])
    BY <1>2, <1>8, <2>4, <2>5 DEF Sorted, UpTo
  <2>8. ASSUME NEW i \in rows PROVE Row(i) \in ToSet(t) \/ Newer(s[Limit], Row(i))
    <3>1. PICK n \in 1..Len(s) : s[n] = Row(i)
      BY <1>2, <1>5
    <3>2. CASE n <= Limit
      BY <2>4, <3>1, <3>2 DEF ToSet
    <3>3. CASE n > Limit
      BY <1>2, <2>1, <2>5, <3>1, <3>3 DEF Sorted
    <3> QED
      BY <1>8, <3>2, <3>3
  <2>9. page = [traces |-> t, next |-> s[Limit]]
    BY <1>4, <1>10, <2>1, <2>2 DEF t
  <2> QED
    BY <1>3, <1>6, <1>8, <2>1, <2>3, <2>4, <2>5, <2>6, <2>7, <2>8, <2>9
<1>11. Len(s) <= Limit \/ Len(s) > Limit
  BY <1>7, <1>8
<1> QED
  BY <1>9, <1>10, <1>11

PagingTypeOK ==
  explorer \in [pc : {"org", "find", "shown"}, project : Projects,
                cursor : ListRow \cup {NoTrace}, extra : Seq(ListRow),
                data : [traces : Seq(ListRow), next : ListRow \cup {NoTrace}],
                from : Nat, unlisted : SUBSET Ids, mixed : BOOLEAN]

\* The pages that were loaded before end at the cursor, and the page that is shown
\* begins after it.
PagesOK ==
  /\ explorer.pc # "shown" => explorer.data = NoData
  /\ explorer.cursor = NoTrace => explorer.extra = <<>>
  /\ Sorted(explorer.extra) /\ Sorted(explorer.data.traces)
  /\ explorer.cursor # NoTrace =>
       /\ UpTo(explorer.extra, explorer.cursor)
       /\ \A n \in DOMAIN explorer.data.traces :
            Newer(explorer.cursor, explorer.data.traces[n])
       /\ explorer.data.next # NoTrace => Newer(explorer.cursor, explorer.data.next)
  /\ explorer.data.next # NoTrace => UpTo(explorer.data.traces, explorer.data.next)

\* Where the listing has come to.
Place == IF explorer.pc = "shown" THEN explorer.data.next ELSE explorer.cursor

\* A trace that every fetch could see and that is not listed comes after that place.
UnlistedOK ==
  /\ explorer.pc = "shown" /\ explorer.data.next = NoTrace => explorer.unlisted = {}
  /\ explorer.pc = "shown" \/ explorer.cursor # NoTrace =>
       \A i \in explorer.unlisted : row[i] # "none"
  /\ Place # NoTrace =>
       \A i \in explorer.unlisted : row[i] = "live" => Newer(Place, Row(i))

\* The inductive invariant.
PagingInv ==
  /\ RetentionInv
  /\ PagingTypeOK
  /\ ~explorer.mixed => PagesOK /\ UnlistedOK

\* A listing that starts over.
LEMMA FreshListing ==
  ASSUME NEW p \in Projects, explorer = NoExplorer(p)
  PROVE  PagingTypeOK /\ PagesOK /\ UnlistedOK
  BY DEF NoExplorer, NoData, PagingTypeOK, PagesOK, UnlistedOK, Place, Sorted

\* Nothing is listed at first.
LEMMA PagingInvInit == QueryInit => PagingInv
  BY RetentionInvInit, FreshListing DEF QueryInit, PagingInv

\* A trace that has been deleted is not ingested again.
LEMMA RowsMoveOn ==
  ASSUME RetentionInv, RetentionNext, NEW i \in Ids, row[i] # "none"
  PROVE  row'[i] # "none" /\ (row'[i] = "live" => row[i] = "live")
  BY DEF RetentionInv, RetentionTypeOK, RetentionNext, RunStep, Ingested, NextDay, PlanChanged,
         StartRun, StartOrganization, FindExpired, DeleteBatch, WorkerExits, storeVars

\* Ingest and retention leave the listing alone; what is new has not been listed.
LEMMA TableKeepsPaging ==
  ASSUME PagingInv, TableStep
  PROVE  (PagingTypeOK /\ (~explorer.mixed => PagesOK /\ UnlistedOK))'
<1>1. RetentionNext /\ UNCHANGED explorer /\ RetentionInv'
  BY RetentionStep DEF TableStep, PagingInv
<1>2. PagingTypeOK' /\ (~explorer.mixed => PagesOK)'
  BY <1>1 DEF PagingInv, PagingTypeOK, PagesOK
<1>3. ASSUME ~explorer.mixed PROVE UnlistedOK'
  <2>1. UnlistedOK /\ explorer.unlisted \subseteq Ids /\ Place' = Place
    BY <1>1, <1>3 DEF PagingInv, PagingTypeOK, Place
  <2>2. ASSUME NEW i \in explorer.unlisted, row[i] # "none" PROVE row'[i] # "none"
    BY <1>1, <2>1, <2>2, RowsMoveOn DEF PagingInv
  <2>3. ASSUME NEW i \in explorer.unlisted, row[i] # "none", row'[i] = "live"
        PROVE  row[i] = "live" /\ Row(i)' = Row(i)
    BY <1>1, <2>1, <2>3, RowsMoveOn, LiveKeepsTime DEF PagingInv, Row
  <2>4. Place # NoTrace => \A i \in explorer.unlisted : row[i] # "none"
    BY <2>1 DEF UnlistedOK, Place
  <2>5. ASSUME Place # NoTrace, NEW i \in explorer.unlisted, row'[i] = "live"
        PROVE  Newer(Place, Row(i)')
    BY <2>1, <2>3, <2>4, <2>5 DEF UnlistedOK
  <2> QED
    BY <1>1, <2>1, <2>2, <2>5 DEF UnlistedOK
<1> QED
  BY <1>1, <1>2, <1>3

\* A page goes on from the cursor, and what it leaves out comes after it.
LEMMA SearchKeepsPaging ==
  ASSUME PagingInv, SearchRows
  PROVE  (PagingTypeOK /\ (~explorer.mixed => PagesOK /\ UnlistedOK))'
<1> DEFINE rows == {i \in Matching : AfterCursor(i)}
           page == PageOf(rows)
           left == {i \in explorer.unlisted \cap Matching : Row(i) \notin ToSet(page.traces)}
<1>1. RetentionTypeOK /\ PagingTypeOK /\ UNCHANGED <<row, startedAt>>
  BY DEF PagingInv, RetentionInv, SearchRows, retentionVars, storeVars
<1>2. rows \subseteq Ids /\ Matching \subseteq Ids
  BY DEF Matching, Live
<1>3. /\ page \in [traces : Seq(ListRow), next : ListRow \cup {NoTrace}]
      /\ Sorted(page.traces)
      /\ \A n \in DOMAIN page.traces : \E i \in rows : page.traces[n] = Row(i)
      /\ page.next = NoTrace => \A i \in rows : Row(i) \in ToSet(page.traces)
      /\ page.next # NoTrace =>
           /\ UpTo(page.traces, page.next)
           /\ \E i \in rows : page.next = Row(i)
           /\ \A i \in rows : Row(i) \in ToSet(page.traces) \/ Newer(page.next, Row(i))
  BY <1>1, <1>2, PageOfRows
<1>4. explorer' = [explorer EXCEPT !.pc = "shown", !.from = 0, !.data = page, !.unlisted = left]
      /\ explorer.pc = "find"
  BY DEF SearchRows
<1>5. explorer.cursor # NoTrace => \A i \in rows : Newer(explorer.cursor, Row(i))
  BY DEF AfterCursor
<1>6. \A i \in Matching : row[i] = "live" /\ (i \notin rows => ~AfterCursor(i))
  BY DEF Matching, Live
<1> HIDE DEF rows, page
<1>7. left \subseteq Ids
  BY <1>2
<1>8. PagingTypeOK'
  BY <1>1, <1>3, <1>4, <1>7 DEF PagingTypeOK
<1>9. ASSUME ~explorer.mixed PROVE PagesOK'
  <2>1. /\ explorer'.pc = "shown" /\ explorer'.cursor = explorer.cursor
        /\ explorer'.extra = explorer.extra /\ explorer'.data = page
    BY <1>1, <1>4 DEF PagingTypeOK
  <2>2. PagesOK
    BY <1>9 DEF PagingInv
  <2> QED
    BY <1>3, <1>5, <2>1, <2>2 DEF PagesOK
<1>10. ASSUME ~explorer.mixed PROVE UnlistedOK'
  <2>1. /\ explorer'.pc = "shown" /\ explorer'.unlisted = left /\ explorer'.data.next = page.next
        /\ Place' = page.next
    BY <1>1, <1>4 DEF PagingTypeOK, Place
  <2>2. ASSUME NEW i \in left PROVE i \in rows
    <3>1. UnlistedOK /\ Place = explorer.cursor
      BY <1>4, <1>10 DEF PagingInv, Place
    <3>2. explorer.cursor = NoTrace \/ Newer(explorer.cursor, Row(i))
      BY <1>6, <2>2, <3>1 DEF UnlistedOK
    <3> QED
      BY <1>6, <2>2, <3>2 DEF AfterCursor
  <2>3. page.next = NoTrace => left = {}
    BY <1>3, <2>2
  <2>4. \A i \in left : row[i] = "live"
    BY <1>6
  <2>5. page.next # NoTrace => \A i \in left : Newer(page.next, Row(i))
    BY <1>3, <2>2
  <2>6. \A i \in left : Row(i)' = Row(i) /\ row'[i] = row[i]
    BY <1>1 DEF Row
  <2> HIDE DEF left
  <2> QED
    BY <2>1, <2>3, <2>4, <2>5, <2>6 DEF UnlistedOK
<1>11. explorer'.mixed = explorer.mixed
  BY <1>1, <1>4 DEF PagingTypeOK
<1> QED
  BY <1>8, <1>9, <1>10, <1>11

\* A concatenation has the places of the one list and then those of the other.
LEMMA ConcatPlaces ==
  ASSUME NEW s \in Seq(ListRow), NEW t \in Seq(ListRow)
  PROVE  /\ s \o t \in Seq(ListRow) /\ Len(s \o t) = Len(s) + Len(t)
         /\ \A n \in 1..Len(s \o t) :
              (s \o t)[n] = IF n <= Len(s) THEN s[n] ELSE t[n - Len(s)]
         /\ DOMAIN (s \o t) = 1..Len(s \o t) /\ DOMAIN s = 1..Len(s) /\ DOMAIN t = 1..Len(t)
         /\ Len(s) \in Nat /\ Len(t) \in Nat
  OBVIOUS

\* Two sorted lists of which the first ends where the second begins make a sorted one.
LEMMA ConcatIsSorted ==
  ASSUME NEW s \in Seq(ListRow), NEW t \in Seq(ListRow), Sorted(s), Sorted(t),
         \A m \in DOMAIN s, n \in DOMAIN t : Newer(s[m], t[n])
  PROVE  s \o t \in Seq(ListRow) /\ Sorted(s \o t)
<1> DEFINE u == s \o t
<1>1. /\ u \in Seq(ListRow) /\ Len(u) = Len(s) + Len(t) /\ Len(s) \in Nat /\ Len(t) \in Nat
      /\ \A n \in 1..Len(u) : u[n] = IF n <= Len(s) THEN s[n] ELSE t[n - Len(s)]
      /\ DOMAIN u = 1..Len(u) /\ DOMAIN s = 1..Len(s) /\ DOMAIN t = 1..Len(t)
  BY ConcatPlaces
<1> HIDE DEF u
<1>2. ASSUME NEW m \in 1..Len(u), NEW n \in 1..Len(u), m < n PROVE Newer(u[m], u[n])
  <2>1. CASE n <= Len(s)
    BY <1>1, <1>2, <2>1 DEF Sorted
  <2>2. CASE m <= Len(s) /\ n > Len(s)
    BY <1>1, <1>2, <2>2
  <2>3. CASE m > Len(s)
    <3>1. u[m] = t[m - Len(s)] /\ u[n] = t[n - Len(s)]
      BY <1>1, <1>2, <2>3
    <3>2. m - Len(s) \in DOMAIN t /\ n - Len(s) \in DOMAIN t /\ m - Len(s) < n - Len(s)
      BY <1>1, <1>2, <2>3
    <3> QED
      BY <3>1, <3>2 DEF Sorted
  <2> QED
    BY <1>1, <2>1, <2>2, <2>3
<1> QED
  BY <1>1, <1>2 DEF Sorted, u

\* All of the pages before are newer than the page that is shown.
LEMMA PagesInOrder ==
  ASSUME PagingTypeOK, PagesOK
  PROVE  \A m \in DOMAIN explorer.extra, n \in DOMAIN explorer.data.traces :
           Newer(explorer.extra[m], explorer.data.traces[n])
<1> SUFFICES ASSUME NEW m \in DOMAIN explorer.extra, NEW n \in DOMAIN explorer.data.traces
             PROVE  Newer(explorer.extra[m], explorer.data.traces[n])
  OBVIOUS
<1>1. explorer.cursor # NoTrace
  BY DEF PagesOK
<1>2. explorer.extra[m] \in ListRow /\ explorer.data.traces[n] \in ListRow
      /\ explorer.cursor \in ListRow
  BY <1>1 DEF PagingTypeOK
<1>3. explorer.extra[m] = explorer.cursor \/ Newer(explorer.extra[m], explorer.cursor)
  BY <1>1 DEF PagesOK, UpTo
<1>4. Newer(explorer.cursor, explorer.data.traces[n])
  BY <1>1 DEF PagesOK
<1> QED
  BY <1>2, <1>3, <1>4, NewerIsTransitive

\* A next page begins where the page that is shown ends.
LEMMA LoadMoreKeepsPaging ==
  ASSUME PagingInv, LoadMore
  PROVE  (PagingTypeOK /\ (~explorer.mixed => PagesOK /\ UnlistedOK))'
<1> DEFINE all == explorer.extra \o explorer.data.traces
           next == explorer.data.next
<1>1. PagingTypeOK /\ UNCHANGED <<row, startedAt>> /\ next # NoTrace /\ explorer.pc = "shown"
  BY DEF PagingInv, LoadMore, retentionVars, storeVars
<1>2. explorer' = [explorer EXCEPT !.extra = all, !.cursor = next, !.pc = "org", !.data = NoData]
  BY <1>1 DEF LoadMore, Fetching, PagingTypeOK
<1>3. /\ explorer.extra \in Seq(ListRow) /\ explorer.data.traces \in Seq(ListRow)
      /\ next \in ListRow
  BY <1>1 DEF PagingTypeOK
<1>4. all \in Seq(ListRow)
  BY <1>3
<1>5. NoData \in [traces : Seq(ListRow), next : ListRow \cup {NoTrace}]
  BY DEF NoData
<1> HIDE DEF all, next
<1>6. PagingTypeOK'
  BY <1>1, <1>2, <1>3, <1>4, <1>5 DEF PagingTypeOK
<1>7. /\ explorer'.pc = "org" /\ explorer'.cursor = next /\ explorer'.extra = all
      /\ explorer'.data = NoData /\ explorer'.unlisted = explorer.unlisted
      /\ explorer'.mixed = explorer.mixed
  BY <1>1, <1>2 DEF PagingTypeOK
<1>8. NoData.traces = <<>> /\ NoData.next = NoTrace
  BY DEF NoData
<1>9. ASSUME ~explorer.mixed PROVE PagesOK'
  <2>1. PagesOK
    BY <1>9 DEF PagingInv
  <2>2. Sorted(all)
    BY <1>1, <1>3, <2>1, PagesInOrder, ConcatIsSorted DEF PagesOK, all
  <2>3. UpTo(explorer.data.traces, next)
    BY <1>1, <2>1 DEF PagesOK, next
  <2>4. ASSUME NEW m \in DOMAIN explorer.extra PROVE Newer(explorer.extra[m], next)
    <3>1. explorer.cursor # NoTrace
      BY <2>1 DEF PagesOK
    <3>2. explorer.extra[m] \in ListRow /\ explorer.cursor \in ListRow
      BY <1>1, <1>3, <3>1 DEF PagingTypeOK
    <3>3. explorer.extra[m] = explorer.cursor \/ Newer(explorer.extra[m], explorer.cursor)
      BY <2>1, <3>1 DEF PagesOK, UpTo
    <3>4. Newer(explorer.cursor, next)
      BY <1>1, <2>1, <3>1 DEF PagesOK, next
    <3> QED
      BY <1>3, <3>2, <3>3, <3>4, NewerIsTransitive
  <2>5. UpTo(all, next)
    <3>1. ASSUME NEW n \in DOMAIN all
          PROVE  \/ \E m \in DOMAIN explorer.extra : all[n] = explorer.extra[m]
                 \/ \E m \in DOMAIN explorer.data.traces : all[n] = explorer.data.traces[m]
      <4> DEFINE s == explorer.extra
                 u == explorer.data.traces
      <4>1. /\ \A m \in 1..Len(all) : all[m] = IF m <= Len(s) THEN s[m] ELSE u[m - Len(s)]
            /\ Len(all) = Len(s) + Len(u) /\ n \in 1..Len(all)
            /\ DOMAIN s = 1..Len(s) /\ DOMAIN u = 1..Len(u)
            /\ Len(s) \in Nat /\ Len(u) \in Nat
        BY <1>3, <3>1, ConcatPlaces DEF all
      <4> HIDE DEF s, u
      <4>2. \/ n \in DOMAIN s /\ all[n] = s[n]
            \/ n - Len(s) \in DOMAIN u /\ all[n] = u[n - Len(s)]
        BY <4>1
      <4>3. \/ \E m \in DOMAIN s : all[n] = s[m]
            \/ \E m \in DOMAIN u : all[n] = u[m]
        BY <4>2
      <4> QED
        BY <4>3 DEF s, u
    <3> QED
      BY <2>3, <2>4, <3>1 DEF UpTo
  <2> QED
    BY <1>1, <1>7, <1>8, <2>2, <2>5 DEF PagesOK, Sorted
<1>10. ASSUME ~explorer.mixed PROVE UnlistedOK'
  <2>1. UnlistedOK /\ Place = next
    BY <1>1, <1>10 DEF PagingInv, Place, next
  <2>2. Place' = next
    BY <1>7 DEF Place
  <2>3. \A i : Row(i)' = Row(i)
    BY <1>1 DEF Row
  <2> QED
    BY <1>1, <1>7, <2>1, <2>2, <2>3 DEF UnlistedOK
<1> QED
  BY <1>6, <1>7, <1>9, <1>10

\* Every step of the query API and of the explorer keeps the invariant of paging.
LEMMA PagingStep == PagingInv /\ [QueryNext]_allVars => PagingInv'
<1> SUFFICES ASSUME PagingInv, [QueryNext]_allVars PROVE PagingInv'
  OBVIOUS
<1> USE DEF PagingInv
<1>1. ASSUME TableStep PROVE PagingInv'
  BY <1>1, TableKeepsPaging, RetentionStep DEF TableStep
<1>2. ASSUME UNCHANGED retentionVars PROVE RetentionInv'
  BY <1>2, RetentionStep
<1>3. ASSUME UNCHANGED <<retentionVars, explorer>> PROVE PagingInv'
  BY <1>2, <1>3
  DEF retentionVars, storeVars, PagingTypeOK, PagesOK, UnlistedOK, Place, Row
<1>4. ASSUME NEW p \in Projects, UNCHANGED retentionVars, explorer' = NoExplorer(p)
      PROVE  PagingInv'
  <2>1. (PagingTypeOK /\ PagesOK /\ UnlistedOK)'
    BY <1>4 DEF NoExplorer, NoData, PagingTypeOK, PagesOK, UnlistedOK, Place, Sorted
  <2> QED
    BY <1>2, <1>4, <2>1
<1>5. explorer.project \in Projects
  BY DEF PagingTypeOK
<1>6. ASSUME SearchWindow PROVE PagingInv'
  <2>1. Cutoff(plan) \in Nat
    BY RetentionDaysAssumption DEF Cutoff, RetentionInv, RetentionTypeOK
  <2>2. UNCHANGED <<row, startedAt>> /\ explorer.pc = "org"
        /\ explorer' = [explorer EXCEPT !.pc = "find", !.from = Cutoff(plan)]
    BY <1>6 DEF SearchWindow, retentionVars, storeVars
  <2>3. PagingTypeOK'
    BY <2>1, <2>2 DEF PagingTypeOK
  <2>4. ~explorer'.mixed => (PagesOK /\ UnlistedOK)'
    BY <2>2 DEF PagingTypeOK, PagesOK, UnlistedOK, Place, Row
  <2> QED
    BY <1>2, <1>6, <2>3, <2>4 DEF SearchWindow
<1>7. ASSUME SearchRows PROVE PagingInv'
  BY <1>2, <1>7, SearchKeepsPaging DEF SearchRows
<1>8. ASSUME LoadMore PROVE PagingInv'
  BY <1>2, <1>8, LoadMoreKeepsPaging DEF LoadMore
<1>9. ASSUME ApplyFilters PROVE PagingInv'
  BY <1>4, <1>5, <1>9 DEF ApplyFilters
<1>10. ASSUME NEW p \in Projects, SwitchProject(p) PROVE PagingInv'
  <2>1. CASE explorer.cursor = NoTrace
    BY <1>4, <1>10, <2>1 DEF SwitchProject
  <2>2. CASE explorer.cursor # NoTrace
    <3>1. explorer' = [explorer EXCEPT !.project = p, !.mixed = TRUE, !.pc = "org",
                                       !.data = NoData]
      BY <1>10, <2>2 DEF SwitchProject, Fetching, PagingTypeOK
    <3>2. NoData \in [traces : Seq(ListRow), next : ListRow \cup {NoTrace}]
      BY DEF NoData
    <3>3. PagingTypeOK'
      BY <1>10, <3>1, <3>2 DEF PagingTypeOK, SwitchProject, retentionVars, storeVars
    <3>4. explorer'.mixed
      BY <3>1 DEF PagingTypeOK
    <3> QED
      BY <1>2, <1>10, <3>3, <3>4 DEF SwitchProject
  <2> QED
    BY <2>1, <2>2
<1>11. ASSUME NEW i \in Ids, OpenTrace(i) PROVE PagingInv'
  BY <1>4, <1>5, <1>11 DEF OpenTrace
<1>12. ASSUME \/ ReadPart \/ UNCHANGED allVars
              \/ \E readable \in SUBSET Refs : AnswerDetail(readable)
       PROVE  PagingInv'
  BY <1>3, <1>12 DEF ReadPart, AnswerDetail, allVars, queryVars
<1> QED
  BY <1>1, <1>6, <1>7, <1>8, <1>9, <1>10, <1>11, <1>12 DEF QueryNext

\* The pages of a listing, the place it has come to and the traces it has not listed are
\* related as PagingInv says, in every reachable state.
THEOREM PagingInvariant == QuerySpec => []PagingInv
  BY PagingInvInit, PagingStep, PTL DEF QuerySpec

\* The explorer lists newest first and no trace twice, and leaves none out that each of
\* its fetches could see.
THEOREM PagingExactness == QuerySpec => []PagingIsExact
<1>1. ASSUME PagingInv PROVE PagingIsExact
  <2> SUFFICES ASSUME ~explorer.mixed
               PROVE  /\ Sorted(Listed)
                      /\ explorer.pc = "shown" /\ explorer.data.next = NoTrace
                           => explorer.unlisted = {}
    BY DEF PagingIsExact, Sorted
  <2>1. PagingTypeOK /\ PagesOK /\ UnlistedOK
    BY <1>1 DEF PagingInv
  <2>2. explorer.extra \in Seq(ListRow) /\ explorer.data.traces \in Seq(ListRow)
    BY <2>1 DEF PagingTypeOK
  <2>3. Sorted(Listed)
    BY <2>1, <2>2, PagesInOrder, ConcatIsSorted DEF Listed, PagesOK
  <2> QED
    BY <2>1, <2>3 DEF UnlistedOK
<1> QED
  BY <1>1, PagingInvariant, PTL

-----------------------------------------------------------------------------
\* ConsoleSession: the way to a page.
LinkStates == {"none", "sent", "linked", "answered"}

SessionTypeOK ==
  /\ clerk \in BOOLEAN /\ loaded \in BOOLEAN
  /\ user \in Users
  /\ route \in {"sign-in", "onboarding", "app"}
  /\ boot \in {"none", "linking", "ready", "error"}
  /\ current \in Links \cup {0}
  /\ links \in [Links -> [by : Users, pc : LinkStates]]
  /\ signup \in [by : Users, pc : {"none", "sent", "made"}]

\* Without the pages there is no AuthBootstrap, and no link whose answer it waits for.
BootIsMounted == ~loaded \/ route # "app" => boot = "none" /\ current = 0

\* The link AuthBootstrap waits for is one of the user it was mounted for.
CurrentIsTheUsers == current # 0 => links[current].by = user /\ links[current].pc # "none"

\* A link is answered with success after it has made the member.
LinkedAreMembers ==
  \A l \in Links : links[l].pc = "linked" => <<Default, links[l].by>> \in members

\* What the pages stand on once they are ready, shown or not.
ReadyIsMember ==
  clerk /\ boot = "ready" /\ ~diverted => <<RequestOrg, user>> \in members

SessionInv ==
  /\ SessionTypeOK /\ BootIsMounted /\ CurrentIsTheUsers
  /\ LinkedAreMembers /\ ReadyIsMember

\* A console that is not loaded, or that is asked for another route, has linked nobody.
LEMMA SessionInvInit == SessionInit => SessionInv
  BY SessionAssumption
  DEF SessionInit, SessionInv, SessionTypeOK, BootIsMounted, CurrentIsTheUsers,
      LinkedAreMembers, ReadyIsMember, NoLink, Users, Links, LinkStates

\* What a rendering leaves behind: AuthBootstrap unmounted, ready without Clerk, as it
\* was for the same user, or waiting for a new link of the user that is now signed in.
LEMMA RenderOutcomes ==
  ASSUME SessionTypeOK, NEW asked \in {"sign-in", "onboarding", "app"}, Render(asked),
         clerk' = clerk, loaded' \in BOOLEAN, user' \in Users
  PROVE  /\ route' \in {"sign-in", "onboarding", "app"}
         /\ BootIsMounted'
         /\ \/ boot' = "none" /\ current' = 0 /\ links' = links
            \/ ~clerk /\ boot' = "ready" /\ current' = 0 /\ links' = links
            \/ /\ boot # "none" /\ user' = user /\ loaded' /\ route' = "app"
               /\ boot' = boot /\ current' = current /\ links' = links
            \/ \E l \in Links :
                 /\ links' = [links EXCEPT ![l] = [by |-> user', pc |-> "sent"]]
                 /\ boot' = "linking" /\ current' = l
<1>1. route' \in {"sign-in", "onboarding", "app"}
  BY DEF Render, RouteTo
<1>2. Bootstrap
  BY DEF Render
<1> QED
  BY <1>1, <1>2 DEF Bootstrap, BootIsMounted

\* So a rendering keeps the invariant, when the organization in local storage is only
\* replaced under an AuthBootstrap that starts over or a user who has left the form.
LEMMA RenderKeepsSession ==
  ASSUME SessionInv, NEW asked \in {"sign-in", "onboarding", "app"}, Render(asked),
         clerk' = clerk, loaded' \in BOOLEAN, user' \in Users, members' = members,
         signup' \in [by : Users, pc : {"none", "sent", "made"}],
         \/ storedOrg' = storedOrg /\ diverted' = diverted
         \/ diverted' \/ boot = "none"
  PROVE  SessionInv'
<1> USE DEF SessionInv
<1>1. /\ route' \in {"sign-in", "onboarding", "app"} /\ BootIsMounted'
      /\ \/ boot' = "none" /\ current' = 0 /\ links' = links
         \/ ~clerk /\ boot' = "ready" /\ current' = 0 /\ links' = links
         \/ /\ boot # "none" /\ user' = user /\ boot' = boot
            /\ current' = current /\ links' = links
         \/ \E l \in Links : /\ links' = [links EXCEPT ![l] = [by |-> user', pc |-> "sent"]]
                             /\ boot' = "linking" /\ current' = l
  BY RenderOutcomes
<1>2. CASE current' = 0 /\ links' = links /\ (boot' = "none" \/ (~clerk /\ boot' = "ready"))
  BY <1>1, <1>2
  DEF SessionTypeOK, CurrentIsTheUsers, LinkedAreMembers, ReadyIsMember
<1>3. CASE boot # "none" /\ user' = user /\ boot' = boot /\ current' = current /\ links' = links
  BY <1>1, <1>3
  DEF SessionTypeOK, CurrentIsTheUsers, LinkedAreMembers, ReadyIsMember, RequestOrg
<1>4. ASSUME NEW l \in Links, links' = [links EXCEPT ![l] = [by |-> user', pc |-> "sent"]],
             boot' = "linking", current' = l
      PROVE  SessionInv'
  <2>1. SessionTypeOK'
    BY <1>1, <1>4 DEF SessionTypeOK, LinkStates
  <2>2. CurrentIsTheUsers' /\ LinkedAreMembers' /\ ReadyIsMember'
    BY <1>4 DEF SessionTypeOK, CurrentIsTheUsers, LinkedAreMembers, ReadyIsMember
  <2> QED
    BY <1>1, <2>1, <2>2
<1> QED
  BY <1>1, <1>2, <1>3, <1>4

\* Every step of the session keeps the invariant.
LEMMA SessionStep == SessionInv /\ [SessionNext]_sessionVars => SessionInv'
<1> SUFFICES ASSUME SessionInv, [SessionNext]_sessionVars PROVE SessionInv'
  OBVIOUS
<1> USE DEF SessionInv, authVars
<1>1. ASSUME NEW p \in Users, Load(p) \/ SwitchUser(p) PROVE SessionInv'
  <2>1. Render(route) /\ route \in {"sign-in", "onboarding", "app"}
    BY <1>1 DEF Load, SwitchUser, SessionTypeOK
  <2> QED
    BY <1>1, <2>1, RenderKeepsSession DEF Load, SwitchUser, SessionTypeOK
<1>2. ASSUME EnterConsole PROVE SessionInv'
  BY <1>2, RenderKeepsSession DEF EnterConsole, SessionTypeOK
<1>3. ASSUME NEW asked \in {"sign-in", "onboarding", "app"}, Navigate(asked) PROVE SessionInv'
  BY <1>3, RenderKeepsSession DEF Navigate, SessionTypeOK
<1>4. ASSUME NEW l \in Links, LinkCommits(l) PROVE SessionInv'
  <2>1. SessionTypeOK' /\ LinkedAreMembers'
    BY <1>4 DEF LinkCommits, SessionTypeOK, LinkedAreMembers, LinkStates
  <2>2. BootIsMounted' /\ CurrentIsTheUsers'
    BY <1>4 DEF LinkCommits, SessionTypeOK, BootIsMounted, CurrentIsTheUsers, Links
  <2>3. ReadyIsMember'
    BY <1>4 DEF LinkCommits, ReadyIsMember, RequestOrg
  <2> QED
    BY <2>1, <2>2, <2>3
<1>5. ASSUME NEW l \in Links, LinkAnswered(l) PROVE SessionInv'
  <2>1. SessionTypeOK' /\ LinkedAreMembers'
    BY <1>5 DEF LinkAnswered, SessionTypeOK, LinkedAreMembers, LinkStates
  <2>2. BootIsMounted' /\ CurrentIsTheUsers'
    BY <1>5 DEF LinkAnswered, SessionTypeOK, BootIsMounted, CurrentIsTheUsers, Links
  <2>3. CASE current = l
    <3>1. links[l].by = user /\ <<Default, links[l].by>> \in members
      BY <1>5, <2>3 DEF LinkAnswered, CurrentIsTheUsers, LinkedAreMembers, Links
    <3>2. storedOrg' = Default /\ members' = members /\ user' = user
      BY <1>5, <2>3 DEF LinkAnswered
    <3> QED
      BY <2>1, <2>2, <3>1, <3>2 DEF ReadyIsMember, RequestOrg
  <2>4. CASE current # l
    BY <1>5, <2>1, <2>2, <2>4 DEF LinkAnswered, ReadyIsMember, RequestOrg
  <2> QED
    BY <2>3, <2>4
<1>6. ASSUME NEW l \in Links, LinkFails(l) PROVE SessionInv'
  BY <1>6
  DEF LinkFails, SessionTypeOK, BootIsMounted, CurrentIsTheUsers, LinkedAreMembers,
      ReadyIsMember, RequestOrg, LinkStates, Links
<1>7. ASSUME Submit \/ SignupFails PROVE SessionInv'
  BY <1>7
  DEF Submit, SignupFails, NoLink, Users, SessionTypeOK, BootIsMounted, CurrentIsTheUsers,
      LinkedAreMembers, ReadyIsMember, RequestOrg
<1>8. ASSUME SignupCommits PROVE SessionInv'
  BY <1>8
  DEF SignupCommits, SessionTypeOK, BootIsMounted, CurrentIsTheUsers, LinkedAreMembers,
      ReadyIsMember, RequestOrg
<1>9. ASSUME SignupAnswered PROVE SessionInv'
  <2>1. diverted' \/ boot = "none"
    BY <1>9 DEF SignupAnswered, BootIsMounted
  <2>2. signup' \in [by : Users, pc : {"none", "sent", "made"}]
    BY <1>9 DEF SignupAnswered, NoLink, Users
  <2> QED
    BY <1>9, <2>1, <2>2, RenderKeepsSession DEF SignupAnswered, SessionTypeOK
<1>10. CASE UNCHANGED sessionVars
  BY <1>10
  DEF sessionVars, SessionTypeOK, BootIsMounted, CurrentIsTheUsers, LinkedAreMembers,
      ReadyIsMember, RequestOrg
<1> QED
  BY <1>1, <1>2, <1>3, <1>4, <1>5, <1>6, <1>7, <1>8, <1>9, <1>10 DEF SessionNext

-----------------------------------------------------------------------------
\* Portal: a behaviour of the whole is one of each part.
THEOREM PortalParts ==
  PortalSpec => QuerySpec /\ SessionInit /\ [][SessionNext]_sessionVars
<1>1. PortalInit => QueryInit /\ SessionInit
  BY DEF PortalInit
<1>2. [PortalNext]_portalVars => [QueryNext]_allVars /\ [SessionNext]_sessionVars
  BY DEF PortalNext, portalVars
<1> QED
  BY <1>1, <1>2, PTL DEF PortalSpec, QuerySpec

\* AuthBootstrap lets a Clerk user on the pages only as a member of the organization its
\* requests name.
THEOREM SessionInvariant == SessionInit /\ [][SessionNext]_sessionVars => []SessionInv
  BY SessionInvInit, SessionStep, PTL

\* A page is shown to a Clerk user only when that user is a member of the organization
\* its requests name, however late links of earlier users are answered.
THEOREM LinkedPages == PortalSpec => []PagesAreLinked
<1>1. SessionInv => PagesAreLinked
  BY DEF SessionInv, ReadyIsMember, PagesAreLinked, PageShown
<1> QED
  BY <1>1, PortalParts, SessionInvariant, PTL

=============================================================================
