------------------------------ MODULE LocalDev ------------------------------
(***************************************************************************)
(* A developer's machine: setup-local.mjs with wait-for-deps.mjs, runs of  *)
(* bootstrap-local-dev.ts that may overlap or be killed, the files they    *)
(* leave (the credentials file, .env and apps/web/.env.local) and          *)
(* verify-local.mjs, which uses them.                                      *)
(*                                                                         *)
(* Of the variables of a file only those the scripts add are kept.  The    *)
(* project id in them goes with the organization id.                       *)
(***************************************************************************)
EXTENDS Naturals, FiniteSets, Sequences

CONSTANTS
  Services,     \* the containers
  Postgres,
  Boots,        \* runs of the bootstrap that may overlap
  LocalKeys,    \* the API keys it can generate
  NoFile

ASSUME ServicesAssumption == Postgres \in Services /\ IsFiniteSet(Services)
ASSUME LocalKeysAssumption == NoFile \notin LocalKeys

VARIABLES
  up,         \* the services that accept connections
  migrated,
  setup,      \* [pc, pending]
  rows,       \* the rows of the local organization
  localKeys,  \* LocalKeys -> "none" | "live" | "revoked", the rows named local-dev-ingest
  boot,       \* Boots -> [pc, key]
  creds,      \* the apiKey of the credentials file, or Truncated, or NoFile
  env,        \* .env: variable -> how the file has it, or NoFile
  webEnv,     \* how apps/web/.env.local has the organization, or NoFile
  verify,     \* [pc, key, passed]
  keptKey     \* history: "sound" once a run has ended well; "lost" when two runs
              \* overlap, one is killed before it wrote its key or while it writes the
              \* file, or the file is deleted;
              \* "none" at first and when the last live key is revoked

files == <<creds, env, webEnv>>
database == <<migrated, rows, localKeys>>
localVars == <<up, database, setup, boot, files, verify, keptKey>>

\* What a file says of a variable: nothing, its name in a comment or without a value,
\* or a value.
Absent == "absent"
Mentioned == "mentioned"
Id == "id"

\* The key the script writes when it does not know the one that exists.
RevokeIt == "(revoke existing key and re-run bootstrap)"

\* What writeFileSync has made of the credentials file when it has not written it yet.
Truncated == "truncated"

\* .env.example names the variables in comments.
EnvExample == [org |-> Mentioned, key |-> Mentioned]
EmptyFile == [org |-> Absent, key |-> Absent]

Seeded == <<"organization", "project", "environment", "user", "membership">>

NoBoot == [pc |-> "idle", key |-> NoFile]
NoVerify == [pc |-> "idle", key |-> NoFile, passed |-> {}]

LocalInit ==
  /\ up = {} /\ migrated = FALSE
  /\ setup = [pc |-> "idle", pending |-> {}]
  /\ rows = {}
  /\ localKeys = [k \in LocalKeys |-> "none"]
  /\ boot = [b \in Boots |-> NoBoot]
  /\ creds = NoFile /\ env = NoFile /\ webEnv = NoFile
  /\ verify = NoVerify
  /\ keptKey = "none"

-----------------------------------------------------------------------------
\* setup-local.mjs: each command is waited for, and one that fails ends the setup.
SetupGoes(pc) == setup' = [setup EXCEPT !.pc = pc]

\* ensureEnv.
EnsureEnv ==
  /\ setup.pc = "idle"
  /\ env' = IF env = NoFile THEN EnvExample ELSE env
  /\ SetupGoes("docker")
  /\ UNCHANGED <<up, database, boot, creds, webEnv, verify, keptKey>>

\* docker compose up returns before the services accept connections.
DockerUp ==
  /\ setup.pc = "docker"
  /\ setup' = [pc |-> "wait", pending |-> Services]
  /\ UNCHANGED <<up, database, boot, files, verify, keptKey>>

\* waitForAll: a target that was up once is not asked again.
Probe(s) ==
  /\ setup.pc = "wait" /\ s \in setup.pending \cap up
  /\ setup' = [pc |-> IF setup.pending = {s} THEN "migrate" ELSE "wait",
               pending |-> setup.pending \ {s}]
  /\ UNCHANGED <<up, database, boot, files, verify, keptKey>>

\* The wait times out, or a command fails.
SetupFails ==
  /\ setup.pc \in {"docker", "wait", "migrate"}
  /\ setup' = [pc |-> "idle", pending |-> {}]
  /\ UNCHANGED <<up, database, boot, files, verify, keptKey>>

\* pnpm install, db:generate, db:migrate.
Migrate ==
  /\ setup.pc = "migrate" /\ Postgres \in up
  /\ migrated' = TRUE
  /\ SetupGoes("bootstrap")
  /\ UNCHANGED <<up, rows, localKeys, boot, files, verify, keptKey>>

\* A service starts or stops.
ServiceTurns(s) ==
  /\ up' = IF s \in up THEN up \ {s} ELSE up \cup {s}
  /\ UNCHANGED <<database, setup, boot, files, verify, keptKey>>

-----------------------------------------------------------------------------
\* bootstrap-local-dev.ts.
Running == {b \in Boots : boot[b].pc # "idle"}

Goes(b, pc, key) == boot' = [boot EXCEPT ![b] = [pc |-> pc, key |-> key]]

\* By hand, or as the last command of the setup.
StartBootstrap(b) ==
  /\ boot[b].pc = "idle"
  /\ Goes(b, "upsert", NoFile)
  /\ keptKey' = IF Running = {} THEN keptKey ELSE "lost"
  /\ IF setup.pc = "bootstrap" THEN SetupGoes("idle") ELSE UNCHANGED setup
  /\ UNCHANGED <<up, database, files, verify>>

\* A statement against the database succeeds only if it is there.
Reachable == Postgres \in up /\ migrated

\* Five upserts without a transaction: the script ends at the first that fails.
UpsertRows(b) ==
  /\ boot[b].pc = "upsert"
  /\ \E n \in 0..Len(Seeded) :
       /\ Reachable \/ n = 0
       /\ rows' = rows \cup {Seeded[i] : i \in 1..n}
       /\ IF n = Len(Seeded) THEN Goes(b, "findKey", NoFile) ELSE Goes(b, "idle", NoFile)
  /\ UNCHANGED <<up, migrated, localKeys, setup, files, verify, keptKey>>

\* A plausible slip: a revoked key is found as well.
FindKeyRevoked(b) ==
  /\ boot[b].pc = "findKey" /\ Reachable
  /\ Goes(b, IF \E k \in LocalKeys : localKeys[k] # "none" THEN "readFile" ELSE "createKey",
          NoFile)
  /\ UNCHANGED <<up, database, setup, files, verify, keptKey>>

\* apiKey.findFirst: a key by this name that is not revoked.
FindKey(b) ==
  /\ boot[b].pc = "findKey" /\ Reachable
  /\ Goes(b, IF \E k \in LocalKeys : localKeys[k] = "live" THEN "readFile" ELSE "createKey",
          NoFile)
  /\ UNCHANGED <<up, database, setup, files, verify, keptKey>>

\* The plaintext of the key that exists is whatever the file holds.  JSON.parse throws on
\* a truncated file, which ends the script.
ReadFile(b) ==
  /\ boot[b].pc = "readFile"
  /\ IF creds = Truncated
       THEN Goes(b, "idle", NoFile)
       ELSE Goes(b, "truncate", IF creds = NoFile THEN RevokeIt ELSE creds)
  /\ UNCHANGED <<up, database, setup, files, verify, keptKey>>

\* generateApiKey, and the row after its hash.
CreateLocalKey(b, k) ==
  /\ boot[b].pc = "createKey" /\ Reachable /\ localKeys[k] = "none"
  /\ localKeys' = [localKeys EXCEPT ![k] = "live"]
  /\ Goes(b, "truncate", k)
  /\ UNCHANGED <<up, migrated, rows, setup, files, verify, keptKey>>

\* writeFileSync opens the file with flag w, which truncates it, and then writes.
TruncateFile(b) ==
  /\ boot[b].pc = "truncate"
  /\ creds' = Truncated
  /\ Goes(b, "writeFile", boot[b].key)
  /\ UNCHANGED <<up, database, setup, env, webEnv, verify, keptKey>>

WriteFile(b) ==
  /\ boot[b].pc = "writeFile"
  /\ creds' = boot[b].key
  /\ Goes(b, "appendEnv", boot[b].key)
  /\ UNCHANGED <<up, database, setup, env, webEnv, verify, keptKey>>

\* A line whose name the file has anywhere, be it in a comment, is not added.
Added(file, name, value) == IF file[name] = Absent THEN value ELSE file[name]

AppendEnv(b) ==
  LET old == IF env = NoFile THEN EmptyFile ELSE env IN
  /\ boot[b].pc = "appendEnv"
  /\ env' = [old EXCEPT !.org = Added(old, "org", Id), !.key = Added(old, "key", boot[b].key)]
  /\ Goes(b, "appendWeb", NoFile)
  /\ UNCHANGED <<up, database, setup, creds, webEnv, verify, keptKey>>

\* The organization of the console; the publishable key is added in the same way.
AppendWeb(b) ==
  /\ boot[b].pc = "appendWeb"
  /\ webEnv' = IF webEnv \in {NoFile, Absent} THEN Id ELSE webEnv
  /\ Goes(b, "idle", NoFile)
  /\ keptKey' = IF keptKey = "none" THEN "sound" ELSE keptKey
  /\ UNCHANGED <<up, database, setup, creds, env, verify>>

\* A run is killed, or a statement of it fails.
BootstrapEnds(b) ==
  /\ boot[b].pc # "idle"
  /\ Goes(b, "idle", NoFile)
  /\ keptKey' = IF boot[b].pc = "writeFile" \/ (boot[b].pc = "truncate" /\ boot[b].key # creds)
                  THEN "lost" ELSE keptKey
  /\ UNCHANGED <<up, database, setup, files, verify>>

-----------------------------------------------------------------------------
\* What the developer does by hand.  The script's advice is to revoke the key and run it
\* again.
RevokeLocalKey(k) ==
  /\ localKeys[k] = "live"
  /\ localKeys' = [localKeys EXCEPT ![k] = "revoked"]
  /\ keptKey' = IF Running # {} \/ \E j \in LocalKeys \ {k} : localKeys[j] = "live"
                  THEN "lost" ELSE "none"
  /\ UNCHANGED <<up, migrated, rows, setup, boot, files, verify>>

DeleteCredentials ==
  /\ creds # NoFile
  /\ creds' = NoFile
  /\ keptKey' = "lost"
  /\ UNCHANGED <<up, database, setup, boot, env, webEnv, verify>>

CopyWebExample ==
  /\ webEnv' = Mentioned
  /\ UNCHANGED <<up, database, setup, boot, creds, env, verify, keptKey>>

-----------------------------------------------------------------------------
\* HealthService probes every dependency, whether or not another one answers.
ProbeDependency(s) == IF s \in up THEN "up" ELSE "down"

Healthy == \A s \in Services : ProbeDependency(s) = "up"

\* verify-local.mjs, with the API running.
CheckHealth ==
  /\ verify.pc = "idle"
  /\ verify' = [pc |-> "load", key |-> NoFile,
                passed |-> IF Healthy THEN {"health"} ELSE {}]
  /\ UNCHANGED <<up, database, setup, boot, files, keptKey>>

\* loadCredentials: the credentials file, else the values of .env.
LoadedKey ==
  IF creds # NoFile THEN creds
  ELSE IF env # NoFile /\ env.org = Id /\ env.key \in LocalKeys \cup {RevokeIt}
    THEN env.key ELSE NoFile

LoadCredentials ==
  /\ verify.pc = "load"
  /\ verify' = [verify EXCEPT !.pc = IF LoadedKey \in LocalKeys THEN "ingest" ELSE "done",
                              !.key = LoadedKey]
  /\ UNCHANGED <<up, database, setup, boot, files, keptKey>>

\* The fixture under a trace id and event ids of this run.
IngestSmoke ==
  /\ verify.pc = "ingest"
  /\ IF localKeys[verify.key] = "live" /\ up = Services
       THEN verify' = [verify EXCEPT !.pc = "query", !.passed = @ \cup {"ingest"}]
       ELSE verify' = [verify EXCEPT !.pc = "done"]
  /\ UNCHANGED <<up, database, setup, boot, files, keptKey>>

\* Two seconds later.  The list holds the five newest of the workflow by the time they
\* were received: the new trace, unless five more came in.
QuerySmoke ==
  /\ verify.pc = "query"
  /\ \E found \in BOOLEAN :
       /\ found => Postgres \in up /\ localKeys[verify.key] = "live"
       /\ verify' = [verify EXCEPT !.pc = "done",
                                   !.passed = IF found THEN @ \cup {"query"} ELSE @]
  /\ UNCHANGED <<up, database, setup, boot, files, keptKey>>

VerifyEnds ==
  /\ verify.pc = "done"
  /\ verify' = NoVerify
  /\ UNCHANGED <<up, database, setup, boot, files, keptKey>>

LocalNext ==
  \/ EnsureEnv \/ DockerUp \/ Migrate \/ SetupFails
  \/ \E s \in Services : Probe(s) \/ ServiceTurns(s)
  \/ \E b \in Boots :
       \/ StartBootstrap(b) \/ UpsertRows(b) \/ FindKey(b) \/ ReadFile(b)
       \/ \E k \in LocalKeys : CreateLocalKey(b, k)
       \/ TruncateFile(b) \/ WriteFile(b) \/ AppendEnv(b) \/ AppendWeb(b) \/ BootstrapEnds(b)
  \/ \E k \in LocalKeys : RevokeLocalKey(k)
  \/ DeleteCredentials \/ CopyWebExample
  \/ CheckHealth \/ LoadCredentials \/ IngestSmoke \/ QuerySmoke \/ VerifyEnds

LocalSpec == LocalInit /\ [][LocalNext]_localVars

-----------------------------------------------------------------------------
\* Once a bootstrap has ended well, the credentials file holds a live key, except while a
\* run rewrites it, for as long as nobody revokes it: what later runs find and reuse is
\* what an earlier one wrote, wherever they fail but in that write; and revoking the last
\* key and running the script again, as it advises, repairs what a killed run or an
\* overlap left, be it a file that does not parse.
CredentialsWork ==
  keptKey = "sound" /\ (\A b \in Boots : boot[b].pc # "writeFile") =>
    creds \in LocalKeys /\ localKeys[creds] = "live"

=============================================================================
