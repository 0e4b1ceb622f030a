# A TLA+ model of neops-docker-compose

`./neops` is a command line tool that installs, starts, upgrades and maintains one deployment of the
neops stack (CMS, workflow engine, databases, search, proxy) with docker compose. Almost everything that
can go wrong in it goes wrong between two commands: a step is cut off, the next command starts from what
is left, and files, databases and running containers have to agree again in the end. This directory
models that.

## 1. Inventory

`neops_compose/` holds the program, `migrations/` the deployment migrations, `compose*.yaml` the stack it
drives, `neops` the entry point. A command builds one `Ctx` (`context.py`: `.env`, paths, scenario,
`State.load`) and works on it until it ends. There is no lock and no daemon.

| component | state it keeps | operations | properties that make it correct |
|---|---|---|---|
| State file (`state.py`, `secrets.write_secret`) | `data/.neops/state.json`, `state.tmp` | load, save (open, write, rename), record | a ledger: one entry at a time, of what ran or was faked, none lost |
| Deployment migrations (`migrate.py`) | `NAME.failed` markers, `backups/pre-migrate-*`, the installation itself | `apply_all`, `fake`, `snapshot` | what is recorded ran; in order; once; a failed one waits for its repair with a clean snapshot |
| Engine API key (`token.py`, `rotate.secret_key`, `workflow._start`) | `engine.env`, the `StaticAPIKey` rows, the engine's environment, `DJANGO_SECRET_KEY` in `.env` and in the CMS | ensure, rotate, rotate secret-key, start | nobody revokes a key in use; success means the engine can log in; interruptions heal and leave few orphans |
| Start, guard, record (`workflow.py`) | `last_up` in `state.json`, the containers, the CMS database | install, up, down | an older core is not put on a newer database; `last_up` names what runs |
| Search index (`search_index.py`) | the index in Elasticsearch | refresh | after a start that succeeds the index belongs to the core that runs |
| Key material (`secrets.py`, `rotate.jwt`, `rotate.tls`) | JWT pair, CA and leaf certificate, Keycloak client secret | ensure, rotate | a pair matches; signer and verifiers use the same one after a success |
| Passwords (`rotate.py`, `passwords.py`) | `.env`, the roles in Postgres, the environments of containers | fill, rotate | `.env`, database and containers agree, or `rotate` can repair it |
| Routing (`rules.py`, `urls.py`, `scenario.py`, `traefik_model.py`) | none (pure) | check the public URLs, build the routers | accepted URLs reach their own service |
| The bundled Traefik (`render.py`, compose overlays) | `generated/traefik/`, its container | check, render, up, down, restart | after `up` Traefik serves what `.env` says |
| `.env` (`env.py`, `migrations/`) | `.env` | set, unset, rename; 0001 to 0003 | a migration cut off and run again ends where an undisturbed one does; the retention is not shortened; Grafana is started with the files it needs |
| Backup (`backup.py`) | `backups/` | create, prune, the documented restore | a manifest is true of its archive; a restored `.env` has gone through what is recorded; pruning leaves the newest complete archive |
| docker compose driver (`compose.py`) | none | up, down, exec, ps | an error is always raised to the caller |
| Doctor (`doctor.py`) | none (core counts its logins) | one probe after the other, a deadline for the worker, the verdict | a green one has seen every part work; a red one is not its own doing |
| Preflight, render | `generated/` | checks, files from `.env` | read-only, or a function of `.env` |

How they interact. `install` and `up` call check, migrate, (guard,) keys, render, pull, `_start` (which calls
the token component and compose), the index refresh, and the record with doctor. Files shared between
commands are `state.json` (migrations, starts, issued keys), `.env` (passwords, secret key, images) and
`data/secrets`. Containers get their environment when they are created and read files when they start, so a
changed file means nothing until somebody recreates the right containers.

What is hard: a command may be killed, or docker compose may fail, between any two steps, and what docker
was asked for goes on without the CLI; two CLIs may run at once; commands read a file, wait (for a prompt,
for `up --wait`) and use what they read; the same information (a key, a release) lives in two or three
places that are changed one after the other. `PROJECT.json` lists each of these hazards at its line.

## 2. Modules

| module | models |
|---|---|
| `StateFile` | `state.json` and `state.tmp` with the three file operations of a save, for any number of processes |
| `Migrate` (extends `StateFile`) | `migrate.py` and `./neops migrate` |
| `MigrationLedger` | the abstract specification of `state.json` that `Migrate` implements for one CLI |
| `EngineToken` | the engine's API key through `token`, `rotate token`, `rotate secret-key`, `up`, `down` |
| `Deploy` | `install`, `up`, `down`: guard, containers, index, record |
| `Routing` | the checks on COMPOSE_FILE and the URLs, and the routers built from them, as operators |
| `Proxy` (extends `Routing`) | the bundled Traefik, its two files and its container, while `.env` is edited |
| `Rotate` | the secrets several parties hold: `up`, `keys`, `rotate jwt`, `tls`, `keycloak-client`, `db-password` |
| `EnvMigration` | 0003 on the operator's `.env`, within `up` or `migrate`, one file write at a time |
| `Backup` | `backup`, its pruning, a migration beside it, and the restore of the documentation |
| `Doctor` | the probes of `doctor`, with what core's rate limiter and the clock do to them |
| `MCMigrate`, `MCEngineToken`, `MCBackup` | symmetry of the processes, for TLC; the bound `Apart` of the backup run |
| `MCProxy`, `MCEnvMigration`, `MCDoctor` | the routing of the shipped examples, the `.env` files and the deployments, as values for TLC |
| `MigrateProofs`, `EnvMigrationProofs`, `EngineTokenProofs`, `DeployProofs`, `ProxyProofs`, `RotateProofs`, `BackupProofs`, `DoctorProofs` | the theorems |

Operators in the modules with a comment that starts with `mutant:` are wrong variants of the definition
after them; no behaviour of a specification uses them. Each is a plausible bug in the code that one
property exists to catch; `PROJECT.json` says which, and TLC finds the property violated once the variant
takes the definition's place.

### StateFile and Migrate

`disk` and `tmp` are the two files: absent, torn (not parsable) or whole with a value. `fd[p]` is the file
the open descriptor of process `p` refers to, which changes under it when another process renames or
replaces that file. `mem[p]` is `Ctx.state`. `Load`, `OpenTmp`, `WriteTmp`, `Replace` are the calls of
`State.load` and `State.save`; a write into a file in which another process's bytes already are yields the
new content or a torn file.

`Migrate` adds the loop of `apply_all` as a program counter per process. `effect[m]` is how far the
installation carries migration `m`, `marker[m]` the snapshot that `NAME.failed` names, `snaps[s]` what the
`.env` copied to snapshot `s` contained. `damaged` and `fakedEver` are history variables. The actions follow the
code in order: `Start` (load and compute what is pending), `Snapshot` (before any marker is looked at), then per
migration `Refuse` or `BeginApply`, `EndApply` or `FailApply` with `WriteMarker`, `RecordApplied`, and the three
steps of the save. `Kill` ends a process anywhere. `Repair` is the operator doing what the error message
says; it is not code. `todo` is computed once in the code; in the model its head is the least name that
`mem[p]` does not record, which is the same because `mem[p]` grows by exactly the head.

`MigrationLedger` says the same without files and processes: migrations are completed in order or declared done, and the ledger
gets one entry at a time of such a migration. `Migrate` implements it (`ImplementsLedger`) when there is one CLI, with
`done` mapped to the migrations whose effect is done, `faked` to those some `--fake` recorded, and `recorded` to what
`state.json` holds. An unreadable `state.json` holds nothing, so the refinement also says that it never becomes
unreadable. With two CLIs entries are lost: what is left then is `RecordedImpliesRan` and `InOrder`.

### EngineToken

A token is the id of its row and the secret key that signed it. `envKey` is `DJANGO_SECRET_KEY` in `.env`,
`cmsKey` the one the CMS was created with, `rows` the keys the CMS database has, `engineEnv` the token in
`engine.env`, `engine` the one in the engine's environment. `Valid` is `get_api_key_entry`. The actions are the steps
of the four commands that move the key. `old[p]` is what the command found in `engine.env`
(`existing` in `ensure_engine_token`, `old` in `rotate_engine_token`), read before it is used. `Abort` ends a command at
any step: what that step asked docker for has not, partly or completely happened (`UpPartly`, a row
created whose token was never printed, a row deleted after all).

### Deploy

Releases are numbers in their order. `pinned` is what the compose files and `.env` name, `running` what the
containers were created from, `db` the newest core that migrated the CMS database, `index` the release that
built the search index and whether it is whole, `lastUp` what `state.json` has. One CLI runs at a time.
`Repin` is the operator between two commands. `CmsInit` and `CmsUp` are the order compose.yaml gives the
containers; `Abort` leaves any prefix of it. `unrecorded` and `excuse` are history: whether a start began that
was not recorded, and what the operator did that the guard does not promise anything for.

### Routing and Proxy

`Routing` has no variables: it takes one `.env` (`Env`: overlays, public URLs, ports) and says whether `check` accepts it
(`Accepted`, one operator per function of `rules.py`), which routers `build_traefik` makes of it (`Routers`) and what the
static configuration says (`StaticConfig`). A path is a sequence of segments, since `_under` compares segments. Traefik
compares characters, so `Extends` says which segment begins with the text of which other. `LiteralPrefix`, `Answering` and
`EntryPointAt` are Traefik (external): among the matching routers the highest priority answers, and a request that two of
one priority match may be answered by either. `Belongs` is the reference: whose a request is according to
`docs/20-scenarios.md`. `Careful` and `WholeSegments` name what `check` leaves to the operator. It compares each service
with the web client and prefixes with each other, so it accepts two services without a path on one origin; and it
accepts `/graphs` beside `/graph`, of which Traefik gives the first one's requests to the second.

`Proxy` adds time. `static` and `routers` are `traefik.yml` and `dynamic.yml`; the second comes into force as soon as it is written,
the first when Traefik starts. `container` records what compose created it from (`visible`), the static configuration
at that time (`created`), and the static configuration and the routers in force (`read`, `routers`). It mounts both files by name,
so it sees what is written into them and not that one is removed and written anew: `mounted` says whether its files still are those of
`generated/`, and `Watching` what a render is to it. Starting again (`Restart`) mounts the files of then and needs both. `Edit` is the operator changing one value, `Up` is `check` and the start of
the command, `WriteStatic` and `WriteDynamic` are the two writes of `render` in their order, `ComposeUp` recreates the container only
if what compose sees changed. `Kill` cuts a command off between writes, `Restart` is Traefik starting again in
the same container.

Left out: how a URL is parsed, middlewares, the routers for the engine's worker routes, certificates and the ACME email,
a write of a file that is itself cut off.

### Rotate

A secret is a value and its holders: files under `data/secrets` (`file`), `.env` and Postgres (`env`, `role`), Keycloak, the rendered
`providers.json`, the CMS (`keycloak`, `providers`, `seeded`), and what running containers loaded (`sign`, `verify`, `served`,
`password`). Key and certificate made together have the same value, so a pair matches when the values are equal. A
file may also be `Torn` (opened and not written) or a `Directory` that docker put where it was to mount a file.

One command runs at a time, as a program counter. `Unlink`, `EnsureJwt`, `EnsureClient`, `EnsureTls` and `WriteFile` (one write
per key file, in the code's order) are `rotate.py` and `secrets.py`; `Alter` and `SetEnv` are `db_password`; `Update`, `Render` and
`Seed` are `keycloak_client`. `Plan`, `CmsInit`, `Start` and `Started` are `docker compose up` with the services a command names: it starts
anew what it is forced to, what does not run and what has another environment than before, dependencies first;
`cms-init` runs each time and logs in to the CMS database; a service that does not become healthy ends the command, and leaves any part of the rest
stopped. `Restart` is a container starting again with the environment of its creation and the files of now.
`Interrupt` cuts a command off in any step, which then has happened, not happened or, for a write, half happened.

`Connects` is how Postgres lets clients in (external): nobody is asked for a password on the socket, everybody over the network.
`rotate.py:44` relies on it, and the check of `preflight.py` connects the same way.

Left out: the names in the certificate, the admin password, an operator who edits a secret by hand, containers that
restart while a command is at work, and a write of `.env` that is itself cut off: `SetEnv` is done or not, the truncated file
that `set_key` may leave is in `EnvMigration` (`MovedChange`).

### EnvMigration

`disk` is `.env` as a function from keys to values, `mem` the `Env.values` of the command, `files` the scenario that `Ctx.build`
computed from it before any migration. The keys are those 0003 reads or writes; `REST` stands for all others. The places of the
program counter between `overlay` and `dropDays` are the edits of 0003 in their order. Each edit is two steps when it truncates the file:
`InPlaceChange` (`Env.rename`, always) and `MovedChange` (`Env.set`, `Env.unset`: python-dotenv, external, renames or copies a new file
over the old one, depending on its version) make `disk` empty while `mem` already has the new content, and `Rewrite`
completes the write. `At(place)` is a command between two writes. `Kill` may fall in any place. `odd` is the set of old keys that are
not on one plain line of their own, which `Env.rename` looks for.

`Check` is what `rules.py` demands of the keys concerned, `Render` what `render` leaves for Grafana, `Start` that compose reads `.env`
itself, whatever the scenario of the command was. `Restore` is the operator following docs/30-operations.md: both files of a snapshot, when
`check` finds that `.env` has lost its keys. `Migrated(e)` is the reference: what the documentation says of each key, in one expression and
without an order.

Left out: 0001 and 0002 (directories and their owners; nothing in `.env`), the values of keys 0003 passes through, a `.env` that
`check` refuses before 0003 and that 0003 does not change, two runs within one second, which share a snapshot directory (`Migrate` has them:
`SameSecond`). The `.env` files do not include EXECUTION_LOG_RETENTION_DAYS=0, from which 0003
makes the horizon `0d` that `check` then refuses.

### Backup

An archive is named by the second its backup began in, and holds dumps, an `.env` (the number of migrations it has gone
through) and a manifest. The actions follow `create` and `prune`: `Begin` (the State that was loaded, the directory, the databases that
run), `Dump` one database at a time, `CopyEnv`, `CopySecrets`, `WriteManifest`, then `List`,
and for one directory after the other `Unlink`, file by file in any order as `rmtree` does, and `Remove`, the `rmdir` in
the end. A prune may be cut off between any two of these, and its victim then is an archive with a part of its files. `_private_copy`
creates the directory it copies to, `write_bytes` does not: so a backup whose archive was pruned fails (`Robbed`) or goes on in a new
directory. `MigrateApplies`, `MigrateRecords` and `MigrateKilled` are a migration beside it, `Restore` is what the documentation tells the operator to do.
`shared`, `robbed` and `overtaken` are history: where two backups met.

Left out: `--dir`, file modes, a file that is cut off while it is copied, a copy of `.env` that meets one of the truncations of `EnvMigration`, what
the dumps contain.

### Doctor

`works` is the set of parts that work now; parts break and recover between any two probes. The program counter follows `run` in
`doctor.py`; `report` collects the probes that are not ok with their severity, and `AllOk` decides. `spent` is how many logins core
(external) has counted for doctor's address in this minute, `admin` the outcome of the login all later requests to the engine depend on.
What fails and what only warns is part of the verdict: a store that does not answer the engine (`reachable`) warns even if it
would reject every line (`StoreSeverities`), and `DenySeverity` depends on the deployment. `Authenticated` is what the CMS makes of
the admin's credentials: he may be deactivated or missing or have another password than `.env` (part `admin`), which fails the worker's probe;
under OIDC `Mint` needs him active as well. A login that reaches core without the address it counts by fails with an error (`LoggedIn`).
`Pending` is one round of `settled_worker_probe`: ask, wait for an answer for up to `AnswerTime`, look at the clock, sleep. A unit of time is
`WORKER_POLL_SECONDS` (5 s), so in the code `AnswerTime` is 3 (`doctor.py:102`) and `Grace` 18. `Reached` lets a request to a page that may not answer
succeed or fail, since `pages` stands for all public URLs. `Raises` are the requests nothing catches: `docker compose ps`, GET /workers
(`doctor.py:344`) and the forged requests; the run then ends with a traceback and without a report. `worked`, `broke`, `others`, `crowded`, `late` and `rolled`
are history, with which the two properties say what a verdict may be blamed on.

Left out: what each page must contain, names and certificates, the wording of a report. What the index sync reports only warns, so
it is one part that is in order or not.

### What is abstracted everywhere

Wording, logging and file modes; the content of `.env` and of migrations apart from what a variable above
says; the time inside docker commands (`--wait-timeout` and failing health checks are a step that is cut
off). `keys`, `render`, `check` and `pull` change none of the modelled state, so failing in one of them is failing
before the next modelled step.

## 3. Runs

| run | instance | shows |
|---|---|---|
| `migrate_concurrent` | 2 CLIs, 2 migrations, 1 kill, 1 exception, `--fake`, snapshots that collide | state.json records only what ran (`RecordedImpliesRan`), in order (`InOrder`), although saves overwrite each other |
| `migrate_single` | 1 CLI, 3 migrations (one idempotent), 1 kill, 2 exceptions, `--fake`, 4 snapshot names | `Migrate` implements `MigrationLedger`; markers, clean snapshots, applied once, everything recorded in the end |
| `token_single` | 1 CLI, all five commands, 2 rotations, 2 faults | what a success means, how many keys are orphaned, recovery |
| `token_concurrent` | 2 CLIs, 2 rotations, up to 4 rows, 1 fault | no interleaving revokes a key in use |
| `deploy_starts` | 3 cores (one with an unreadable tag, one that decides about its index), 2 releases of Elasticsearch, 2 repins, 2 faults | guard, index, record, and that starts get recorded |
| `proxy_edits` | 7 routings of `examples/`, 2 edits, 6 hosts, 3 ports, 10 paths | every accepted `.env` serves each service's requests from it alone; entry points in force after `up` (containers restarted since on another file left out) |
| `proxy_static` | the same, 1 edit | finding 1 |
| `rotate_retried` | the JWT pair with each of: the CMS and the engine password, the client secret, the certificate; 2 interruptions | a success means that all holders agree; no secret suffers from another command; retrying ends with a stack that works |
| `rotate_unnoticed` | the JWT pair and the CMS password, 1 interruption | finding 2 |
| `env_migration` | 180 `.env` files, old keys on plain or odd lines, 2 kills anywhere | 0003 run again ends as if undisturbed, nothing is lost for good, no execution is deleted earlier, Grafana starts with its files, `up` gets through |
| `backup_overlapping` | 2 backups at a time beside a migration and restores, 1 database, 3 seconds, `--keep` up to 1, 1 fault | a restored `.env` is migrated as far as `state.json` records, manifests are true but in an oldest archive half removed, pruning keeps the newest complete archive |
| `doctor_repeated` | 3 deployments, 2 changes of parts, 1 other login, 1 `--probe-ratelimit`, limits of 3 and 2 logins, a grace of 4 polls, an answer within 2 | no missed alarm, no false alarm |

Why the bounds are enough. Two processes are the least that interleave, and no command waits for a third.
Three migrations are a migration with one before and one after it, two the least with an order. Snapshot
names come back into use only when nothing refers to them any more, so four of them stand for any number
of runs. A fault, a repair and a second fault is the longest story the markers take part in. For the
token, two faults and two rotations let an interruption follow another one's recovery; 8 rows are more
than one CLI can create within these bounds before it starts a command, and for two CLIs a new command
starts while fewer than 4 exist. For the guard, a start, a failed start of another release and a third
release need three cores and two repins.

For the proxy, two edits are one that breaks a rule and one that satisfies it again in another way, or a change with
a render in between. The paths have every relation the rules distinguish: empty, equal, one under the other, one that is
under a prefix of core, one that contains such a prefix (`/auth` and `/auth/oidc`), one that shares only characters with
it. Of the prefixes of core and the reserved paths one of each such shape is enough, since each is compared with a URL's path
on its own. The ports are the two defaults and the monitor's.

For the secrets, every deployment has the JWT pair, and a torn or missing public key is what stops the engine and with it
the other commands; secrets of other kinds meet only in the services that compose starts together. (The safety properties also hold
with the JWT pair and two more secrets at a time, among them both passwords; that instance is too large for the liveness
property.) Six values are more than a secret has holders, so that a new value is always one that nobody holds. A first
interruption leaves a secret divided and a second one hits the repair.

For 0003, two kills are one inside a run and one inside the run that repairs it; the `.env` files vary the logger class, the
retention and the overlays separately, because no branch of 0003 reads two of them, and each with every value that the
code tells apart. For backups, three seconds give an archive, one begun in the same second or after it, and one more;
`--keep 1` is the closest pruning there is, and the migration needs one number. Once the migration has begun, the run goes on only with backups that
do not prune (`Apart` in `MCBackup`), since neither looks at what the other changes; the theorems `RestoreSafe`, `ManifestsTrue` and
`NewestKept` have no such bound. For doctor, the limits are
smaller than core's 5 and 20, but odd and even as those are: two logins a run leave one over under the first, and none
under the second. The grace is longer than two answers, so that a round without a worker is not always the last. Two changes are a part that breaks and recovers within a run, or the worker and another part. Runs are not bounded.

Fairness. A command that was started goes on: weak fairness of its steps, as nothing in the code waits for
another command. Faults are never fair, and bounded. The operator repeats `migrate`, `up` (with
`--allow-downgrade` in the end) and the repairs that error messages ask for: strong fairness, because other
commands disable them in between. For the secrets that is `up`, `rotate jwt`, the rotation of the other secret of the
scenario, and removing a directory docker created. Nothing else is assumed of the operator. Liveness says what these
operators get: every migration recorded (`EventuallyAllRecorded`), an engine the CMS accepts
(`EngineRecovers`), a start recorded even if doctor fails each time (`EventuallyRecorded`), every secret in agreement and every service up
(`Recovers`), the stack started on the migrated `.env` (`UpgradeEnds`: `up` is repeated, and `.env` restored when check says that it has lost its keys).

The runs of `Proxy`, `Backup` and `Doctor` check safety only and assume no fairness.

Deadlock is checked in every run; none is possible since an operator can always start a command.

## 4. Findings

1. `proxy_static`. `render` overwrites `traefik.yml` in place (`render.py:65`), Traefik reads it only when it starts, and docker
   compose recreates the container only for a change it sees. After an edit of `NEOPS_TRUSTED_PROXY_IPS` alone, `up`
   succeeds and Traefik runs with the old list; `docs/30-operations.md:16` says to run `./neops up` after every `.env` edit.
   `EntryPointsInForce` is what holds: entry points, redirect and resolver never change without something compose sees.
2. `rotate_unnoticed`. The password check runs `psql` inside the Postgres container (`preflight.py:293`), over the socket that asks
   for no password (`rotate.py:44`), so it accepts any value; README.md:81 says that `check` notices a mismatch. `UpServes` is
   what holds: cms-init logs in over the network, so an `up` with a wrong CMS password fails later. For the engine
   nothing does until it restarts.

What the models also show, and the properties allow for:

* The check script prints INVALID for any exception inside the CMS (`token.py:19`), so a lost database connection has
  `ensure_engine_token` mint a second key; its docstring (`token.py:171`) says "an undetermined check must never mint a second key".
  `CheckGlitch` is in every run of `EngineToken`; `OrphansBounded` says how many keys that leaves.
* `install` has no downgrade guard (`workflow.py:166`); README.md:77 says "Downgrading the CMS is refused", `docs/10-install.md:98`
  that a second `install` changes nothing. `GuardHolds` is what the guard of `up` achieves.
* `images_moved` takes a missing `last_up` for a fresh installation (`search_index.py:59-62`). After a first install that was cut off and
  repeated with another core the index is still the first core's. `IndexMatchesAfterRetry` is what holds.
* A migration that is not idempotent and is killed in `apply()` leaves no failure marker, since `apply_all` writes it under
  `except Exception` (`migrate.py:146`), and runs again on what it left. `FailedWaitsForRepair` therefore speaks of runs without a
  kill. The migrations there are today are all idempotent.
* A kill within a write of `.env` leaves it empty (`env.py:68`), so 0003 is not safe to be simply run again, which is
  what IDEMPOTENT asks of it (migrations/README.md:12). `check` stops `up` then, but not `migrate`, which records 0003 on the empty file. The snapshot
  from before is still there (`LostIsRecoverable`).
* A backup pruned while it runs is recreated by `_private_copy`, and its manifest lists dumps that are gone. A backup that is
  overtaken by a later one may prune its own archive, complete as it is. Both need two backups at a time. A prune that is killed leaves an archive whose manifest lists dumps
  that are gone (`backup.py:93`), always the oldest; the next `--keep` counts it and removes it first.
* Once `COMPOSE_FILE` lacks the Traefik overlay, `render` unlinks its two files (`render.py:90`), but `up` leaves the container
  running. After the overlay is added again they are new files, which the container's mounts of single files (`compose.traefik.yaml:16-17`) do
  not see; compose finds the container it made and leaves it. `up` succeeds and Traefik routes by the old `dynamic.yml`, until something
  restarts it, although the docstring of `render` (`render.py:42-43`) is careful about just these mounts. This takes three edits; `ReachesOwn`
  speaks of containers whose files are still those of `generated/` (`container.mounted`).
* doctor passes with a warning over a store that is unreachable, as docs/50-troubleshooting.md:27 says. Nothing
  then says whether that store would take a line, so `AlarmNotMissed` promises nothing of it (`Doubted`).
* At the fourth doctor in a minute, or after `--probe-ratelimit`, the admin login is refused and doctor fails although the stack is
  fine; its message says so. Forged requests between which a minute begins blame the proxy for nothing.

## 5. Proofs

All theorems hold for every value of the constants that the named assumptions admit (`NAssumption`,
`MigrateAssumption`, `TokenAssumption`, `DeployAssumption`, `RoutingAssumption`, `ProxyAssumption`, `RotateAssumption`, `EnvAssumption`,
`BackupAssumption`, `DoctorAssumption`: little more than types), so for any number of processes, migrations, releases, faults, hosts, paths, edits, secrets,
archives, probes and `.env` files. Four of them say more: in `RoutingAssumption` whatever a
reserved path is under is reserved as well (all of `routes.py` is of one segment or under `/auth`), in `RotateAssumption` every deployment has the JWT pair, in `DoctorAssumption`
the operator forges fewer requests in a row (`MaxProbes`) than core lets through in a minute, and `EnvAssumption` has of strings the one thing
no prover knows of them, that a number with a unit is not blank. Where a theorem holds for one CLI at a time only, that is its hypothesis
(`OneCli`); each of these properties has a run with one process, since two processes violate it.

* `MigrateProofs`: `TypeCorrect`, `RecordedRan` (`RecordedImpliesRan`), `AppliedInOrder` (`InOrder`).
  `RecordedImpliesRan` speaks of `state.json` alone and is not inductive: what gets there was in `state.tmp`,
  and before that in some process's memory. The invariant `IInv` therefore says the same of all three,
  and that a migration a process is about to record is done (`RecordsWhatRan`). Two CLIs are no special case, since an effect once done is never undone (the repair
  touches unfinished ones only).
  The second part is for one CLI: `LedgerImplemented`, `Migrate` implements `MigrationLedger` for any number of migrations, kills,
  exceptions, repairs and fakes. The argument needs, besides `IInv`, that the State in memory is the one on disk until a
  migration is recorded or faked and is exactly one entry ahead during the save (`MemoryFollows`), and that nobody but this save
  writes `state.tmp` (`SaveInHand`). `RepairAwaited` (`FailedWaitsForRepair`) and `RunsOnce` (the action property `AppliedOnce`)
  follow from `Leftovers`: a migration that is half done and not recorded has its marker or is being dealt with right now, and one that is done
  and not recorded is about to be. `SnapshotsClean` (`MarkerNamesCleanSnapshot`) needs that each snapshot is of a second of its own (`~SameSecond`), and
  `CleanSnapshots`: the snapshot in hand is older than every change the run may still make without a marker.
* `EngineTokenProofs`: `TypeCorrect`, `DiskTokenLive` (`TokenOnDiskIsLive`), `EngineKeyLive` (`EngineKeyNotRevoked`).
  `IInv` adds what the writes and revocations under way are going to do: a minted token that is not yet in
  `engine.env` is referred to by nothing and about to be revoked by nobody (`CarriedIsNew`), a process that has
  written `engine.env` has put its old token out of use there for good (`OldOverwritten`), and when it revokes
  it, no engine runs with it (`OldReplaced`). The last one is why the engine must be recreated before the revocation.
  For one CLI, `SuccessSound` (`SuccessMeansAuthenticated`): `Single` follows which keys the CMS, the token in hand and `engine.env` have at each place of
  a command. `OrphansPaid` (`OrphansBounded`) is an argument by potential: each fault pays for two rows, and `Debt` is the number of
  orphans still to come from tokens signed with a key that is no longer that of `.env`. `Paid` says that orphans and debt together stay
  within what was paid, at rest and, in a form of its own, at each place where a command has an old and a new token in hand.
* `DeployProofs`: `TypeCorrect`, `GuardSound` (`GuardHolds`), `RecordSound` (`RecordedIsDeployed`), `IndexSound` (`IndexMatchesAfterRetry`). `IInv` relates the database
  to what the next guard will compare with: the recorded core, or after a failed start the images it is
  retried on (`GuardCompares`), and says where a command stands (`CommandShape`). For the index, `IndexInv` says what an older core has to go by: the index is what the
  recorded images build, or what the first start made; only a start with other images may leave something else, and that one rebuilds.
* `ProxyProofs`: `TypeCorrect`, `EntryPointsSound` (`EntryPointsInForce`), `ReachesSound` (`ReachesOwn`). A container that compose leaves alone may be many renders
  older than `.env`, so the property is not inductive. `Inv` says that a container was created with the entry points that
  what compose saw then determines (`ContainerAsSeen`), that a command at work has rendered the current `.env` (`Rendered`), and that after
  `up` compose sees the container as current (`UpToDate`). The lemma `SeenDetermines` closes the argument: the published ports and the
  TLS overlay determine the entry points, the redirect and the resolver, for every `.env`. The other theorem adds that `up` gets to compose only with an accepted
  `.env` and its own routers (`RoutersInForce`), which are those of a container whose files are still mounted; the rest is about `Accepted` and `Routers` of one `.env`. Requests for one host at one entry point
  are requests for one origin (`SameDoor`), two prefixes of one path are under one another (`Comparable`), and so each rival router of at
  least the same priority is one that `_prefix_collisions`, `_cms_rules` or the reserved paths exclude, or the operator (`Rivals`, `CoreKeepsOut`, `Answered`).
* `RotateProofs`: `TypeCorrect`, `AgreeSound` (`OthersAgree`), `RotationSound` (`RotationComplete`), `UpSound` (`UpServes`), `PairSound`
  (`MixedPairTakesTwo`). `RInv` has three layers. `Course`, `Files`, `Making` and `Loads` say which command may be at which step, and what it has
  made there is on disk. `Rotated`, `Recreated` and `Served` say of a command that recreates containers which of them already run with what there is now
  (`Current`), so that nothing is left when it ends. `Settled` is about all others: a secret that no command is moving and none was cut off
  in (`Undisturbed`) is whole or not there yet, and whoever has loaded it has this value. That a pair is not there yet, and so may be made without anyone noticing,
  holds only before the first `render` (`Unrendered`, `NoJwt`, `NoTls`): nothing runs then. `Pair` counts the interruptions behind a pair that is not one.
* `EnvMigrationProofs`: `TypeCorrect`, `RerunSound` (`RerunEndsAsUndisturbed`), `LostSound` (`LostIsRecoverable`), `RetentionSound`
  (`RetentionNotShortened`), `GrafanaSound` (`GrafanaAsStarted`). The argument is one about the operators: each edit of 0003 leaves `Migrated` of the file
  as it was (`Keeps`, one lemma per edit), provided the edits before it had their effect (`Reached`), so it does not matter where a run is
  cut off and where the next one starts (`Kept`). An edit on its own does not: dropping an old key before its value is moved would lose it. `Ends`
  closes it: a file that has been through all edits is its own `Migrated`. `Snapshots` says the same of the copies, and `Started` that the
  Scenario from before 0003 decides about Grafana and the store as one read afterwards would (`Foresees`). Two theorems have a hypothesis on the `.env` files:
  `RetentionSound` that the days the operator had set are among those `DaysOf` gives a number to, and `GrafanaSound` that an operator who lists both
  overlays lists Grafana's before that of the metrics, which 0003 does not reorder.
* `BackupProofs`: `TypeCorrect`, `RestoreSafe` (`RestoredIsMigrated`), `ManifestsTrue` (`ManifestTruthful`), `NewestKept` (the action property
  `NewestCompleteKept`), for any number of backups at a time. `Behind` orders what is read when: a backup loads the State before it copies `.env`, and a
  migration changes `.env` before it records, so a manifest never records more than the `.env` beside it, even when two backups write one archive and only
  the later one's manifest or `.env` stays. `Remembered` relates an archive to what its writer has in memory. `Pruning` says why pruning is safe: the newest directory
  there has been is never removed (`NewestStays`), a prune goes from the oldest up (`OldestFirst`), and who prunes has its own archive, or is
  overtaken (`OwnArchive`, `Replaced`). The proof corrected the property: with four backups at a time an archive may be pruned while it is written,
  be created again and completed, and be pruned by a process that had listed it before. `NewestCompleteKept` now leaves out these archives (`robbed`), as
  `ManifestTruthful` did; two backups at a time do not get that far. While a prune takes the files of an archive, it is `Expired`: the oldest there is, with
  a newer one that stays, whether or not the prune is cut off. So a manifest that is not true never is the newest.
* `DoctorProofs`: `AlarmSound` (`AlarmNotMissed`), `BlameSound` (`NoFalseAlarm`). The history variables know what works and what does not from
  the first probe on (`Watched`). For the first theorem, each probe already asked has found its part working at some time or keeps the run from passing (`Vouching`), or is among what a warning takes back (`Doubted`); what
  is not obvious is that a login refused by the limiter vouches for nothing by itself, and the admin's token vouches for the database. For the second, `Counted`, `Refusal` and `Forging`
  account for the logins, and a failed login without a refusal comes from a part of its own (the database, the admin, the pages or the addresses): until doctor logs in itself, those counted for its address are those of others, hence a refusal of the admin's login is never doctor's own doing.

Only model-checked: the liveness properties (`EventuallyAllRecorded`, `EngineRecovers`, `EventuallyRecorded`, `Recovers`, `UpgradeEnds`), since TLAPS proves neither
fairness nor ENABLED. Each invariant and each action property that a passing run checks is a theorem. The types of `Doctor` are part of its invariant (`Types`) and checked by no run.

## 6. Plan

In this order:

1. A State that a newer CLI wrote, in `StateFile`, whose fields a save by an older one drops; `IInv` of `MigrateProofs` extended to it.
2. The admin password and `passwords.fill_missing` in `Rotate`, with their place in `Course` and `Settled`.

## 7. Not modelled

The checks of preflight besides the URLs, the overlays, the retention and the database passwords, and the files `render` writes besides those of Traefik,
Grafana and the client secret (no state, or a function of `.env`); directories and their owners; the compose files beyond the order and
conditions of cms-init, cms, engine, keycloak and traefik; dashboards and alert rules; the documentation and release tooling in
`.make_scripts`; the tests. `PROJECT.json` gives the reason for each.
