# RPM Manager in TLA+

RPM Manager (`src/`) is one Go server with a web front end. It downloads
release binaries, packages them as RPMs, signs them and publishes them as YUM
repositories, one per product. Builds are started by users, by API calls and by
a monitor of GitHub releases; a build is a goroutine that works on a few shared
directories and on rows of an SQLite database. This directory holds a model of
the parts of the server where the order of things matters, what TLC checks of
them, and what is proved of them with TLAPS.

To check something, run in this directory

    tlc -config BuildServiceSafety.cfg MCBuildService.tla
    tlapm BuildServiceProofs.tla

(`ServerProofs.tla` takes some minutes, the other proof modules less.)

`PROJECT.json` lists the runs, the source lines each definition stands for, the
mutations that each property detects, the hazards of the code and the findings.

## 1. The system

### 1.1 Components

| component | source | state | operations |
|---|---|---|---|
| Build service | `internal/service/build_service.go` | `s.running` (product → cancel function) under `s.mu`; `s.logWriters` (build → writer) under `s.writerMu` | TriggerBuild, CancelBuild, GetLogWriter; the goroutine of a build with its deferred clean-up |
| Pipeline runner | `internal/pipeline/pipeline.go` | `<name>.staging` on disk, `builds.status` | Run: four stages, a cancellation test before each |
| Build rows | `internal/repository/build_repo.go` | table `builds` | Create, Update…, HasRunningBuild, lists |
| Products | `internal/service/product_service.go`, `internal/repository/product_repo.go` | table `products` (UNIQUE name; deleting cascades to builds) | Create, Update, Delete, Duplicate, import, export |
| Package build, signing, verification | `stage_build.go`, `stage_sign.go`, `stage_verify.go`, `symlink.go`, `createrepo.go`, `nfpm.go`, `repotemplate.go` | the tree in staging | one function per stage |
| Distro map | `internal/distromap` | constant tables | Resolve, ResolveAll, SymlinksForDistros |
| Publication and rollback | `stage_publish.go`, `repo_service.go` | `<name>`, `<name>/.rollback/<stamp>`, `<name>.staging`, `<name>.rollback-tmp` | StagePublish, Rollback, browsing |
| Repo RPMs | `reporpm_service.go`, `stage_publish.go` | `<name>/repo-rpm` | Generate, GetLatest, cleanOldRepoRPMs |
| Build log | `internal/pipeline/log.go` | log file, `lw.subscribers` under `lw.mu` | Write, Subscribe, Unsubscribe, Close |
| Log WebSocket | `internal/handler/ws_handler.go` | one connection each | replay, look-up, subscription, delivery |
| Monitor | `monitor_service.go`, `monitor_repo.go` | table `monitors` | loop, CheckNow, Upsert, Update |
| Notification | `notification_service.go` | none | one HTTP call, 10 s timeout |
| Server life cycle | `internal/server/server.go`, `cmd/` | the process | start, orderly shutdown; `deploy/rpmmanager.service` starts it again after a failure |
| Login | `internal/auth`, `internal/handler/auth_handler.go` | failed attempts by address under `rl.mu`; used payloads under `usedMu` | Challenge, Login, two cleaning loops |
| GPG keys | `gpg_service.go`, `gpgkey_repo.go`, `gpg_handler.go` | keyring on disk, table `gpg_keys` | ImportKey, GenerateKey, Delete, SetDefault |
| Configuration | `internal/config` | `config.yaml` | Load: read, make what secrets are missing, save them |
| Settings | `settings_repo.go`, `settings_handler.go` | table `settings` | get, set |
| Database, migrations | `internal/database` | one connection, `foreign_keys=on`, `busy_timeout=5000`; `schema_migrations` | Open, Migrate at start |
| Routing, dashboard, web front end, deployment | `router.go`, `dashboard_handler.go`, `web/`, `deploy/`, `install.sh` | – | rendering and requests |

### 1.2 How they interact

* Handlers call services; TriggerBuild holds `s.mu` from its first line to its
  return, inserts the row, creates the log writer, registers both maps and starts
  the goroutine. The monitor calls TriggerBuild too and ignores its error.
* The goroutine runs the pipeline, then judges whether to call the webhook, then
  removes itself from `s.running` (by *product*), from `s.logWriters` (by build)
  and closes the log. CancelBuild reads a build row and cancels whatever
  `s.running` holds *for its product*.
* Directories are named by the product *name* captured at the trigger; locks
  and rows go by product *id*.
* StagePublish, Rollback and Generate change the same directories without a lock
  between them.
* The WebSocket handler reads the log file and then subscribes to the writer.
* A product names a row of `gpg_keys`; TriggerBuild reads the product and then that
  row, and the sign stage asks the keyring for the fingerprint much later. Requests
  that change keyring and table hold no lock.
* The login handlers take the mutexes of the limiter and of the used payloads one
  after the other. Neither memory outlives the process; challenges do, since they
  are signed with `jwt_secret`, which is in `config.yaml`.
* Nothing reads unfinished rows or left-over directories at start-up.

### 1.3 Where it is hard, and what correctness means

| component | hard because of | what makes it correct |
|---|---|---|
| build service, rows | three kinds of callers, a deferred clean-up keyed by product, kills, updates of rows that fail unnoticed | at most one pipeline and one active row per product; each active row will be moved on; a cancellation reaches its build, which gives everything back; the webhook tells what the row says |
| pipeline | directories by name, lock by id; renames and deletions meanwhile | no build loses its staging to another; rows follow their life cycle |
| publication, rollback, repo RPMs | recursive operations that are no transactions, three uncoordinated writers, errors only logged | what is published is the build that ran; snapshots are complete, bounded and never lost; work directories go away |
| trees | four stages and three globs over the same paths | published trees are complete, signed, described by their own repodata, and reached by their aliases |
| repo RPMs | age by modification times that a copy renews; a publication in many steps that others do not wait for, with errors that are only logged | the latest is served and kept |
| log and WebSocket | two closers of one channel, replay and live in two steps, bounded channels | no panic, nothing twice or out of order, only slow clients lose lines, everyone is told of the end |
| GPG keys, products | keyring and table change in separate steps; requests of both kinds meet; gpg fails with a warning | what is listed is in the keyring, whatever went wrong before; a build signs with the key its product named |
| configuration, migrations | a file edited by lines, truncated and then written; a process that may end anywhere and come back as another version | secrets survive the restart and nothing else changes; every migration once and in order |
| login | requests overlap between check, verification and failure; memory that is cleaned meanwhile | who waited as told is let in; a payload is accepted once |
| monitor | a row read before a request of 30 s and written after it, with a write that may fail unnoticed | no release is built twice or after a newer one, none is forgotten |

The `hazards` of `PROJECT.json` list each of these at its line.

## 2. The modules

| module | models | state it abstracts |
|---|---|---|
| `BuildLifecycle` | abstract: what `builds.status` promises to its readers | `owner`, `status`, rows that lag behind |
| `BuildService` | the build service with its pipelines, product rows, kills and failing updates | maps, mutex, rows, goroutines, staging directories |
| `BuildServiceInv` | the inductive invariant of `BuildService` | – |
| `RepoHistory` | abstract: one live repository and its snapshots | `live`, `past` |
| `RepoPublish` | StagePublish, Rollback, Generate, kills | three directories, each with output, repo RPMs and history |
| `RepoRpms` | which repo RPM is the latest | `dir`, `mtime`, the copies in staging and snapshots, the clock |
| `RepoTree` | distro map, StageBuild, StageSign, StageVerify | the tree of one build |
| `BuildLog` | log writer, its registration, the WebSocket handlers | file, subscribers, channels, connections |
| `Monitor` | the monitor loop and CheckNow for one product | the row, the checks, GitHub |
| `GpgKeys` | GPGService and GPGKeyRepo | keyring, table, requests |
| `Catalog` | products and their keys and monitors, and the builds that read them; extends `GpgKeys` | product rows, what a build has read |
| `ConfigFile` | `config.yaml` and how it is edited: operators, no state | – |
| `LoginGuard` | rate limiter, challenges, the login handlers | failures, ages, used payloads, logins in progress |
| `Server` | the life of the process; extends `ConfigFile` and `LoginGuard` | phase, file, secrets, schema |
| `MC…` | instances for TLC: symmetry sets and input sets | – |
| `…Proofs` | the proofs about `BuildService`, `RepoPublish`, `RepoRpms`, `RepoTree`, `BuildLog`, `Monitor`, `Catalog` (with `GpgKeys`) and `Server` (with `ConfigFile` and `LoginGuard`) | – |

`BuildService` instantiates `BuildLifecycle` on its own `owner`, `status` and
`stale`; `RepoPublish` instantiates `RepoHistory` under a refinement mapping. The
modules share boundaries rather than variables: `BuildService` keeps one pipeline
per product, which `RepoPublish` assumes (`MayStart` never starts a second one);
`RepoPublish` says *how many* repo RPMs survive, `RepoRpms` *which*; `RepoTree` is
the contents of what `RepoPublish` moves around as one value; `Catalog` composes
keys, products and builds over one database, and `Server` a file, a database and the
login under one process. `BuildLog` follows the order of registration and clean-up
that `BuildService` establishes (`LogOpenWhileUsed`).

### 2.1 BuildService

A step is atomic when it touches one shared thing, or when all it reads is under
`s.mu`. TriggerBuild is `TriggerCheck` (the map and HasRunningBuild), then
`TriggerInsert` or `TriggerNoProduct`, then `TriggerLaunch` or `TriggerNoLog`,
with `mu` held throughout; other requests that need the mutex wait
(`LockFree`), while deletions and pipelines go on. CancelBuild is `CancelRead`
(no lock) and `CancelFire` (under the lock). Pipeline.Run is `RunStart` or
`RunNoStaging`, then for each stage `StageCancelled` or `StageBegin`, then
`StageDone` or `StageFails`, and at last the deferred `Unstage`. The rest of the
goroutine is `Judge`, `Notify`, `Release`, `Unlist`, `CloseLog`, in the order in
which Go runs the deferred calls. `RowUpdate` is an UPDATE: it does not look
at the status the row has, has no effect on a deleted row, and may fail
(`"update" \in Faults`), which the code ignores; the history variable `stale` holds
the builds whose last UPDATE failed. `CrashRestart`
forgets memory and keeps rows and directories. What a stage does is one step
here; `staging` only remembers which build made the directory.

### 2.2 RepoPublish and RepoHistory

Every rename, recursive copy and recursive removal is a step, and copies and
removals are seen half done (`Torn`). Actions named `P…` are StagePublish with
the deferred removal of staging, `R…` Rollback, `G…` Generate. A rename fails onto
a directory with contents, whoever made it. Two kinds of freedom are parameters:
`Faults`, the operations that may fail by themselves, and `Overlaps`, the pairs of
operations that may meet. An operation that fails leaves what it can leave in the
code: a copy or removal ends anywhere, os.RemoveAll removes what it can (`Rests`), old
snapshots are removed one by one and each may stay, whole or torn (`Leavings`). The
removals at the end of an operation (`PExit`, `RClean`) and the rename back (`RUndo`)
may fail too, which the code ignores; a build made over what stays in staging has the
output `Mixed`. The code excludes no overlap, so a run that restricts
them shows what holds when the operator keeps operations apart, and the
violation runs show what happens otherwise. `Linked` are the builds whose output
has alias links to directories: copying one fails at the first link.

RepoHistory states the promise: publishing makes the former repository the latest
snapshot, pruning keeps the latest *k*, restoring takes a snapshot out of the
history, repo RPMs survive. The mapping reads the live repository from wherever
it stands in for production during an operation (`LiveRepo`) and the snapshots
from whichever of the three directories has them (`Snapshots`).

### 2.3 RepoTree

The distro map is transcribed whole (`Family`, `Path`). The stages run as phases,
each with the loop elements it has left (`todo`); loops over lines and
architectures are unordered except where the code indexes a line after
packaging it. An RPM, its repodata and the signature of the repodata are told
apart only by whether they belong to the package as built or as signed. `Glob`
is `filepath.Glob` with its two stars. StageVerify changes nothing; it only
succeeds or fails.

### 2.4 RepoRpms

File names are numbers in lexical order. A publication is `PCopy` (repo-rpm to
staging, then production to the new snapshot), `PRemove`, `PSwap`, `PList` and `PTrim`
(cleanOldRepoRPMs reads the directory and then removes), and `Generate` may come
between any two of them. The copy gives the files new times in lexical order
(`CopyTimes`), several of which may be equal, and may end early with only a warning;
removal and rename may fail (`PRemoveFails`, `PSwapFails`), the server may die
(`Die`), and a snapshot may come back (`Rollback`, one step here: RepoPublish has its
parts).

The history variable `amiss` holds what has befallen the file generated last, or its
copies, since it was generated: `order` (a file with a later name is there),
`overtaken` (it came between the copy and the removal, or was on the list of old
files when it was made), `copy`, `removal`, `swap` (these failed), `ticks` (the copies
of two files share a time, not `OwnTicks`), `kill` (between removal and rename),
`rollback`. A new generation starts afresh.

### 2.5 BuildLog

The log is a sequence of numbered writes. Everything under `lw.mu` is one step:
a write appends to the file (or fails to, `DiskFull`) and goes to each
subscriber whose channel has room. A connection is accepted when the row
exists, replays the file, looks the writer up, subscribes, delivers, and leaves
when its channel is closed and empty or its client is gone. Closing a channel
twice, or sending on a closed one, sets `panics`.

### 2.6 Monitor

Releases are numbered in the order they appear; the latest may be withdrawn, and come
back (`Withdraw`). A check is `ReadRow` or `ReadFails`; `Fetch`, `FetchFails` or
`FetchEmpty` (an answer without a tag name); `Record` or `RecordFails`; and `Build` if
the check needs one. Whether it does depends on the answer and on what was read before
the request, so it is settled with the answer (`NeedsBuild`, kept in `wants`), although
the code compares the two only after the UPDATE. Everything else may happen in between:
releases, edits of the row, kills without bound. The errors of both UPDATEs are dropped:
after `RecordFails` the check goes on as after `Record`, and `FetchFails` writes the row
or does not. A request for a build starts one, or is refused or fails, whatever the
reason; why the build service refuses is in `BuildService`.

History variables: `built`, the releases the monitor built; `missed`, that a build that
was needed was not started; `amiss`, that since a check last ended alone with the newest
release the latest and on record (`Settled`) two checks ran at once, an UPDATE of a
release failed, a release was withdrawn or an answer was empty.

### 2.7 GpgKeys and Catalog

gpg is atomic: it changes the keyring or fails. ImportKey is `Import` (gpg takes in
every key of the file, the code goes on with the first one reported), `ListKey`,
`LookUp`, `InsertRow`; GenerateKey differs in its first step. Delete is `ReadRow`,
`DropKey` (a failure is only a warning), and the deletion of the row, in which
Catalog lets products take part (ON DELETE SET NULL), or `DropRowFails`. An error of
the look-up counts as "no row", as in the code; the UNIQUE fingerprint then refuses
the INSERT, which may also fail by itself. Ids are never used twice. The history
variable `mixed` holds the keys whose last request failed, met one of the other
kind, or was cut off by a kill: for these, keyring and table may differ.

Catalog's products are what is left of their row: the key they name. `Trigger`,
`Resolve` and `Sign` are the three points at which a build looks at product, key row
and keyring. Any error of the read of the row leaves the build without a
fingerprint, after a warning (`misread`). A product may name only an existing row
(foreign key).

### 2.8 Server, ConfigFile and LoginGuard

A configuration file is a sequence of lines: section headers, entries with
their indentation, blank lines. `Readable` and `Get` are what the YAML parser
makes of it, `Put` and `Persist` what `persistAuthSecrets` does to its lines, and
`Panics` the one slice of it that may be out of range. Start-up is `Start` (Load up
to the save), `Truncate` and `Write` (os.WriteFile, which may stop after some
lines), `Apply` for each migration (one transaction executes and records it),
`Migrated`. `Handle` is any step of a handler, `Stop` the signal, `Exit` the end of
the process in any way. `Install` replaces the program between two processes, by a
newer or an older one.

LoginGuard counts time in ticks of half a second, so that rounding to seconds is a
real step, and keeps ages only, each capped where the code stops telling it from
greater ones. What a client sends is a payload, a text that `Decode` maps to the
solution VerifySolution reads in it; several texts may have one solution, and the
table of what was used has texts for keys. Login is `Login` (the check), `Solve`
(signature and time), `Use` (under `usedMu`), `Password` (wrong; right; or right
with an error when the token is made, which leaves the limiter alone). `told` and
`accepted` are history variables: the shortest wait an address was told since its
last failure, and how often the process accepted a payload.

## 3. What is checked

All models are finite by the bounds in their names (`Max…`, the sets of ids), so
they stop when ids are used up and `CHECK_DEADLOCK` is off everywhere: the
server itself has no final state, and that nobody waits for ever is stated
by the liveness properties instead.

### 3.1 Runs that pass

| run | instance | shows |
|---|---|---|
| `build_safety` | 2 products, 2 names, 2 builds, 2 clients (one of which may be inside CancelBuild at a time), 1 fault: a kill or a failing UPDATE, at any point | one pipeline and one active row per product; active rows are driven; staging is taken from a build by another only after a rename or deletion; webhooks are truthful; log writers are open while listed; a cancellation reaches the build it asks for, or, if that is gone, no other product's |
| `build_live` | 1 product, 2 builds, commands may hang, no kill, no failing UPDATE | a cancelled build gives back its entry, its writer and its staging directory; if commands return, every product becomes free again and every build not cancelled is announced; `BuildLifecycle` is implemented |
| `repo_serial` | 4 builds, 2 repo RPMs, 2 rollbacks that may meet, restores that fail | `RepoHistory` is implemented, with its bound on the history; work directories go |
| `repo_faults` | 2 builds, every fault with every rest it may leave, a kill, Generate at any time | what a publication that goes on has published is its own build, over the rest of an older one only if staging could not be wiped; a rollback loses no build that is on disk, but for the removal that ends it |
| `tree` | all pairs of the map and an unknown one, lists of 2, 2 architectures, with and without a key | published trees are complete, their repodata describes them, aliases lead to their line and no link is in the way of a directory, and what the `.repo` files promise of a line is there if the product has a key and the line is one directory deep |
| `rpms` | 4 files, 3 kept, one snapshot, 10 ticks; any order, equal times, every failure, kills, rollbacks | the repo RPM generated last survives and is the one served, unless something in `amiss` befell it |
| `log` | 2 connections, 3 writes, channels of 2, full disk | no panic, no line twice or out of order; a client that keeps up gets everything after it subscribed; a subscriber of a build in progress is told of its end |
| `monitor` | 2 releases that come and go, the loop and one request, every failure, kills without bound, with fairness | what the monitor asks to build is newer than all it built before, unless something went amiss since a check last settled the row; a monitor that stays enabled records the release that stays the latest, and builds it if it stays on auto-build and no build it needed was refused or lost |
| `keys` | 2 keys (one of which the server may generate), 2 requests, key files with one key or two, 1 product, 2 row ids, gpg and every read and write of the table may fail, kills without bound | once requests for a key are over, keyring and table agree, unless its last request failed, met one of the other kind or was killed; products and monitors refer to rows that exist; a build signs with the key its product named while that is listed, or with none if its row could not be read |
| `server` | 8 shapes of `config.yaml` or none, 2 processes that make secrets, 2 migrations, 1 address, 2 logins, 1 text of a solution and one of none, threshold 2, blocks of 3 ticks, kills without bound | saved secrets are what the next process reads and the rest of the file is as it was; migrations run once and in order, and the server serves only when none is due; a wait is long enough; no payload is accepted twice |

Why the bounds are enough. Two builds of one product are what every race on an entry, a
row or a directory needs: a build and its successor. Two products under two names are
what a name passing from one to another needs. Two clients are two triggers, or a
trigger and a cancellation, at once; a cancellation changes nothing a second one reads.
One fault covers every point of every operation; a second kill would meet the states
that a first one leaves, which are already initial for what follows, and what several
faults do together is proved (section 4). Four publications with settings 1 and 2 fill,
exceed and shorten the history and leave snapshots to restore between them. Lists of two
pairs include every pair of lines, which is what a link in the way of a directory takes;
repetitions and order do not matter to the code. Three writes with room for two include
a full channel followed by a later line. Four repo RPMs exceed the three kept, and ten
ticks are four generations, a publication and a generation, or three publications of one
file more each. Two releases are what being built again, or in the wrong order, takes.
`build_live` has one product since no entry, row or name of one product delays another,
except `s.mu`, which its client and its goroutines contend for too. Two requests for
keys are an import and a deletion, or two imports, of one key, and files with two keys
make them meet over a second one; each product reads keys by itself, so one is enough. A
third row id would only let a key come back once more. In `server`, an address has state
of its own, so one is enough; two logins are what passing the check together takes, and
what using one payload twice takes; two texts of one solution share nothing but its age,
so that one is enough for what is said of each; the scaled times keep the relations of
the code (a block is shorter than the memory of failures, a payload is remembered longer
than its challenge is valid).

`repo_serial` looks at products without alias links (`Linked = {}`, for
instance one that targets only openEuler): with links, snapshots are cut short
(finding `repo_backup`). `repo_faults` has both kinds.

### 3.2 Runs that find a violation

Each is a statement of the code, its comments or its documentation that the code
does not keep; the finding in `PROJECT.json` quotes it.

| run | what happens |
|---|---|
| `repo_overlap` | a repo RPM generated between RemoveAll and Rename makes the rename fail, and all snapshots go with staging; a rollback that puts production back at that point does the same |
| `repo_backup` | the copy that becomes the snapshot ends at the first alias link |

Conditions in the other properties. Some properties are stated under a condition,
because the code does something else without it. Each is visible in the
model by dropping the condition:

| property | condition | without it |
|---|---|---|
| `CancelReachesBuild` | the build asked for is still in the pipeline | a later build of the same product is cancelled instead (`build_service.go:186`) |
| `BusyProductFreed` | no kill (`build_service.go:55`) and no failing UPDATE (`pipeline.go:112`) | the row keeps an active status that nothing repairs, and HasRunningBuild refuses the product for ever |
| `NotifyTruthful`, `ActiveRowIsDriven` | the last UPDATE of the row did not fail | the webhook tells how the build ended, and the row does not |
| `WorkDirsRemoved` | no kill, and the removal of the directory, or the rename back that stands for it, does not fail | errors of `os.RemoveAll` are dropped (`pipeline.go:50`, `repo_service.go:214`), and so is that of the rename back (`repo_service.go:204`): what stays in `rollback-tmp` refuses every later rollback |
| `WorkDirsRemoved`, `ImplementsHistory` | operations meet only as `repo_serial` has it | whoever makes production anew, or takes it away, during a publication has the rename fail or the history lost (`repo_overlap`) |
| `ImplementsHistory` | no kill, no alias links, no file operation but the restore of a snapshot fails | every other failure is only logged or ignored and loses or tears something: the copy of repo-rpm (`stage_publish.go:28`), the rename of the history (`:43`), the snapshot (`:52`), the removal of an old snapshot, each by itself (`:106`), of an old repo RPM (`:147`) |
| `PublishedIsOwn` | what is published is also alone there, if staging could be wiped | `os.RemoveAll` before the build is not looked at (`pipeline.go:45`), so that the build is put over what was left |
| `RollbackLosesNothing` | the last step of Rollback | the history that could not be moved back is removed with the temporary directory (`repo_service.go:211`) |
| `TableIsKeyring` | the key is not `mixed` | a deletion whose gpg failed, or that met an import, leaves a key without row or a row without key (`gpg_service.go:45`), and so does an INSERT or DELETE that fails (`gpg_service.go:49`); the next import or deletion of the key repairs it |
| `SignsWhileListed` | the row the product named still exists | a product whose key is deleted, or deleted and imported again under another id, while its build is between product and key row, is published unsigned (`build_service.go:109`) |
| `SignsWhileListed` | the row could be read | any error of the read counts as no key: the build is published unsigned after a warning (`build_service.go:109`), which is what the property then says |
| `SignsWhileListed` | the key is not `mixed`, and no request is at work on it | the row of a key whose DELETE failed is listed without a key |
| `SecretsSurvive` | the save was not cut off | truncation is not undone: the next process reads what is left, or a file it takes for empty (`config.go:244`) |
| `SecretsSurvive` | the file is `Workable` | without an auth section nothing is saved and nothing is said; below an auth header without entries the secrets go into the next section; among entries not indented by two they make the file unreadable for the next start; an entry of the same name in another section gets the value instead; `auth:` as the last line without newline ends every start in a panic (`config.go:236`) |
| `PayloadOnce` | a login spends less time between verification and `usedMu` than a payload is remembered beyond its challenge (one minute) | the payload may have been forgotten (`challenge.go:42`) |
| `PayloadOnce` | payloads are told apart by their text | `Verify` "ensures it hasn't been used before" (`challenge.go:40`), but the table has the texts for keys, which VerifySolution decodes (base64 of JSON): one solution has many texts, and each of them is accepted once (`challenge.go:54`) |
| `PayloadOnce`, `WaitIsEnough` | one process | a restart forgets blocks and used payloads, while challenges stay valid |
| `TemplatesEnable` | the product has a key | `repotemplate.go:40` asks for signatures in every case |
| `TemplatesEnable` | the line is one directory deep | `stage_sign.go:20` and `stage_verify.go:16` do not reach the openEuler lines, which stay unsigned and unverified |
| `LatestServed` | versions in lexical order | 1.10 generated after 1.7, 1.8 and 1.9 is removed by the next publication (`stage_publish.go:140`) |
| `LatestServed` | copies in ticks of their own | among equal times the first name counts as the latest (`reporpm_service.go:188`) |
| `LatestServed` | the copy of repo-rpm is complete | its failure is only logged, and production is removed (`stage_publish.go:28`) |
| `LatestServed` | the file is not generated between the copy and the removal, nor is on the list of old files by then | it is removed with production (`stage_publish.go:57`), or as old (`stage_publish.go:146`) |
| `LatestServed` | the removal does not fail, the rename does not fail by itself, no kill between them | production is in part or wholly gone, and staging with it (`stage_publish.go:57`, `:67`) |
| `LatestServed` | no rollback since | the repo RPMs are those of the snapshot (`repo_service.go:202`) |
| `SubscriberReleased` | subscribed before Close | a later subscriber waits for ever (`log.go:60`) |
| `TailComplete` | what follows the subscription | what is logged between the replay and the subscription reaches no client (`ws_handler.go:72`) |
| `BuildsOnlyNew` | no two checks overlapped | two checks read the same row and build one release twice (`monitor_service.go:76`) |
| `BuildsOnlyNew` | no UPDATE of a release failed | its error is dropped and the build is started; the next check finds the old row and builds the release again (`monitor_service.go:73`) |
| `BuildsOnlyNew` | no release was withdrawn, no answer was empty | an older release differs from the row, too, and so does any release from a row that an empty answer has overwritten (`monitor_service.go:76`) |
| `BuildsOnlyNew`, all three | … since a check last ended alone with the newest release the latest and on record | such a check repairs the row |
| `LatestBuilt` | no check that needed a build failed to start it | a release found while the product is building is recorded and never built (`monitor_service.go:77`); the same after a kill between the two |

More that the models show is in no property:

* production is absent between RemoveAll and Rename (`stage_publish.go:57`);
* no alias link is ever verified, since `stage_verify.go:85` looks one directory too
  high;
* a client that connects after the row is inserted and before the writer is
  registered is told that the build finished (`ws_handler.go:65`);
* a kill inside Rollback leaves production in `<name>.rollback-tmp`, which refuses
  later rollbacks and which nothing puts back (`repo_service.go:194`); a kill of a
  publication between its first rename and the swap leaves the history in staging,
  which the next publication wipes;
* of a key file with several keys only the first is listed, and the others are in
  the keyring without a row until they are imported by themselves;
* a product that is duplicated, or turned into one from GitHub by an update, has no
  monitor, and `Create` ignores that its monitor could not be inserted.

### 3.3 Fairness

* `Scheduling` (BuildService): goroutines that can go on do (WF); a waiter for
  `sync.Mutex` gets it in the end, because its starvation mode hands it over (SF
  for `Release` and `CancelFire`). Nothing obliges anybody to trigger, cancel or
  edit.
* `CommandsReturn` says that stages return (WF on `StageReturns`). The code sets
  no timeout on `nfpm`, `createrepo_c` or `gpg`, so this is an assumption about
  them: `BusyProductFreed` and `AnnouncedUnlessCancelled` have it as a
  hypothesis, `FairSpec` includes it.
* `HangingSpec` does without: a stage returns for certain only if its context is
  cancelled, which kills its command (`exec.CommandContext`), or if it is
  StagePublish, which runs none. `CancelReleases` needs no more.
* `BuildLog`: handlers are scheduled and their clients read; the goroutine of the
  build registers and closes. No client need ever hang up.
* `Monitor`: the ticker ticks, the interval passes, and a check goes on. Reads of the
  row, requests to GitHub and UPDATEs of a release that are tried again and again
  succeed once, whoever tries (SF on each: a failure does not last for ever). Kills may
  be any number, but one day the server stays up, or the loop would never get to an
  answer.

No fairness is assumed of failures or requests, and none of kills but that they end.

## 4. What is proved

Every invariant and action property of the passing runs, for every value of the
constants that their assumptions allow, and both refinements. A run
shows that the hypotheses are met and the interesting states are reached; the
theorem, that no larger instance is different.

| module | theorem | property | hypotheses beyond the assumptions |
|---|---|---|---|
| `BuildServiceProofs` | `TypeCorrect`, `PipelineMutex`, `RowMutex`, `RowsDriven`, `NotifiesTruth`, `LogStaysOpen` | `TypeOK`, `OnePipelinePerProduct`, `OneActiveRow`, `ActiveRowIsDriven`, `NotifyTruthful`, `LogOpenWhileUsed` | none |
| | `CancelReaches`, `StagingTaken` | `CancelReachesBuild`, `StagingTakenOnlyByOwner` (action properties) | none |
| | `DirsShared` | `SharedDirNeedsEdit` (in no run) | none |
| | `Implementation` | `ImplementsLifecycle` (refinement of `BuildLifecycle`) | none |
| `RepoPublishProofs` | `RepoTypes` | `TypeOK` | none |
| | `RepoPublishesOwn` | `PublishedIsOwn` | no rollback meets a publication, as in `repo_faults` |
| | `RepoWorkDirsRemoved` | `WorkDirsRemoved` | a rollback meets at most other rollbacks, no kill, and `sweep`, `undo` and `clean` do not fail |
| | `RepoRollbackLosesNothing` | `RollbackLosesNothing` (action property) | none |
| | `RepoImplementsHistory` | `ImplementsHistory` (refinement of `RepoHistory`) | `Orderly`: the conditions of `repo_serial` (below) |
| `RepoTreeProofs` | `TreeTypes`, `TreePublishedConsistent`, `TreeTemplatesEnable`, `TreeAliasesLead` | `TypeOK`, `PublishedConsistent`, `TemplatesEnable`, `AliasesLead` | none |
| `RepoRpmsProofs` | `RpmsTypes`, `RpmsLatestServed` | `TypeOK`, `LatestServed` | none |
| `BuildLogProofs` | `LogTypes`, `NeverPanics`, `LogInOrder`, `LogTailComplete` | `TypeOK`, `NoPanic`, `InOrder`, `TailComplete` | none |
| `MonitorProofs` | `MonitorTypes`, `MonitorBuildsOnlyNew` | `TypeOK`, `BuildsOnlyNew` | none |
| `CatalogProofs` | `CatalogTypes`, `KeysListed`, `BuildsHaveTheirKey` | `TypeOK`, `TableIsKeyring`, `SignsWhileListed` | none |
| `ServerProofs` | `ServerTypes`, `ServerSecretsSurvive`, `ServerMigratesOnce`, `ServerWaitIsEnough`, `ServerPayloadOnce` | `TypeOK`, `SecretsSurvive`, `MigratedOnce`, `WaitIsEnough`, `PayloadOnce` | none |

The hypotheses on `Overlaps`, `MaxCrashes` and `Faults` are needed: a rollback that
meets a publication can take production away again (`repo_overlap` is one case), and
a kill or a removal that fails leaves work directories behind (section 3.2).
`Orderly` is what `repo_serial` says of its constants, and no more: only rollbacks
may meet, each other; no output has alias links (`repo_backup`); nothing but the
restore of a snapshot fails; and the server is not killed. Builds, repo RPMs,
requests, settings and the clock are arbitrary.

### 4.1 Assumptions

All are about constants, named `ASSUME`s that TLC evaluates in the runs:

* marks are no values: `NoneIsNothing` and `NamesAreNames` (BuildService), `Absence`
  and `TornIsNothing` (RepoPublish: the mark of an absent directory is no directory
  and no snapshot, those of half-copied and of mixed contents no build), `Empty` is no
  payload (LoginGuard), `Missing` is no file
  and `""` no word (Server, ConfigFile), idle marks elsewhere;
* `Decode` (LoginGuard) is any function from payloads to solutions, or to none;
* bounds are numbers, and sets of requests are finite where they are counted
  (`LoginGuard`: the handlers in flight);
* `SecretsAreWords`: the secrets' names are among the words a file may contain; the
  files an operator may write (`Given`) are arbitrary sequences of lines over them;
* `BackoffRemembered` (LoginGuard): a failure is remembered at least as long as the
  longest block lasts, which the constants of `ratelimit.go` satisfy;
* `ArchIsNoVersion` (RepoTree): no architecture has the name of a version, so that the
  directory of an architecture is never taken for an alias.

### 4.2 The arguments

None of the properties is inductive. What had to be added says why the code works.

**BuildService.** `OnePipelinePerProduct`, for one, needs that the entry which a
goroutine deletes is its own, which needs that the entry was free when the
goroutine was started, which needs that it stayed free between the check and the
launch, which is what holding `s.mu` is for. `CoreInv` (in `BuildServiceInv`) has
these parts:

* `LockInv`: `mu` is held by exactly the client inside TriggerBuild, and the entry
  of its product stays free;
* `InsertedInv`: the row of a request in flight has no goroutine yet;
* `EntryInv`: a goroutine is the entry of its product until it removes itself;
* `RowInv`: one active row per product, driven by somebody; none while a
  request has passed its checks;
* `LogInv`, `NotifyInv`: writers and outcomes follow the goroutine;
* `NameInv`: names are unique, which `SharedDirNeedsEdit` rests on.

`IInv` adds three parts. `AskInv`: the product that a cancellation has read stays
that of its row, and an entry leads to a build of its key (`CancelReachesBuild`).
`TakenInv`: a directory remembers only a build that has been there, and one still
running finds it under its own captured name, so whoever else writes it has
captured the same name, and two builds whose products both still had it would be
two pipelines of one product (`StagingTakenOnlyByOwner`). `StageInv` ties the status
of a row to the stage of its goroutine: the row is where the stage put it, or, if
its last UPDATE failed, where an earlier one did (`Reached`). The refinement needs
it, since `BuildLifecycle` lets a row advance only to the status that follows,
unless it lags behind. There is one lemma per action, each split by the parts of
the invariant, and one for what an UPDATE does (`UpdateDoes`); `CoreStep` puts them
together by cases over Next, and `LifecycleStep` shows that each step is a step of
`BuildLifecycle` or leaves `owner` and `status` alone.

**RepoPublish.** `RepoInv` types the three directories and says what each stage of
an operation finds (`Stages`). `OwnInv` adds that from the rename on production has
the output of the build that is publishing, alone or `Mixed`: Generate changes only
the repo RPMs of it. `SweptInv` adds who may have a work directory when: `tmp`
exists exactly while one rollback has production aside, and staging exactly while a
publication is under way. `RollbackLosesNothing` follows step by step: every rename
of a rollback has both its ends on disk, and only the last removal takes something
away.

The refinement of `RepoHistory` rests on `LedgerInv`, which keeps the books of what
an operation has moved where: what the pipeline has handed from production to
staging at each stage (`Handover`), what a rollback has put back (`PutBack`), that
every snapshot is older than the one being made (`Dated`), and that only what is
being copied or removed is torn (`Intact`). From it follows that one directory,
`Home`, has all the snapshots at any time (`OnlyHome`), so that the CHOOSE and the
CASE of the refinement mapping read plain values (`ReadsIs`: `Served` and `Kept`).
Then each step is looked at from both its ends (`Between`): the rename of staging is
`Publish`, pruning is `Prune`, trimming `TrimRpms`, the rename of a snapshot to
production `Restore`, making the repo-rpm directory or a file in it `AddRpm`, and
every other step leaves `Served` and `Kept` as they are.

**RepoTree.** `TreeInv` says for each phase what the tree has been filled with:
while building, which lines are packaged and indexed, alias links and files (`Building`,
`Filled`); while signing, which packages and repodata are signed and that repodata
describes the packages it found (`Final`). What the globs reach is derived
from the depth of paths (`BelowTwo`, `BelowParent`); that no link is in the way of
a directory rests on the table of the distro map, pair by pair.

**RepoRpms.** `Last` says where the file generated last is as long as nothing is amiss:
in production, in the copy that will replace it, or in what was generated while
production was away, which the rename then fails to replace. Wherever it is, it is later
than every other both by name and by time (`LastOf`), so neither renewed times nor
removal by age touch it (`KeptHasLast`).

**BuildLog.** `ChannelInv`: a channel is in the map exactly until it is closed
(`NeverPanics`). For the order, what a connection has got, then its channel, then
what will be written, is an increasing sequence. For completeness
(`TailInv`), a client that was never full has in hand or in its channel all
that was written since it subscribed.

**Monitor.** No version is newer than the newest (`Below`), whatever went amiss. As long
as nothing has, the row records the newest release that was built or a newer one, and a
check, which is alone, has read the row as it is (`Alone`); a check that ends settled
establishes this anew (`SettledAlone`).

**Catalog and GpgKeys.** Each request at work on a key is recorded with how far it
is; a key without requests is in the keyring exactly if it has a row unless it is
`mixed`, which a request becomes by failing at any of its steps (`FailRequest`).
`HasRead` ties what a build read of product and key row, or that it could not, to the
rows while they exist; ids are never used twice, so a row that is found again is the
same row.

**Server.** `ServerInv` has one part per concern. `GuardInv`: the failures of an
address plus the logins in flight stay below a bound, which makes the
back-off a function on a finite range. `WaitInv`: what is left of a block is at most
what the client was told, and both get less as fast. `PayloadInv`: a payload
that was accepted is remembered as long as any login that verified its
challenge can still look it up. `FileInv`: the file is one the process can read its
secrets from, unless it is being written. `MigrationInv`: what is applied is a
prefix. Below it are lemmas on `ConfigFile`, for files of any length: an edit in
place and an insertion keep the section of every other line, so
`PersistSaves` holds of every file that is `Editable` and `Readable`, where the run
takes one file of each shape.

### 4.3 What stays with TLC

* All liveness: `CancelReleases`, `BusyProductFreed`, `AnnouncedUnlessCancelled`,
  `SubscriberReleased`, `LatestRecorded`, `LatestBuilt`. The provers have neither
  ENABLED nor fairness.
* The two violations.

## 5. What is not modelled

* **The insides of tools**: nfpm, createrepo_c, gpg, rpm, HTTP. They succeed or fail.
  Of what gpg prints only which key comes first is modelled: `parseGPGKeys` also
  marks every key as having a secret, which the list of keys shows.
* **What an orderly shutdown does to builds**: it closes the database under them. For
  rows that is a kill, or updates that fail, both of which BuildService has.
* **Parts of the configuration**: environment variables over the file, an
  explicitly given path that does not exist, `hmac_key`, making directories, paths
  and durations.
* **Settings rows**: `rollback_keep_count` is a choice made anew at each
  publication in RepoPublish; the notification settings only filter a call.
* **Tokens and passwords** are the libraries' (JWT, bcrypt); the middleware only
  reads them.
* **Import and export of products, dashboard, routes, front end, scripts**: they
  read, or call the operations that are modelled (an import is one `Create` after
  the other, which Catalog may interleave with anything). What the log view of the
  front end shows is display.

The status of every component, with the reason, is in `PROJECT.json`.

## 6. Plan

Done, in this order, the most consequential first: BuildLifecycle, BuildService
and its proofs; RepoHistory and RepoPublish; BuildLog and its proofs; Monitor;
RepoRpms; RepoTree; GpgKeys and Catalog; ConfigFile, LoginGuard and Server; failing
updates in BuildService; the proofs of every safety property that a passing run
checks and of both refinements.

Next:

* modelling more: the orderly shutdown within `BuildService`, and settings that
  change while `RepoPublish` reads them.
