---------------------------- MODULE BuildService ----------------------------
(***************************************************************************)
(* service.BuildService with the pipeline goroutines it starts: the        *)
(* requests that trigger and cancel builds, the rows of the products and   *)
(* builds tables they read and write, the in-memory maps guarded by s.mu   *)
(* and s.writerMu, the staging directories, and a server that may be       *)
(* killed and restarted by systemd at any point.                           *)
(*                                                                         *)
(* A step is atomic when it touches one piece of shared state, or when     *)
(* everything it reads is protected by s.mu.  What the stages put into a   *)
(* directory is left to RepoPublish; here a staging directory only         *)
(* remembers the build that created it.                                    *)
(***************************************************************************)
EXTENDS Naturals, FiniteSets

CONSTANTS
    Product,     \* ids of the products table
    Build,       \* ids of the builds table; bounds the number of triggers
    Name,        \* product names, which are also directory names
    Client,      \* concurrent callers: API handlers, webhooks, monitor loop
    MaxCancels,  \* bound on the cancellations in flight
    Faults,      \* what may go wrong: the server is killed, an UPDATE fails
    MaxFaults,   \* bound on how often
    None         \* no value

ASSUME NoneIsNothing == None \notin Product \cup Build \cup Name \cup Client
ASSUME NamesAreNames == {"unborn", "gone"} \cap Name = {}
ASSUME Bounds == MaxCancels \in Nat /\ MaxFaults \in Nat
ASSUME FaultsAreFaults == Faults \subseteq {"kill", "update"}

VARIABLES
    name,        \* products: name of the row, "unborn" before, "gone" after it exists
    owner,       \* builds.product_id
    status,      \* builds.status, or "absent" before and "deleted" after the row exists
    stale,       \* history: builds whose row was not written when it last should have been
    running,     \* s.running: the build whose cancel function is stored, by product
    logWriters,  \* s.logWriters: builds with a registered log writer
    logOpen,     \* builds whose log file is open
    cancelled,   \* builds whose context is cancelled
    mu,          \* holder of s.mu between two steps
    at,          \* where each client is
    tgt,         \* product the client's call is about
    job,         \* build row the client inserted, or asked to cancel
    pc,          \* where each pipeline goroutine is
    stage,       \* index of the stage it is about to run or running
    dir,         \* product name captured when it was triggered
    result,      \* what Pipeline.Run returned
    staging,     \* build that created <name>.staging, by name
    notified,    \* webhook event sent for the build
    faults       \* how often something went wrong so far

db    == <<name, owner, status, stale>>
maps  == <<running, logWriters, logOpen, cancelled>>
calls == <<mu, at, tgt, job>>
flow  == <<pc, stage, dir, result>>
vars  == <<db, maps, calls, flow, staging, notified, faults>>

Lifecycle == INSTANCE BuildLifecycle

Active == Lifecycle!Active
Status == Lifecycle!Status

(* builds.status written when stage i begins (pipeline.go). *)
StageStatus_Swapped == <<"building", "publishing", "signing", "verifying">>   \* Mutant

StageStatus == <<"building", "signing", "publishing", "verifying">>
BuildStage == 1
PublishStage == 3
LastStage == 4

(* The goroutine exists and has not yet removed itself from s.running. *)
HoldsEntry == {"start", "check", "work", "unstage", "judge", "notify", "release"}

(* The goroutine is inside Pipeline.Run. *)
InRun == {"start", "check", "work", "unstage"}

(* Mutant: deleted rows are still found. *)
Exists_EvenGone(p) == name[p] # "unborn"

Exists(p) == name[p] \in Name

(* Nobody holds s.mu. *)
LockFree_NoMutex == TRUE   \* Mutant: s.mu is not taken

LockFree == mu = None

-----------------------------------------------------------------------------

Init ==
    /\ name = [p \in Product |-> "unborn"]
    /\ owner = [b \in Build |-> None]
    /\ status = [b \in Build |-> "absent"]
    /\ stale = {}
    /\ running = [p \in Product |-> None]
    /\ logWriters = {} /\ logOpen = {} /\ cancelled = {}
    /\ mu = None
    /\ at = [c \in Client |-> "idle"]
    /\ tgt = [c \in Client |-> None]
    /\ job = [c \in Client |-> None]
    /\ pc = [b \in Build |-> "none"]
    /\ stage = [b \in Build |-> 1]
    /\ dir = [b \in Build |-> None]
    /\ result = [b \in Build |-> "none"]
    /\ staging = [n \in Name |-> None]
    /\ notified = [b \in Build |-> "none"]
    /\ faults = 0

-----------------------------------------------------------------------------
(* Products: rows come, change their name and go while builds run.  The
   name is UNIQUE among the rows; deleting a row deletes its builds
   (ON DELETE CASCADE) and tells nothing to the build service.              *)

NameFree(n) == \A q \in Product : name[q] # n

CreateProduct(p, n) ==
    /\ name[p] = "unborn"
    /\ NameFree(n)
    /\ name' = [name EXCEPT ![p] = n]
    /\ UNCHANGED <<owner, status, stale, maps, calls, flow, staging, notified, faults>>

RenameProduct(p, n) ==
    /\ Exists(p)
    /\ NameFree(n)
    /\ name' = [name EXCEPT ![p] = n]
    /\ UNCHANGED <<owner, status, stale, maps, calls, flow, staging, notified, faults>>

DeleteProduct(p) ==
    /\ Exists(p)
    /\ name' = [name EXCEPT ![p] = "gone"]
    /\ status' = [b \in Build |-> IF owner[b] = p /\ status[b] # "absent"
                                    THEN "deleted" ELSE status[b]]
    /\ UNCHANGED <<owner, stale, maps, calls, flow, staging, notified, faults>>

-----------------------------------------------------------------------------
(* TriggerBuild, which holds s.mu from its first line to its return.  A
   refused request changes nothing and is no step of its own.               *)

(* Mutants: "pending" is forgotten in the status list; there is no list. *)
HasRunningBuild_NotPending(p) ==
    \E b \in Build : owner[b] = p /\ status[b] \in Active \ {"pending"}

HasRunningBuild_AnyRow(p) == \E b \in Build : owner[b] = p /\ status[b] # "deleted"

HasRunningBuild(p) == \E b \in Build : owner[b] = p /\ status[b] \in Active

Refused_RowsOnly(p) == HasRunningBuild(p)   \* Mutant: s.running is not consulted

Refused(p) == running[p] # None \/ HasRunningBuild(p)

(* The two checks.  Some row id must be left: the bound on triggers. *)
TriggerCheck(c, p) ==
    /\ at[c] = "idle"
    /\ LockFree
    /\ ~Refused(p)
    /\ \E b \in Build : status[b] = "absent"
    /\ mu' = c
    /\ at' = [at EXCEPT ![c] = "checked"]
    /\ tgt' = [tgt EXCEPT ![c] = p]
    /\ UNCHANGED <<db, maps, job, flow, staging, notified, faults>>

(* The product is gone (GetByID, or the foreign key of the INSERT). *)
TriggerNoProduct(c) ==
    /\ at[c] = "checked"
    /\ ~Exists(tgt[c])
    /\ mu' = None
    /\ at' = [at EXCEPT ![c] = "idle"]
    /\ tgt' = [tgt EXCEPT ![c] = None]
    /\ UNCHANGED <<db, maps, job, flow, staging, notified, faults>>

(* The product row is read, its name captured, the build row inserted. *)
TriggerInsert(c, b) ==
    /\ at[c] = "checked"
    /\ Exists(tgt[c])
    /\ status[b] = "absent"
    /\ owner' = [owner EXCEPT ![b] = tgt[c]]
    /\ status' = [status EXCEPT ![b] = "pending"]
    /\ dir' = [dir EXCEPT ![b] = name[tgt[c]]]
    /\ at' = [at EXCEPT ![c] = "inserted"]
    /\ job' = [job EXCEPT ![c] = b]
    /\ UNCHANGED <<name, stale, maps, mu, tgt, pc, stage, result, staging, notified, faults>>

CallReturns(c) ==
    /\ at' = [at EXCEPT ![c] = "idle"]
    /\ tgt' = [tgt EXCEPT ![c] = None]
    /\ job' = [job EXCEPT ![c] = None]

(* UPDATE builds SET status = s WHERE id = b: no row, no effect; and no test
   of the status the row has.  It may fail, which nobody looks at.          *)
RowUpdate(b, s) ==
    IF status[b] = "deleted" THEN UNCHANGED <<status, stale, faults>>
    ELSE \/ /\ status' = [status EXCEPT ![b] = s]
            /\ stale' = stale \ {b} /\ UNCHANGED faults
         \/ /\ "update" \in Faults /\ faults < MaxFaults
            /\ faults' = faults + 1 /\ stale' = stale \cup {b}
            /\ UNCHANGED status

(* Mutant: the row is left "pending". *)
TriggerNoLog_RowStays(c) ==
    /\ at[c] = "inserted"
    /\ mu' = None
    /\ CallReturns(c)
    /\ UNCHANGED <<db, maps, flow, staging, notified, faults>>

(* NewLogWriter fails: the row is finished at once. *)
TriggerNoLog(c) ==
    /\ at[c] = "inserted"
    /\ RowUpdate(job[c], "failed")
    /\ mu' = None
    /\ CallReturns(c)
    /\ UNCHANGED <<name, owner, maps, flow, staging, notified>>

(* The writer and the cancel function are stored, the goroutine started. *)
TriggerLaunch(c) ==
    /\ at[c] = "inserted"
    /\ logWriters' = logWriters \cup {job[c]}
    /\ logOpen' = logOpen \cup {job[c]}
    /\ running' = [running EXCEPT ![tgt[c]] = job[c]]
    /\ pc' = [pc EXCEPT ![job[c]] = "start"]
    /\ mu' = None
    /\ CallReturns(c)
    /\ UNCHANGED <<db, cancelled, stage, dir, result, staging, notified, faults>>

-----------------------------------------------------------------------------
(* CancelBuild: the row is read, then s.mu taken and the entry looked up by
   the product of the row.  MaxCancels bounds how many are in between.      *)

CancelRead(c, b) ==
    /\ at[c] = "idle"
    /\ status[b] \notin {"absent", "deleted"}
    /\ Cardinality({d \in Client : at[d] = "read"}) < MaxCancels
    /\ at' = [at EXCEPT ![c] = "read"]
    /\ tgt' = [tgt EXCEPT ![c] = owner[b]]
    /\ job' = [job EXCEPT ![c] = b]
    /\ UNCHANGED <<db, maps, mu, flow, staging, notified, faults>>

(* What is cancelled is the context of whatever build is stored there. *)
CancelFire(c) ==
    /\ at[c] = "read"
    /\ LockFree
    /\ cancelled' = cancelled \cup ({running[tgt[c]]} \ {None})
    /\ CallReturns(c)
    /\ UNCHANGED <<db, running, logWriters, logOpen, mu, flow, staging, notified, faults>>

-----------------------------------------------------------------------------
(* The pipeline goroutine of build b: Pipeline.Run, then the notification,
   then the deferred clean-up.                                              *)

(* Wipe and create <name>.staging. *)
RunStart(b) ==
    /\ pc[b] = "start"
    /\ staging' = [staging EXCEPT ![dir[b]] = b]
    /\ pc' = [pc EXCEPT ![b] = "check"]
    /\ UNCHANGED <<db, maps, calls, stage, dir, result, notified, faults>>

(* MkdirAll fails, after the wipe or because nothing there can be changed;
   the deferred RemoveAll is not set yet.                                   *)
RunNoStaging(b) ==
    /\ pc[b] = "start"
    /\ staging' \in {staging, [staging EXCEPT ![dir[b]] = None]}
    /\ RowUpdate(b, "failed")
    /\ result' = [result EXCEPT ![b] = "error"]
    /\ pc' = [pc EXCEPT ![b] = "judge"]
    /\ UNCHANGED <<name, owner, maps, calls, stage, dir, notified>>

(* The select before a stage: a cancelled context ends the run ... *)
StageCancelled(b) ==
    /\ pc[b] = "check"
    /\ b \in cancelled
    /\ RowUpdate(b, "cancelled")
    /\ result' = [result EXCEPT ![b] = "error"]
    /\ pc' = [pc EXCEPT ![b] = "unstage"]
    /\ UNCHANGED <<name, owner, maps, calls, stage, dir, staging, notified>>

(* ... and otherwise the stage begins. *)
StageBegin(b) ==
    /\ pc[b] = "check"
    /\ b \notin cancelled
    /\ RowUpdate(b, StageStatus[stage[b]])
    /\ pc' = [pc EXCEPT ![b] = "work"]
    /\ UNCHANGED <<name, owner, maps, calls, stage, dir, result, staging, notified>>

(* The staging directory after a completed stage: StageBuild creates its
   directories again if they were removed, StagePublish renames staging to
   production.                                                              *)
StagingAfter(b) ==
    CASE stage[b] = BuildStage /\ staging[dir[b]] = None ->
            [staging EXCEPT ![dir[b]] = b]
      [] stage[b] = PublishStage -> [staging EXCEPT ![dir[b]] = None]
      [] OTHER -> staging

(* A stage returns nil; the rename of StagePublish needs a directory. *)
StageDone(b) ==
    /\ pc[b] = "work"
    /\ stage[b] = PublishStage => staging[dir[b]] # None
    /\ staging' = StagingAfter(b)
    /\ \/ /\ stage[b] < LastStage
          /\ stage' = [stage EXCEPT ![b] = @ + 1]
          /\ pc' = [pc EXCEPT ![b] = "check"]
          /\ UNCHANGED <<status, stale, faults, result>>
       \/ /\ stage[b] = LastStage
          /\ RowUpdate(b, "success")
          /\ result' = [result EXCEPT ![b] = "nil"]
          /\ pc' = [pc EXCEPT ![b] = "unstage"]
          /\ UNCHANGED stage
    /\ UNCHANGED <<name, owner, maps, calls, dir, notified>>

(* A stage returns an error: its own, or that of a command killed with its
   context.                                                                 *)
StageFails(b) ==
    /\ pc[b] = "work"
    /\ RowUpdate(b, "failed")
    /\ result' = [result EXCEPT ![b] = "error"]
    /\ pc' = [pc EXCEPT ![b] = "unstage"]
    /\ UNCHANGED <<name, owner, maps, calls, stage, dir, staging, notified>>

(* The deferred os.RemoveAll(stagingDir). *)
Unstage(b) ==
    /\ pc[b] = "unstage"
    /\ staging' = [staging EXCEPT ![dir[b]] = None]
    /\ pc' = [pc EXCEPT ![b] = "judge"]
    /\ UNCHANGED <<db, maps, calls, stage, dir, result, notified, faults>>

(* cancelled := ctx.Err() != nil decides whether the webhook is called. *)
SkipNotify_Never(b) == FALSE                                      \* Mutant
SkipNotify_OnError(b) == b \in cancelled \/ result[b] = "error"   \* Mutant

SkipNotify(b) == b \in cancelled

Judge(b) ==
    /\ pc[b] = "judge"
    /\ pc' = [pc EXCEPT ![b] = IF SkipNotify(b) THEN "release" ELSE "notify"]
    /\ UNCHANGED <<db, maps, calls, stage, dir, result, staging, notified, faults>>

Event(b) == IF result[b] = "nil" THEN "build.success" ELSE "build.failed"

Notify(b) ==
    /\ pc[b] = "notify"
    /\ notified' = [notified EXCEPT ![b] = Event(b)]
    /\ pc' = [pc EXCEPT ![b] = "release"]
    /\ UNCHANGED <<db, maps, calls, stage, dir, result, staging, faults>>

(* delete(s.running, req.ProductID) *)
Release(b) ==
    /\ pc[b] = "release"
    /\ LockFree
    /\ running' = [running EXCEPT ![owner[b]] = None]
    /\ pc' = [pc EXCEPT ![b] = "unlist"]
    /\ UNCHANGED <<db, logWriters, logOpen, cancelled, calls, stage, dir, result,
                   staging, notified, faults>>

(* Mutants: the log is closed first; the writer is never deleted. *)
Unlist_ClosesFirst(b) ==
    /\ pc[b] = "unlist"
    /\ logOpen' = logOpen \ {b}
    /\ pc' = [pc EXCEPT ![b] = "close"]
    /\ UNCHANGED <<db, running, logWriters, cancelled, calls, stage, dir, result,
                   staging, notified, faults>>

Unlist_Forgets(b) ==
    /\ pc[b] = "unlist"
    /\ pc' = [pc EXCEPT ![b] = "close"]
    /\ UNCHANGED <<db, maps, calls, stage, dir, result, staging, notified, faults>>

(* delete(s.logWriters, buildID) *)
Unlist(b) ==
    /\ pc[b] = "unlist"
    /\ logWriters' = logWriters \ {b}
    /\ pc' = [pc EXCEPT ![b] = "close"]
    /\ UNCHANGED <<db, running, logOpen, cancelled, calls, stage, dir, result,
                   staging, notified, faults>>

(* A goroutine that is over has no local variables and no context. *)
Forget(over) ==
    /\ cancelled' = cancelled \ over
    /\ stage' = [b \in Build |-> IF b \in over THEN BuildStage ELSE stage[b]]
    /\ dir' = [b \in Build |-> IF b \in over THEN None ELSE dir[b]]
    /\ result' = [b \in Build |-> IF b \in over THEN "none" ELSE result[b]]

(* logWriter.Close(), the last thing the goroutine does. *)
CloseLog(b) ==
    /\ pc[b] = "close"
    /\ logOpen' = logOpen \ {b}
    /\ pc' = [pc EXCEPT ![b] = "done"]
    /\ Forget({b})
    /\ UNCHANGED <<db, running, logWriters, calls, staging, notified, faults>>

-----------------------------------------------------------------------------
(* The process dies and starts again: memory is lost, the database and the
   directories stay, and nothing looks at the rows of interrupted builds.   *)
Interrupted(b) ==
    \/ pc[b] \notin {"none", "done"}
    \/ pc[b] = "none" /\ status[b] \in Active

CrashRestart ==
    /\ "kill" \in Faults /\ faults < MaxFaults
    /\ faults' = faults + 1
    /\ running' = [p \in Product |-> None]
    /\ logWriters' = {} /\ logOpen' = {}
    /\ mu' = None
    /\ at' = [c \in Client |-> "idle"]
    /\ tgt' = [c \in Client |-> None]
    /\ job' = [c \in Client |-> None]
    /\ pc' = [b \in Build |-> IF Interrupted(b) THEN "killed" ELSE pc[b]]
    /\ Forget(Build)
    /\ UNCHANGED <<db, staging, notified>>

-----------------------------------------------------------------------------

ProductStep ==
    \E p \in Product :
        \/ \E n \in Name : CreateProduct(p, n) \/ RenameProduct(p, n)
        \/ DeleteProduct(p)

ClientStep(c) ==
    \/ \E p \in Product : TriggerCheck(c, p)
    \/ TriggerNoProduct(c)
    \/ \E b \in Build : TriggerInsert(c, b) \/ CancelRead(c, b)
    \/ TriggerNoLog(c) \/ TriggerLaunch(c)
    \/ CancelFire(c)

PipelineStep(b) ==
    \/ RunStart(b) \/ RunNoStaging(b)
    \/ StageCancelled(b) \/ StageBegin(b) \/ StageDone(b) \/ StageFails(b)
    \/ Unstage(b) \/ Judge(b) \/ Notify(b)
    \/ Release(b) \/ Unlist(b) \/ CloseLog(b)

Next ==
    \/ ProductStep
    \/ \E c \in Client : ClientStep(c)
    \/ \E b \in Build : PipelineStep(b)
    \/ CrashRestart

Spec == Init /\ [][Next]_vars

-----------------------------------------------------------------------------
(* Fairness.  Goroutines are scheduled, and sync.Mutex hands itself over to
   a waiter in bounded time (its starvation mode), hence SF where s.mu is
   awaited.  A stage is fair by itself only in StagePublish, which runs no
   command; the others end for sure once their context is cancelled, which
   kills the command.                                                       *)

LocalStep(b) ==
    \/ RunStart(b) \/ RunNoStaging(b) \/ StageCancelled(b) \/ StageBegin(b)
    \/ Unstage(b) \/ Judge(b) \/ Notify(b) \/ Unlist(b) \/ CloseLog(b)

StageReturns(b) == StageDone(b) \/ StageFails(b)

InsideTrigger(c) ==
    \/ TriggerNoProduct(c) \/ TriggerNoLog(c) \/ TriggerLaunch(c)
    \/ \E b \in Build : TriggerInsert(c, b)

Scheduling ==
    /\ \A b \in Build : WF_vars(LocalStep(b)) /\ SF_vars(Release(b))
    /\ \A c \in Client : WF_vars(InsideTrigger(c)) /\ SF_vars(CancelFire(c))

(* Every command of a stage returns sooner or later. *)
CommandsReturn == \A b \in Build : WF_vars(StageReturns(b))

FairSpec == Spec /\ Scheduling /\ CommandsReturn

(* A command may hang until its context is cancelled. *)
HangingSpec ==
    /\ Spec /\ Scheduling
    /\ \A b \in Build : WF_vars((b \in cancelled \/ stage[b] = PublishStage)
                                /\ StageReturns(b))

-----------------------------------------------------------------------------
(* Properties *)

(* Every variable has values of its kind. *)
TypeOK ==
    /\ name \in [Product -> Name \cup {"unborn", "gone"}]
    /\ owner \in [Build -> Product \cup {None}]
    /\ status \in [Build -> Status]
    /\ stale \in SUBSET Build
    /\ running \in [Product -> Build \cup {None}]
    /\ logWriters \in SUBSET Build /\ logOpen \in SUBSET Build
    /\ cancelled \in SUBSET Build
    /\ mu \in Client \cup {None}
    /\ at \in [Client -> {"idle", "checked", "inserted", "read"}]
    /\ tgt \in [Client -> Product \cup {None}]
    /\ job \in [Client -> Build \cup {None}]
    /\ pc \in [Build -> HoldsEntry \cup {"none", "unlist", "close", "done", "killed"}]
    /\ stage \in [Build -> 1..LastStage]
    /\ dir \in [Build -> Name \cup {None}]
    /\ result \in [Build -> {"none", "nil", "error"}]
    /\ staging \in [Name -> Build \cup {None}]
    /\ notified \in [Build -> {"none", "build.success", "build.failed"}]
    /\ faults \in Nat

(* TriggerBuild's refusal "a build is already running for this product"
   works: a product never has two goroutines between their start and their
   removal from s.running, although the removal is by product and requests,
   deletions and cancellations interleave.                                  *)
OnePipelinePerProduct ==
    \A b1, b2 \in Build :
        pc[b1] \in HoldsEntry /\ pc[b2] \in HoldsEntry /\ owner[b1] = owner[b2]
            => b1 = b2

(* A product never has two rows in a status HasRunningBuild counts, before
   or after a restart that forgot s.running.                                *)
OneActiveRow ==
    \A b1, b2 \in Build :
        status[b1] \in Active /\ status[b2] \in Active /\ owner[b1] = owner[b2]
            => b1 = b2

(* As long as the server is not killed and no UPDATE fails, somebody is about
   to move every row that blocks its product: the goroutine inside
   Pipeline.Run, or the request that inserted it.                           *)
ActiveRowIsDriven ==
    \A b \in Build : status[b] \in Active =>
        \/ pc[b] \in {"start", "check", "work", "killed"}
        \/ \E c \in Client : at[c] = "inserted" /\ job[c] = b
        \/ b \in stale

(* Two pipelines work in the same directories only if the product of one of
   them was renamed or deleted after its trigger: s.running is keyed by
   product id, the directories by the captured name.                        *)
StillNamed(b) == owner[b] # None /\ name[owner[b]] = dir[b]

Sharing(b1, b2) ==
    b1 # b2 /\ dir[b1] = dir[b2] /\ pc[b1] \in InRun /\ pc[b2] \in InRun

SharedDirNeedsEdit ==
    \A b1, b2 \in Build : Sharing(b1, b2) => ~StillNamed(b1) \/ ~StillNamed(b2)

(* A staging directory in use is taken away from its build only by the build
   itself or by a build whose product was renamed or deleted (or is sharing
   with such a one): the deferred RemoveAll of a build whose row is already
   terminal never hits the staging of its successor.                        *)
StagingTakenOnlyByOwner ==
    [][\A n \in Name, b \in Build :
          /\ staging[n] = b /\ pc[b] \in InRun /\ staging'[n] # b
          /\ pc'[b] = pc[b]
          => \E b2 \in Build : b2 # b /\ dir[b2] = n /\ pc'[b2] # pc[b2]
                               /\ (~StillNamed(b) \/ ~StillNamed(b2))]_vars

(* The webhook tells what the row says: success for a row that succeeded,
   failure for one that failed, nothing for one recorded as cancelled, unless
   the last UPDATE of the row failed.                                       *)
NotifyTruthful ==
    \A b \in Build \ stale :
        /\ notified[b] = "build.success" => status[b] \in {"success", "deleted"}
        /\ notified[b] = "build.failed" => status[b] \in {"failed", "deleted"}

(* The log file is open whenever the pipeline writes to it or GetLogWriter
   can hand it to a subscriber: it is unlisted before it is closed.         *)
LogOpenWhileUsed ==
    \A b \in Build : b \in logWriters \/ pc[b] \in InRun => b \in logOpen

(* "build is not running" is never the answer for a build in the pipeline: a
   cancellation cancels the build that was asked for if it is there, and
   otherwise nothing but a later build of the same product, although entries
   are found and removed by product.                                        *)
CancelReachesBuild ==
    [][\A c \in Client : at[c] = "read" /\ at'[c] = "idle" /\ faults' = faults =>
          IF pc[job[c]] \in HoldsEntry
            THEN job[c] \in cancelled' /\ cancelled' \subseteq cancelled \cup {job[c]}
            ELSE \A b \in cancelled' \ cancelled : owner[b] = owner[job[c]]]_vars

(* The rows live as BuildLifecycle says. *)
ImplementsLifecycle == Lifecycle!Spec

Busy(p) == running[p] # None \/ HasRunningBuild(p)

(* "a build is already running" is no answer for ever: a product that refuses
   triggers accepts them again, if the commands of its builds return.       *)
BusyProductFreed == CommandsReturn => \A p \in Product : Busy(p) ~> ~Busy(p)

(* Every build that was started is announced unless it was cancelled, if
   its commands return.                                                     *)
AnnouncedUnlessCancelled ==
    CommandsReturn =>
        \A b \in Build : (pc[b] = "start") ~> (notified[b] # "none" \/ b \in cancelled)

(* A cancelled build gives everything back, even when its command hangs. *)
CancelReleases ==
    \A b \in Build : (b \in cancelled) ~> (pc[b] = "done" /\ b \notin logWriters)
=============================================================================
