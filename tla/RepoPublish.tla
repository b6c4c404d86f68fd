----------------------------- MODULE RepoPublish -----------------------------
(***************************************************************************)
(* The directories of one product under repo_root and the three operations *)
(* that change them without knowing of each other: the pipeline of a build *)
(* (StagePublish and the deferred removal of staging), RepoService.Rollback*)
(* and RepoRPMService.Generate.  Every rename, recursive copy and          *)
(* recursive removal is a step; copies and removals are seen half done.    *)
(*                                                                         *)
(*   <name>               production, served by the web server             *)
(*   <name>/.rollback     snapshots by timestamp                           *)
(*   <name>/repo-rpm      generated repo RPMs                              *)
(*   <name>.staging       where the pipeline builds                        *)
(*   <name>.rollback-tmp  where Rollback puts production aside             *)
(***************************************************************************)
EXTENDS Naturals, FiniteSets

CONSTANTS
    Build,       \* builds of the product; bounds the number of publications
    Linked,      \* builds whose output has alias links to directories (rhel/9 -> ../el9)
    Rpm,         \* repo RPM files
    Handler,     \* concurrent Rollback requests
    KeepCounts,  \* values of the rollback_keep_count setting
    KeepRpms,    \* repo RPMs that survive a publication (3 in the code)
    MaxTime,     \* bound on the clock that names snapshots
    MaxCrashes,  \* bound on the kills of the server
    Faults,      \* file operations that may fail by themselves
    Overlaps,    \* pairs of operations that may overlap on the product
    NoRepo,      \* an absent directory
    NoDir,       \* an absent repo-rpm subdirectory
    Torn,        \* contents left by a copy or removal that did not finish
    Mixed        \* contents built over what a failed removal left

ASSUME Bounds ==
    /\ Linked \subseteq Build
    /\ KeepCounts \subseteq Nat \ {0} /\ KeepRpms \in Nat
    /\ MaxTime \in Nat /\ MaxCrashes \in Nat
ASSUME FaultNames ==
    Faults \subseteq {"wipe", "preserve", "history", "backup", "remove", "swap", "prune", "trim",
                      "sweep", "restore", "undo", "rejoin", "clean"}

VARIABLES
    prod, staging, tmp,  \* the three directories
    pub,                 \* where the pipeline is
    pb,                  \* build it runs
    stamp,               \* snapshot it makes for the swap, or 0
    rb,                  \* where each Rollback is
    snap,                \* snapshot it restores
    gen,                 \* where Generate is
    used,                \* builds run so far
    now, crashes

dirs == <<prod, staging, tmp>>
pvars == <<pub, pb, stamp>>
rvars == <<rb, snap>>
vars == <<dirs, pvars, rvars, gen, used, now, crashes>>

Stamp == 1..MaxTime

H == INSTANCE RepoHistory WITH live <- NoRepo, past <- <<>>

(* A directory: build output, repo-rpm and .rollback (empty and absent
   .rollback are the same to every operation).                              *)
Dir(out, rpms, hist) == [out |-> out, rpms |-> rpms, hist |-> hist]

(* What a snapshot holds: everything but .rollback. *)
Tree_WithHistory(d) == d   \* Mutant: .rollback is not excluded from the copy

Tree(d) == [out |-> d.out, rpms |-> d.rpms]

Out == Build \cup {NoRepo, Torn, Mixed}

Repo == [out : Out, rpms : (SUBSET Rpm) \cup {NoDir}]

History == UNION {[ts -> Repo] : ts \in SUBSET Stamp}

Directory == [out : Out, rpms : (SUBSET Rpm) \cup {NoDir}, hist : History]

ASSUME Absence == NoRepo \notin Directory \cup Repo
ASSUME TornIsNothing == {Torn, Mixed} \cap (Build \cup {NoRepo}) = {}

Absent(d) == d = NoRepo

Fails(op) == op \in Faults

(* What os.RemoveAll may leave of a directory when it fails: it removes what
   it can.                                                                  *)
Rests(d) == {Dir(o, r, x) : o \in {d.out, Torn}, r \in {d.rpms, NoDir}, x \in {d.hist, H!Empty}}

(* Repo RPMs after a copy that fails half way, and after copying more. *)
Fewer(rs) == IF rs = NoDir THEN {NoDir} ELSE (SUBSET rs) \cup {NoDir}

Both(rs, more) == IF rs = NoDir THEN more ELSE IF more = NoDir THEN rs ELSE rs \cup more

(* A history after the removal of all but the k latest, each by itself: any
   of the others may stay, whole or torn.                                   *)
Spoilt(f, gone, torn) ==
    [t \in DOMAIN f \ gone |-> IF t \in torn THEN [f[t] EXCEPT !.out = Torn] ELSE f[t]]

Leavings(f, k) ==
    LET old == DOMAIN f \ DOMAIN H!Latest(f, k)
    IN  {Spoilt(f, gone, torn) : gone \in SUBSET old, torn \in SUBSET old}

-----------------------------------------------------------------------------

Init ==
    /\ prod = NoRepo /\ staging = NoRepo /\ tmp = NoRepo
    /\ pub = "idle" /\ pb = NoRepo /\ stamp = 0
    /\ rb = [h \in Handler |-> "idle"] /\ snap = [h \in Handler |-> 0]
    /\ gen = "idle"
    /\ used = {} /\ now = 0 /\ crashes = 0

(* Nothing in the code keeps these operations apart; Overlaps says which
   meetings a run looks at.  Two pipelines never meet (BuildService).       *)
MayStart(op) ==
    /\ pub # "idle" => {op, "publish"} \in Overlaps
    /\ gen # "idle" => {op, "generate"} \in Overlaps
    /\ \A h \in Handler : rb[h] # "idle" => {op, "rollback"} \in Overlaps

-----------------------------------------------------------------------------
(* The pipeline. *)

(* Staging is wiped, or what could not be removed stays in it; then it is
   built and signed: at least a second goes by.                             *)
PBegin(b) ==
    /\ pub = "idle" /\ b \notin used /\ now < MaxTime
    /\ MayStart("publish")
    /\ used' = used \cup {b} /\ pb' = b /\ now' = now + 1
    /\ \/ staging' = Dir(b, NoDir, H!Empty)
       \/ /\ ~Absent(staging) /\ Fails("wipe")
          /\ \E d \in Rests(staging) : staging' = Dir(Mixed, d.rpms, d.hist)
    /\ stamp' = 0
    /\ pub' = "preserve"
    /\ UNCHANGED <<prod, tmp, rvars, gen, crashes>>

(* Any error before or in StagePublish ends in the deferred removal. *)
PAbort ==
    /\ pub = "preserve"
    /\ pub' = "exit"
    /\ UNCHANGED <<dirs, pb, stamp, rvars, gen, used, now, crashes>>

(* repo-rpm is copied from production; a failure is only logged. *)
PPreserve ==
    /\ pub = "preserve"
    /\ \/ /\ ~Absent(prod)
          /\ staging' = [staging EXCEPT !.rpms = Both(@, prod.rpms)]
       \/ /\ ~Absent(prod) /\ Fails("preserve")
          /\ \E rs \in Fewer(prod.rpms) : staging' = [staging EXCEPT !.rpms = Both(@, rs)]
       \/ /\ Absent(prod)
          /\ UNCHANGED staging
    /\ pub' = "backup"
    /\ UNCHANGED <<prod, tmp, pb, stamp, rvars, gen, used, now, crashes>>

(* With a production directory its .rollback is moved to staging, unless there
   is one left (a failure is only logged); without one there is nothing to
   back up.                                                                 *)
PHistory ==
    /\ pub = "backup"
    /\ IF Absent(prod)
         THEN /\ pub' = "swap"
              /\ UNCHANGED <<prod, staging, stamp>>
         ELSE /\ pub' = "copy"
              /\ stamp' = now
              /\ \/ /\ staging.hist = H!Empty
                    /\ prod' = [prod EXCEPT !.hist = H!Empty]
                    /\ staging' = [staging EXCEPT !.hist = prod.hist]
                 \/ /\ staging.out = Mixed \/ Fails("history")
                    /\ UNCHANGED <<prod, staging>>
    /\ UNCHANGED <<tmp, pb, rvars, gen, used, now, crashes>>

(* Production is copied to staging/.rollback/<stamp>, unless it is gone ... *)
PCopy ==
    /\ pub = "copy"
    /\ IF Absent(prod)
         THEN pub' = "remove" /\ UNCHANGED staging
         ELSE /\ staging' = [staging EXCEPT
                               !.hist = H!Put(@, stamp, [out |-> Torn, rpms |-> NoDir])]
              /\ pub' = "copying"
    /\ UNCHANGED <<prod, tmp, pb, stamp, rvars, gen, used, now, crashes>>

(* ... completely, or up to a failure, which is only logged.  The walk reads
   every entry that is no directory as a file, which fails for a link to a
   directory: such a copy never gets beyond the first link.                 *)
MayBreak(d) == Fails("backup") \/ (~Absent(d) /\ d.out \in Linked \cup {Torn, Mixed})

PCopied ==
    /\ pub = "copying"
    /\ \/ /\ ~Absent(prod) /\ prod.out \notin Linked
          /\ staging' = [staging EXCEPT !.hist[stamp] = Tree(prod)]
       \/ /\ ~Absent(prod) /\ MayBreak(prod)
          /\ staging' = [staging EXCEPT !.hist[stamp].rpms = prod.rpms]
       \/ /\ Absent(prod) \/ MayBreak(prod)
          /\ UNCHANGED staging
    /\ pub' = "remove"
    /\ UNCHANGED <<prod, tmp, pb, stamp, rvars, gen, used, now, crashes>>

(* os.RemoveAll(productionDir) begins ... *)
PRemove ==
    /\ pub = "remove"
    /\ prod' = IF Absent(prod) THEN prod ELSE Dir(Torn, NoDir, H!Empty)
    /\ pub' = "removing"
    /\ UNCHANGED <<staging, tmp, pb, stamp, rvars, gen, used, now, crashes>>

(* ... and ends, or fails, which fails the stage. *)
PRemoved ==
    /\ pub = "removing"
    /\ \/ prod' = NoRepo /\ pub' = "swap"
       \/ Fails("remove") /\ pub' = "exit" /\ UNCHANGED prod
    /\ UNCHANGED <<staging, tmp, pb, stamp, rvars, gen, used, now, crashes>>

(* os.Rename(staging, production): refused onto a directory with contents. *)
PSwap_ErrorIgnored ==   \* Mutant: the error of the rename is dropped
    /\ pub = "swap"
    /\ \/ Absent(prod) /\ prod' = staging /\ staging' = NoRepo
       \/ (~Absent(prod) \/ Fails("swap")) /\ UNCHANGED <<prod, staging>>
    /\ pub' = "prune" /\ stamp' = 0
    /\ UNCHANGED <<tmp, pb, rvars, gen, used, now, crashes>>

PSwap ==
    /\ pub = "swap"
    /\ \/ /\ Absent(prod) /\ prod' = staging /\ staging' = NoRepo
          /\ pub' = "prune" /\ stamp' = 0
       \/ /\ ~Absent(prod) \/ Fails("swap")
          /\ pub' = "exit" /\ UNCHANGED <<prod, staging, stamp>>
    /\ UNCHANGED <<tmp, pb, rvars, gen, used, now, crashes>>

(* cleanOldBackups keeps the latest k; removals that fail are ignored. *)
PPrune ==
    /\ pub = "prune"
    /\ \/ /\ ~Absent(prod)
          /\ \E k \in KeepCounts : prod' = [prod EXCEPT !.hist = H!Latest(@, k)]
       \/ /\ ~Absent(prod) /\ Fails("prune")
          /\ \E k \in KeepCounts : \E x \in Leavings(prod.hist, k) :
                prod' = [prod EXCEPT !.hist = x]
       \/ /\ Absent(prod)
          /\ UNCHANGED prod
    /\ pub' = "trim"
    /\ UNCHANGED <<staging, tmp, pb, stamp, rvars, gen, used, now, crashes>>

(* cleanOldRepoRPMs keeps KeepRpms of the files (RepoRpms says which), and
   those it fails to remove.                                                *)
PTrim ==
    /\ pub = "trim"
    /\ IF Absent(prod) \/ prod.rpms = NoDir \/ Cardinality(prod.rpms) <= KeepRpms
         THEN UNCHANGED prod
         ELSE \E kept \in SUBSET prod.rpms :
                 /\ \/ Cardinality(kept) = KeepRpms
                    \/ Cardinality(kept) > KeepRpms /\ Fails("trim")
                 /\ prod' = [prod EXCEPT !.rpms = kept]
    /\ pub' = "exit"
    /\ UNCHANGED <<staging, tmp, pb, stamp, rvars, gen, used, now, crashes>>

(* The deferred os.RemoveAll(stagingDir), whatever staging holds by now; its
   error is ignored.                                                        *)
PExit ==
    /\ pub = "exit"
    /\ \/ staging' = NoRepo
       \/ ~Absent(staging) /\ Fails("sweep") /\ staging' \in Rests(staging)
    /\ pub' = "idle" /\ pb' = NoRepo /\ stamp' = 0
    /\ UNCHANGED <<prod, tmp, rvars, gen, used, now, crashes>>

Pipeline ==
    \/ \E b \in Build : PBegin(b)
    \/ PAbort \/ PPreserve \/ PHistory \/ PCopy \/ PCopied \/ PRemove \/ PRemoved
    \/ PSwap \/ PPrune \/ PTrim \/ PExit

-----------------------------------------------------------------------------
(* Rollback(product, t) *)

RGoto(h, where) == rb' = [rb EXCEPT ![h] = where] /\ UNCHANGED snap

RReturn(h) == rb' = [rb EXCEPT ![h] = "idle"] /\ snap' = [snap EXCEPT ![h] = 0]

(* os.Stat finds the snapshot. *)
RFind(h, t) ==
    /\ rb[h] = "idle" /\ MayStart("rollback")
    /\ ~Absent(prod) /\ t \in DOMAIN prod.hist
    /\ rb' = [rb EXCEPT ![h] = "found"] /\ snap' = [snap EXCEPT ![h] = t]
    /\ UNCHANGED <<dirs, pvars, gen, used, now, crashes>>

(* Production is renamed to tmp, unless it is gone or tmp has contents. *)
RAside_Sweeps(h) ==   \* Mutant: a leftover tmp is removed first
    /\ rb[h] = "found"
    /\ IF Absent(prod)
         THEN RReturn(h) /\ UNCHANGED dirs
         ELSE /\ tmp' = prod /\ prod' = NoRepo
              /\ RGoto(h, "aside")
              /\ UNCHANGED staging
    /\ UNCHANGED <<pvars, gen, used, now, crashes>>

RAside(h) ==
    /\ rb[h] = "found"
    /\ IF Absent(prod) \/ ~Absent(tmp)
         THEN RReturn(h) /\ UNCHANGED dirs
         ELSE /\ tmp' = prod /\ prod' = NoRepo
              /\ RGoto(h, "aside")
              /\ UNCHANGED staging
    /\ UNCHANGED <<pvars, gen, used, now, crashes>>

(* The snapshot is renamed to production. *)
RPlace(h) ==
    /\ rb[h] = "aside"
    /\ LET possible == Absent(prod) /\ ~Absent(tmp) /\ snap[h] \in DOMAIN tmp.hist
       IN  \/ /\ possible
              /\ prod' = Dir(tmp.hist[snap[h]].out, tmp.hist[snap[h]].rpms, H!Empty)
              /\ tmp' = [tmp EXCEPT !.hist = H!Without(@, {snap[h]})]
              /\ RGoto(h, "placed")
           \/ /\ ~possible \/ Fails("restore")
              /\ RGoto(h, "undo")
              /\ UNCHANGED <<prod, tmp>>
    /\ UNCHANGED <<staging, pvars, gen, used, now, crashes>>

(* Otherwise tmp is renamed back, if production is still absent; an error of
   this rename is ignored.                                                  *)
RUndo(h) ==
    /\ rb[h] = "undo"
    /\ LET possible == Absent(prod) /\ ~Absent(tmp)
       IN  \/ possible /\ prod' = tmp /\ tmp' = NoRepo
           \/ (~possible \/ Fails("undo")) /\ UNCHANGED <<prod, tmp>>
    /\ RReturn(h)
    /\ UNCHANGED <<staging, pvars, gen, used, now, crashes>>

(* The other snapshots are renamed into production; a failure is logged. *)
RRejoin_Skipped(h) ==   \* Mutant: the history stays in tmp
    /\ rb[h] = "placed"
    /\ RGoto(h, "rejoined")
    /\ UNCHANGED <<dirs, pvars, gen, used, now, crashes>>

RRejoin(h) ==
    /\ rb[h] = "placed"
    /\ LET possible == ~Absent(prod) /\ ~Absent(tmp) /\ prod.hist = H!Empty
       IN  \/ /\ possible
              /\ prod' = [prod EXCEPT !.hist = tmp.hist]
              /\ tmp' = [tmp EXCEPT !.hist = H!Empty]
           \/ /\ ~possible \/ Fails("rejoin")
              /\ UNCHANGED <<prod, tmp>>
    /\ RGoto(h, "rejoined")
    /\ UNCHANGED <<staging, pvars, gen, used, now, crashes>>

(* os.RemoveAll(tempBackup); a failure is only logged. *)
RClean_Forgotten(h) ==   \* Mutant: tmp is left behind
    /\ rb[h] = "rejoined"
    /\ RReturn(h)
    /\ UNCHANGED <<dirs, pvars, gen, used, now, crashes>>

RClean(h) ==
    /\ rb[h] = "rejoined"
    /\ \/ tmp' = NoRepo
       \/ ~Absent(tmp) /\ Fails("clean") /\ tmp' \in Rests(tmp)
    /\ RReturn(h)
    /\ UNCHANGED <<prod, staging, pvars, gen, used, now, crashes>>

Rollback(h) ==
    \/ \E t \in Stamp : RFind(h, t)
    \/ RAside(h) \/ RPlace(h) \/ RUndo(h) \/ RRejoin(h) \/ RClean(h)

-----------------------------------------------------------------------------
(* Generate *)

(* os.MkdirAll(<name>/repo-rpm) creates production if need be. *)
GMkdir ==
    /\ gen = "idle" /\ MayStart("generate")
    /\ prod' = IF Absent(prod) THEN Dir(NoRepo, {}, H!Empty)
               ELSE IF prod.rpms = NoDir THEN [prod EXCEPT !.rpms = {}] ELSE prod
    /\ gen' = "made"
    /\ UNCHANGED <<staging, tmp, pvars, rvars, used, now, crashes>>

(* nfpm writes the file where the directory still is, or fails. *)
GWrite ==
    /\ gen = "made"
    /\ \/ /\ ~Absent(prod) /\ prod.rpms # NoDir
          /\ \E r \in Rpm : prod' = [prod EXCEPT !.rpms = @ \cup {r}]
       \/ UNCHANGED prod
    /\ gen' = "idle"
    /\ UNCHANGED <<staging, tmp, pvars, rvars, used, now, crashes>>

-----------------------------------------------------------------------------
(* The server dies: the directories stay as they are, and nothing looks at
   them when it starts again.                                               *)
CrashRestart ==
    /\ crashes < MaxCrashes /\ crashes' = crashes + 1
    /\ pub' = "idle" /\ pb' = NoRepo /\ stamp' = 0
    /\ rb' = [h \in Handler |-> "idle"] /\ snap' = [h \in Handler |-> 0]
    /\ gen' = "idle"
    /\ UNCHANGED <<dirs, used, now>>

Next ==
    \/ Pipeline
    \/ \E h \in Handler : Rollback(h)
    \/ GMkdir \/ GWrite
    \/ CrashRestart

Spec == Init /\ [][Next]_vars

-----------------------------------------------------------------------------
(* Properties *)

(* d \in Directory, without a look at all histories. *)
IsDirectory(d) ==
    /\ DOMAIN d.hist \subseteq Stamp
    /\ d \in [out : Out, rpms : (SUBSET Rpm) \cup {NoDir}, hist : [DOMAIN d.hist -> Repo]]

(* Every variable has values of its kind. *)
TypeOK ==
    /\ \A d \in {prod, staging, tmp} : Absent(d) \/ IsDirectory(d)
    /\ pub \in {"idle", "preserve", "backup", "copy", "copying", "remove", "removing",
                "swap", "prune", "trim", "exit"}
    /\ pb \in Build \cup {NoRepo} /\ stamp \in Stamp \cup {0}
    /\ rb \in [Handler -> {"idle", "found", "aside", "placed", "undo", "rejoined"}]
    /\ snap \in [Handler -> Stamp \cup {0}]
    /\ gen \in {"idle", "made"}
    /\ used \in SUBSET Build
    /\ now \in 0..MaxTime /\ crashes \in 0..MaxCrashes

(* The repository users see through the steps of an operation, when the
   operations do not overlap: production, or what stands in for it while it
   is put aside or replaced.                                                *)
LiveRepo ==
    CASE pub \in {"removing", "swap"} /\ stamp # 0 -> staging.hist[stamp]
      [] ~Absent(prod) /\ ~(pub \in {"removing", "swap"} /\ stamp # 0) -> Tree(prod)
      [] Absent(prod) /\ ~Absent(tmp) -> Tree(tmp)
      [] OTHER -> NoRepo

HistOf(d) == IF Absent(d) THEN H!Empty ELSE d.hist

(* Its snapshots: they are moved as a whole, so one directory has them; the
   snapshot of a publication counts once it is in production.               *)
Snapshots ==
    LET in(t) == CHOOSE d \in {prod, staging, tmp} : t \in DOMAIN HistOf(d)
        all == UNION {DOMAIN HistOf(d) : d \in {prod, staging, tmp}}
    IN  [t \in all \ {stamp} |-> HistOf(in(t))[t]]

Promise == INSTANCE RepoHistory WITH live <- LiveRepo, past <- Snapshots

(* Publications that do not meet another operation, any number of rollbacks
   that meet each other, and repo RPM generations implement RepoHistory, if
   no output has alias links, no file operation but the restore of a snapshot
   fails and the server is not killed.                                      *)
ImplementsHistory == Promise!Spec

Quiet == pub = "idle" /\ gen = "idle" /\ \A h \in Handler : rb[h] = "idle"

(* No operation leaves its working directory behind, whichever of its file
   operations fails before, unless the removal of the directory itself, or
   the rename back that stands for it, fails (those errors are dropped) or the
   server is killed: a leftover tmp would refuse every later rollback.      *)
WorkDirsRemoved == Quiet => Absent(staging) /\ Absent(tmp)

(* Once StagePublish got past its rename, production holds the output of
   this very build, whatever failed, crashed or was generated meanwhile: alone,
   unless staging could not be wiped.                                       *)
PublishedIsOwn ==
    pub \in {"prune", "trim"} => ~Absent(prod) /\ prod.out \in {pb, Mixed}

(* Whatever fails and whenever the server dies, a rollback loses no build that
   is on disk before its last step: production, put aside or put back, and
   all snapshots are somewhere.  The last step loses what was in production,
   and snapshots only if they could not be moved back.                      *)
OutsOf(d) == IF Absent(d) THEN {} ELSE {d.out} \cup {d.hist[t].out : t \in DOMAIN d.hist}

OnDisk == (UNION {OutsOf(d) : d \in {prod, staging, tmp}}) \ {NoRepo}

RollbackLosesNothing ==
    [][pub = "idle" /\ pub' = "idle" => \A o \in OnDisk \ OnDisk' : \E h \in Handler :
          rb[h] = "rejoined" /\ (o = tmp.out \/ tmp.hist # H!Empty)]_vars

(* "Create backup snapshot: copy production (minus .rollback)": what can be
   rolled back to is complete.                                              *)
SnapshotsComplete ==
    ~Absent(prod) => \A t \in DOMAIN prod.hist : prod.hist[t].out # Torn

(* "Move existing .rollback dir to staging so it survives the swap": a
   snapshot leaves the disk only when it is pruned, restored, or copied to
   its end.                                                                 *)
HistoryKept ==
    [][\A t \in DOMAIN Snapshots :
          \/ t \in DOMAIN Snapshots'
          \/ pub = "prune"
          \/ \E h \in Handler : rb[h] = "aside" /\ rb'[h] = "placed" /\ snap[h] = t]_vars
=============================================================================
