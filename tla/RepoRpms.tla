------------------------------ MODULE RepoRpms ------------------------------
(***************************************************************************)
(* Which repo RPM of a product is the latest: RepoRPMService.Generate and  *)
(* GetLatest, StagePublish, which copies the repo-rpm directory before it  *)
(* removes production, and then keeps the latest few, and Rollback, which  *)
(* brings back the repo RPMs of a snapshot.  Everybody goes by             *)
(* modification times, and a copy gives every file a new one.              *)
(*                                                                         *)
(* File names are numbers in the order os.ReadDir and filepath.Walk list   *)
(* them.  Times are numbers; files written within one tick of the kernel's *)
(* clock have the same time.                                               *)
(***************************************************************************)
EXTENDS Naturals, FiniteSets, FiniteSetsExt

CONSTANTS
    File,      \* file names, which contain the version
    KeepRpms,  \* repo RPMs a publication keeps (3 in the code)
    KeepCount, \* snapshots there are at most, with the new one (rollback_keep_count)
    MaxTime    \* bound on the clock

ASSUME Parameters ==
    /\ File \subseteq Nat /\ IsFiniteSet(File)
    /\ KeepRpms \in Nat \ {0} /\ KeepCount \in Nat \ {0} /\ MaxTime \in Nat

VARIABLES
    dir,    \* files in <production>/repo-rpm
    mtime,  \* modification times of the files in dir
    pub,    \* where StagePublish is
    staged, \* its copy of repo-rpm: times by file
    doomed, \* files cleanOldRepoRPMs is about to remove
    past,   \* the copies in the snapshots
    now,    \* the clock
    newest, \* history: the file generated last, {} before the first
    amiss   \* history: what happened to that file or to its copies since

pvars == <<pub, staged, doomed>>
vars == <<dir, mtime, pvars, past, now, newest, amiss>>

None == [f \in {} |-> 0]

Mishap == {"order", "overtaken", "copy", "ticks", "removal", "swap", "kill", "rollback"}

Init ==
    /\ dir = {} /\ mtime = None
    /\ pub = "idle" /\ staged = None /\ doomed = {} /\ past = {}
    /\ now = 1 /\ newest = {} /\ amiss = {}

(* What can be wrong with a file that is new: a later name is there, or the
   publication in progress has no copy of it, or is about to remove it.     *)
Flaws(f) ==
    (IF \E g \in dir : f < g THEN {"order"} ELSE {})
      \cup (IF pub = "copied" \/ f \in doomed THEN {"overtaken"} ELSE {})

(* Mutant: the file keeps the time it was packed with. *)
Generate_Epoch(f) ==
    /\ now < MaxTime
    /\ dir' = dir \cup {f}
    /\ mtime' = [g \in dir' |-> IF g = f THEN 0 ELSE mtime[g]]
    /\ now' = now + 1
    /\ newest' = {f} /\ amiss' = Flaws(f)
    /\ UNCHANGED <<pvars, past>>

(* nfpm writes the RPM of a version, anew or over the old one. *)
Generate(f) ==
    /\ now < MaxTime
    /\ dir' = dir \cup {f}
    /\ mtime' = [g \in dir' |-> IF g = f THEN now ELSE mtime[g]]
    /\ now' = now + 1
    /\ newest' = {f} /\ amiss' = Flaws(f)
    /\ UNCHANGED <<pvars, past>>

-----------------------------------------------------------------------------
(* A build is published. *)

(* The times copyDir can give: it writes the files in lexical order. *)
CopyTimes ==
    {m \in [dir -> now..(now + Cardinality(dir) - 1)] :
        \A f, g \in dir : f < g => m[f] <= m[g]}

OwnTicks(m) == \A f, g \in DOMAIN m : m[f] = m[g] => f = g

(* What a copy that fails has written: the first files, the last of which
   may be cut short.                                                        *)
Prefixes == {P \in SUBSET dir : \A f \in P, g \in dir : g < f => g \in P}

(* repo-rpm is copied to staging, a failure being only logged, and then with
   all of production to the new snapshot.                                   *)
PCopy ==
    /\ pub = "idle" /\ now + Cardinality(dir) <= MaxTime
    /\ pub' = "copied" /\ now' = now + Cardinality(dir)
    /\ \E m \in CopyTimes :
        /\ \/ staged' = m
              /\ amiss' = amiss \cup (IF OwnTicks(m) THEN {} ELSE {"ticks"})
           \/ \E P \in Prefixes :
                 /\ staged' = [f \in P |-> m[f]]
                 /\ amiss' = amiss \cup {"copy"}
        /\ \E old \in SUBSET past : Cardinality(old) < KeepCount /\ past' = old \cup {m}
    /\ UNCHANGED <<dir, mtime, doomed, newest>>

(* Production is removed ... *)
PRemove ==
    /\ pub = "copied"
    /\ pub' = "removed" /\ dir' = {} /\ mtime' = None
    /\ UNCHANGED <<staged, doomed, past, now, newest, amiss>>

(* ... or in part: the stage fails, or the server dies. *)
PRemoveFails ==
    /\ pub = "copied"
    /\ pub' = "idle" /\ staged' = None
    /\ dir' \in SUBSET dir /\ mtime' = [f \in dir' |-> mtime[f]]
    /\ amiss' = amiss \cup {"removal"}
    /\ UNCHANGED <<doomed, past, now, newest>>

(* Staging is renamed to production, unless that is there again ... *)
PSwap ==
    /\ pub = "removed" /\ dir = {}
    /\ dir' = DOMAIN staged /\ mtime' = staged
    /\ pub' = "swapped" /\ staged' = None
    /\ UNCHANGED <<doomed, past, now, newest, amiss>>

(* ... or the rename fails by itself: staging is dropped. *)
PSwapFails ==
    /\ pub = "removed"
    /\ pub' = "idle" /\ staged' = None
    /\ amiss' = amiss \cup (IF dir = {} THEN {"swap"} ELSE {})
    /\ UNCHANGED <<dir, mtime, doomed, past, now, newest>>

(* What may be left of the files after all but the last KeepRpms of an
   unstable sort by time are removed.                                       *)
Kept ==
    {K \in kSubset(KeepRpms, dir) : \A f \in K, g \in dir \ K : mtime[g] <= mtime[f]}

(* cleanOldRepoRPMs lists the directory ... *)
PList ==
    /\ pub = "swapped"
    /\ pub' = "listed"
    /\ doomed' \in IF Cardinality(dir) <= KeepRpms THEN {{}} ELSE {dir \ K : K \in Kept}
    /\ UNCHANGED <<dir, mtime, staged, past, now, newest, amiss>>

(* ... and removes the old files it can. *)
PTrim ==
    /\ pub = "listed"
    /\ pub' = "idle" /\ doomed' = {}
    /\ \E gone \in SUBSET doomed : dir' = dir \ gone
    /\ mtime' = [f \in dir' |-> mtime[f]]
    /\ UNCHANGED <<staged, past, now, newest, amiss>>

(* The server dies. *)
Die ==
    /\ pub # "idle"
    /\ pub' = "idle" /\ staged' = None /\ doomed' = {}
    /\ amiss' = amiss \cup (IF pub = "removed" THEN {"kill"} ELSE {})
    /\ UNCHANGED <<dir, mtime, past, now, newest>>

-----------------------------------------------------------------------------
(* A snapshot replaces production, its repo RPMs included. *)
Rollback ==
    /\ pub = "idle"
    /\ \E m \in past :
        /\ dir' = DOMAIN m /\ mtime' = m
        /\ past' = past \ {m}
    /\ amiss' = amiss \cup {"rollback"}
    /\ UNCHANGED <<pvars, now, newest>>

Next ==
    \/ \E f \in File : Generate(f)
    \/ PCopy \/ PRemove \/ PRemoveFails \/ PSwap \/ PSwapFails \/ PList \/ PTrim
    \/ Die \/ Rollback

Spec == Init /\ [][Next]_vars

GetLatest_Listed == {f \in dir : \A g \in dir : f <= g}   \* Mutant: the first listed

(* GetLatest walks the files in lexical order and takes a later one only if
   it is strictly newer; no file, no answer.                                *)
GetLatest ==
    {f \in dir : \A g \in dir : mtime[g] < mtime[f] \/ (mtime[g] = mtime[f] /\ f <= g)}

-----------------------------------------------------------------------------
(* Properties *)

IsTimes(m) == DOMAIN m \subseteq File /\ m \in [DOMAIN m -> 1..MaxTime]

(* Every variable has values of its kind; dir and mtime agree. *)
TypeOK ==
    /\ IsTimes(mtime) /\ DOMAIN mtime = dir
    /\ pub \in {"idle", "copied", "removed", "swapped", "listed"}
    /\ IsTimes(staged) /\ doomed \subseteq dir
    /\ \A m \in past : IsTimes(m)
    /\ now \in 1..(MaxTime + 1)
    /\ newest \subseteq File /\ Cardinality(newest) <= 1
    /\ amiss \subseteq Mishap

(* "GetLatest returns the latest repo RPM for a product": the one generated
   last, which no publication removed ("keeping only the latest 3"), but while
   production is away.  The exceptions, each until the next generation: an
   older version is generated, copies share a tick, a copy, a removal or the
   rename breaks, the server dies in between, the file is generated between
   the copy and the removal or while it is about to be removed as an old one,
   or there is a rollback.                                                  *)
LatestServed == pub # "removed" /\ amiss = {} => GetLatest = newest
=============================================================================
