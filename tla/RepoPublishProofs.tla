-------------------------- MODULE RepoPublishProofs --------------------------
(***************************************************************************)
(* Proofs about RepoPublish for any builds, requests, faults and kills.    *)
(***************************************************************************)
EXTENDS RepoPublish, TLAPS

Outs == Build \cup {NoRepo, Torn, Mixed}
Rpms == (SUBSET Rpm) \cup {NoDir}

(* Histories are the functions from sets of timestamps to snapshots. *)
LEMMA HistoryIs == \A f : f \in History <=> \E ts \in SUBSET Stamp : f \in [ts -> Repo]
BY DEF History

(* The operations on histories give histories. *)
LEMMA EmptyIsHistory == H!Empty \in History
<1>1. H!Empty \in [{} -> Repo]
    BY DEF H!Empty
<1> QED
    BY <1>1, HistoryIs

(* Adding a snapshot gives a history. *)
LEMMA PutIsHistory ==
    ASSUME NEW f \in History, NEW t \in Stamp, NEW v \in Repo
    PROVE  H!Put(f, t, v) \in History /\ t \in DOMAIN H!Put(f, t, v)
<1>1. PICK ts \in SUBSET Stamp : f \in [ts -> Repo]
    BY HistoryIs
<1>2. H!Put(f, t, v) \in [ts \cup {t} -> Repo]
    BY <1>1 DEF H!Put
<1> QED
    BY <1>1, <1>2, HistoryIs

(* Removing some of them does, too. *)
LEMMA WithoutIsHistory ==
    ASSUME NEW f \in History, NEW ts
    PROVE  H!Without(f, ts) \in History
<1>1. PICK us \in SUBSET Stamp : f \in [us -> Repo]
    BY HistoryIs
<1>2. H!Without(f, ts) \in [us \ ts -> Repo]
    BY <1>1 DEF H!Without
<1> QED
    BY <1>1, <1>2, HistoryIs

(* So does keeping the latest k. *)
LEMMA LatestIsHistory ==
    ASSUME NEW f \in History, NEW k
    PROVE  H!Latest(f, k) \in History
BY WithoutIsHistory DEF H!Latest

(* So does replacing one. *)
LEMMA ExceptIsHistory ==
    ASSUME NEW f \in History, NEW t, NEW v, t \in DOMAIN f => v \in Repo
    PROVE  [f EXCEPT ![t] = v] \in History
<1>1. PICK us \in SUBSET Stamp : f \in [us -> Repo]
    BY HistoryIs
<1>2. [f EXCEPT ![t] = v] \in [us -> Repo]
    BY <1>1
<1> QED
    BY <1>1, <1>2, HistoryIs

(* The snapshots of a history are directories, their names timestamps. *)
LEMMA SnapshotIsRepo ==
    ASSUME NEW f \in History, NEW t \in DOMAIN f
    PROVE  f[t] \in Repo /\ t \in Stamp
<1>1. PICK us \in SUBSET Stamp : f \in [us -> Repo]
    BY HistoryIs
<1> QED
    BY <1>1

(* A directory is put together, taken apart and changed field by field. *)
LEMMA DirIs ==
    ASSUME NEW o \in Outs, NEW r \in Rpms, NEW x \in History
    PROVE  /\ Dir(o, r, x) \in Directory /\ Dir(o, r, x) # NoRepo
           /\ Dir(o, r, x).out = o /\ Dir(o, r, x).rpms = r /\ Dir(o, r, x).hist = x
BY Absence DEF Directory, Dir, Outs, Out, Rpms

(* The fields of a directory have their types. *)
LEMMA FieldsAre ==
    ASSUME NEW d \in Directory
    PROVE  d # NoRepo /\ d.out \in Outs /\ d.rpms \in Rpms /\ d.hist \in History
BY Absence DEF Directory, Outs, Out, Rpms

(* Replacing the history keeps the rest. *)
LEMMA WithHist ==
    ASSUME NEW d \in Directory, NEW x \in History
    PROVE  /\ [d EXCEPT !.hist = x] \in Directory /\ [d EXCEPT !.hist = x] # NoRepo
           /\ [d EXCEPT !.hist = x].out = d.out /\ [d EXCEPT !.hist = x].rpms = d.rpms
           /\ [d EXCEPT !.hist = x].hist = x
BY Absence DEF Directory

(* Replacing the repo RPMs keeps the rest. *)
LEMMA WithRpms ==
    ASSUME NEW d \in Directory, NEW r \in Rpms
    PROVE  /\ [d EXCEPT !.rpms = r] \in Directory /\ [d EXCEPT !.rpms = r] # NoRepo
           /\ [d EXCEPT !.rpms = r].out = d.out /\ [d EXCEPT !.rpms = r].hist = d.hist
           /\ [d EXCEPT !.rpms = r].rpms = r
BY Absence DEF Directory, Rpms

(* What a failed removal leaves is a directory. *)
LEMMA RestsAre ==
    ASSUME NEW d \in Directory, NEW e \in Rests(d)
    PROVE  e \in Directory /\ e # NoRepo /\ e.rpms \in Rpms /\ e.hist \in History
<1>1. PICK o \in {d.out, Torn}, r \in {d.rpms, NoDir}, x \in {d.hist, H!Empty} : e = Dir(o, r, x)
    BY DEF Rests
<1>2. o \in Outs /\ r \in Rpms /\ x \in History
    <2>1. Torn \in Outs /\ NoDir \in Rpms
        BY Zenon DEF Outs, Rpms
    <2> QED
        BY <1>1, <2>1, FieldsAre, EmptyIsHistory
<1> QED
    BY <1>1, <1>2, DirIs

(* What a failed removal of old snapshots leaves is a history. *)
LEMMA LeavingsAre ==
    ASSUME NEW f \in History, NEW k, NEW x \in Leavings(f, k)
    PROVE  x \in History
<1>1. PICK gone, torn : x = Spoilt(f, gone, torn)
    BY DEF Leavings
<1>2. PICK us \in SUBSET Stamp : f \in [us -> Repo]
    BY HistoryIs
<1>3. ASSUME NEW t \in us
      PROVE  (IF t \in torn THEN [f[t] EXCEPT !.out = Torn] ELSE f[t]) \in Repo
    BY <1>2 DEF Repo, Out
<1>4. x \in [us \ gone -> Repo]
    BY <1>1, <1>2, <1>3 DEF Spoilt
<1> QED
    BY <1>2, <1>4, HistoryIs

(* Copying repo RPMs, some or all, into a directory. *)
LEMMA BothAre ==
    ASSUME NEW rs \in Rpms, NEW more \in Rpms
    PROVE  /\ Both(rs, more) \in Rpms
           /\ \A fewer \in Fewer(more) : fewer \in Rpms
BY DEF Both, Fewer, Rpms

-----------------------------------------------------------------------------
(* Where the operations are, and what they remember. *)
LocalsOK ==
    /\ pub \in {"idle", "preserve", "backup", "copy", "copying", "remove", "removing",
                "swap", "prune", "trim", "exit"}
    /\ pb \in Build \cup {NoRepo} /\ stamp \in Stamp \cup {0}
    /\ rb \in [Handler -> {"idle", "found", "aside", "placed", "undo", "rejoined"}]
    /\ snap \in [Handler -> Stamp \cup {0}]
    /\ gen \in {"idle", "made"}
    /\ used \in SUBSET Build
    /\ now \in 0..MaxTime /\ crashes \in 0..MaxCrashes

DirsOK ==
    /\ prod \in Directory \cup {NoRepo}
    /\ staging \in Directory \cup {NoRepo}
    /\ tmp \in Directory \cup {NoRepo}

(* Until its rename the pipeline has a staging directory, and before it
   copies a snapshot there the clock has given it a timestamp.              *)
Stages ==
    /\ pub \in {"preserve", "backup", "copy", "copying", "remove", "removing", "swap"} =>
          staging # NoRepo
    /\ pub \in {"preserve", "backup"} => now \in Stamp
    /\ pub \in {"copy", "copying"} => stamp \in Stamp
    /\ pub = "copying" => stamp \in DOMAIN staging.hist

(* Every step keeps the positions and memories in their types. *)
LEMMA LocalsStep == LocalsOK /\ [Next]_vars => LocalsOK'
<1> SUFFICES ASSUME LocalsOK, [Next]_vars PROVE LocalsOK'
    OBVIOUS
<1> USE Bounds DEF LocalsOK, Stamp
<1>1. ASSUME NEW b \in Build, PBegin(b) PROVE LocalsOK'
    BY <1>1 DEF PBegin, rvars
<1>2. ASSUME PAbort \/ PPreserve \/ PCopy \/ PCopied \/ PRemove \/ PRemoved PROVE LocalsOK'
    BY <1>2 DEF PAbort, PPreserve, PCopy, PCopied, PRemove, PRemoved, rvars
<1>3. ASSUME PHistory PROVE LocalsOK'
    BY <1>3 DEF PHistory, rvars
<1>4. ASSUME PSwap \/ PPrune \/ PTrim \/ PExit PROVE LocalsOK'
    BY <1>4 DEF PSwap, PPrune, PTrim, PExit, rvars
<1>5. ASSUME NEW h \in Handler, Rollback(h) PROVE LocalsOK'
    <2>1. /\ UNCHANGED <<pub, pb, stamp, gen, used, now, crashes>>
          /\ \E v \in {"idle", "found", "aside", "placed", "undo", "rejoined"} :
                rb' = [rb EXCEPT ![h] = v]
        BY <1>5 DEF Rollback, RFind, RAside, RPlace, RUndo, RRejoin, RClean, RGoto, RReturn, pvars
    <2>2. snap' = snap \/ \E t \in Stamp \cup {0} : snap' = [snap EXCEPT ![h] = t]
        BY <1>5 DEF Rollback, RFind, RAside, RPlace, RUndo, RRejoin, RClean, RGoto, RReturn
    <2> QED
        BY <2>1, <2>2
<1>6. ASSUME GMkdir \/ GWrite PROVE LocalsOK'
    BY <1>6 DEF GMkdir, GWrite, pvars, rvars
<1>7. ASSUME CrashRestart PROVE LocalsOK'
    BY <1>7 DEF CrashRestart
<1>8. CASE UNCHANGED vars
    BY <1>8 DEF vars, pvars, rvars
<1> QED
    BY <1>1, <1>2, <1>3, <1>4, <1>5, <1>6, <1>7, <1>8 DEF Next, Pipeline

(* The copy of the repo RPMs changes nothing else in staging. *)
LEMMA Preserved ==
    ASSUME PPreserve, staging \in Directory, prod \in Directory \cup {NoRepo}
    PROVE  /\ staging' \in Directory /\ staging' # NoRepo
           /\ staging'.out = staging.out /\ staging'.hist = staging.hist
<1>1. staging # NoRepo /\ staging.rpms \in Rpms
    BY FieldsAre
<1>2. ASSUME NEW rs \in Rpms, staging' = [staging EXCEPT !.rpms = Both(staging.rpms, rs)]
      PROVE  /\ staging' \in Directory /\ staging' # NoRepo
             /\ staging'.out = staging.out /\ staging'.hist = staging.hist
    <2>1. Both(staging.rpms, rs) \in Rpms
        BY <1>1, BothAre
    <2> QED
        BY <1>2, <2>1, WithRpms
<1>3. CASE prod # NoRepo
    <2>1. prod.rpms \in Rpms /\ \A rs \in Fewer(prod.rpms) : rs \in Rpms
        <3>1. prod.rpms \in Rpms
            BY <1>3, FieldsAre
        <3> QED
            BY <3>1, BothAre
    <2>2. \E rs \in Rpms : staging' = [staging EXCEPT !.rpms = Both(staging.rpms, rs)]
        BY <1>3, <2>1 DEF PPreserve, Absent
    <2> QED
        BY <1>2, <2>2
<1>4. CASE prod = NoRepo
    BY <1>1, <1>4 DEF PPreserve, Absent
<1> QED
    BY <1>3, <1>4

(* The removal of old snapshots changes the history alone. *)
LEMMA Pruned ==
    ASSUME PPrune, prod \in Directory
    PROVE  \E x \in History : prod' = [prod EXCEPT !.hist = x]
<1>1. prod.hist \in History /\ ~Absent(prod)
    BY FieldsAre DEF Absent
<1>2. \/ \E k \in KeepCounts : prod' = [prod EXCEPT !.hist = H!Latest(prod.hist, k)]
      \/ \E k \in KeepCounts : \E x \in Leavings(prod.hist, k) : prod' = [prod EXCEPT !.hist = x]
    BY <1>1 DEF PPrune
<1>3. ASSUME NEW k \in KeepCounts, prod' = [prod EXCEPT !.hist = H!Latest(prod.hist, k)]
      PROVE  \E x \in History : prod' = [prod EXCEPT !.hist = x]
    BY <1>1, <1>3, LatestIsHistory
<1>4. ASSUME NEW k \in KeepCounts, NEW x \in Leavings(prod.hist, k), prod' = [prod EXCEPT !.hist = x]
      PROVE  \E y \in History : prod' = [prod EXCEPT !.hist = y]
    BY <1>1, <1>4, LeavingsAre
<1> QED
    BY <1>2, <1>3, <1>4

(* Only the pipeline touches staging, and only a rollback tmp. *)
LEMMA DirsStep == LocalsOK /\ DirsOK /\ Stages /\ [Next]_vars => DirsOK' /\ Stages'
<1> SUFFICES ASSUME LocalsOK, DirsOK, Stages, [Next]_vars PROVE DirsOK' /\ Stages'
    OBVIOUS
<1>0. NoDir \in Rpms /\ H!Empty \in History /\ Build \subseteq Outs /\ NoRepo \in Outs /\ Torn \in Outs
    BY EmptyIsHistory, Zenon DEF Outs, Rpms
<1>1. ASSUME NEW b \in Build, PBegin(b) PROVE DirsOK' /\ Stages'
    <2>1. Dir(b, NoDir, H!Empty) \in Directory /\ Dir(b, NoDir, H!Empty) # NoRepo
        BY <1>0, DirIs
    <2>2. now' \in Stamp
        BY <1>1, Bounds DEF PBegin, LocalsOK, Stamp
    <2>3. ASSUME ~Absent(staging), NEW d \in Rests(staging)
          PROVE  Dir(Mixed, d.rpms, d.hist) \in Directory /\ Dir(Mixed, d.rpms, d.hist) # NoRepo
        <3>1. staging \in Directory /\ Mixed \in Outs
            BY <2>3 DEF DirsOK, Absent, Outs
        <3> QED
            BY <2>3, <3>1, RestsAre, DirIs
    <2>4. staging' \in Directory /\ staging' # NoRepo
        BY <1>1, <2>1, <2>3 DEF PBegin
    <2> QED
        BY <1>1, <2>2, <2>4 DEF PBegin, DirsOK, Stages
<1>2. ASSUME PAbort PROVE DirsOK' /\ Stages'
    BY <1>2 DEF PAbort, dirs, DirsOK, Stages
<1>3. ASSUME PPreserve PROVE DirsOK' /\ Stages'
    <2>1. staging \in Directory
        BY <1>3 DEF PPreserve, DirsOK, Stages
    <2>2. staging' \in Directory /\ staging' # NoRepo
        BY <1>3, <2>1, Preserved DEF DirsOK
    <2> QED
        BY <1>3, <2>2 DEF PPreserve, DirsOK, Stages
<1>4. ASSUME PHistory PROVE DirsOK' /\ Stages'
    <2>1. staging \in Directory /\ now \in Stamp
        BY <1>4 DEF PHistory, DirsOK, Stages
    <2>2. ~Absent(prod) => /\ [staging EXCEPT !.hist = prod.hist] \in Directory
                           /\ [staging EXCEPT !.hist = prod.hist] # NoRepo
                           /\ [prod EXCEPT !.hist = H!Empty] \in Directory
        BY <1>0, <2>1, FieldsAre, WithHist DEF DirsOK, Absent
    <2> QED
        BY <1>4, <2>1, <2>2 DEF PHistory, DirsOK, Stages
<1>5. ASSUME PCopy PROVE DirsOK' /\ Stages'
    <2> DEFINE torn == [out |-> Torn, rpms |-> NoDir]
               put == H!Put(staging.hist, stamp, torn)
    <2>1. staging \in Directory /\ stamp \in Stamp /\ staging.hist \in History
        BY <1>5, FieldsAre DEF PCopy, DirsOK, Stages
    <2>2. torn \in Repo
        <3>1. NoDir \in (SUBSET Rpm) \cup {NoDir} /\ Torn \in Out
            BY Zenon DEF Out
        <3> QED
            BY <3>1, Zenon DEF Repo
    <2> HIDE DEF torn
    <2>3. put \in History /\ stamp \in DOMAIN put
        BY <2>1, <2>2, PutIsHistory
    <2>4. /\ [staging EXCEPT !.hist = put] \in Directory
          /\ [staging EXCEPT !.hist = put] # NoRepo
          /\ [staging EXCEPT !.hist = put].hist = put
        BY <2>1, <2>3, WithHist
    <2>5. \/ pub' = "remove" /\ staging' = staging
          \/ pub' = "copying" /\ staging' = [staging EXCEPT !.hist = put]
        BY <1>5 DEF PCopy, torn
    <2>6. UNCHANGED <<prod, tmp, stamp, now>>
        BY <1>5 DEF PCopy
    <2> HIDE DEF put
    <2>7. DirsOK'
        BY <2>1, <2>4, <2>5, <2>6 DEF DirsOK
    <2>8. /\ staging' # NoRepo /\ stamp' \in Stamp
          /\ pub' = "copying" => stamp' \in DOMAIN staging'.hist
        BY <2>1, <2>3, <2>4, <2>5, <2>6, FieldsAre
    <2>9. Stages'
        BY <2>5, <2>8 DEF Stages
    <2> QED
        BY <2>7, <2>9
<1>6. ASSUME PCopied PROVE DirsOK' /\ Stages'
    <2>1. staging \in Directory /\ stamp \in DOMAIN staging.hist /\ staging.hist \in History
        BY <1>6, FieldsAre DEF PCopied, DirsOK, Stages
    <2>2. ~Absent(prod) => Tree(prod) \in Repo /\ [staging.hist[stamp] EXCEPT !.rpms = prod.rpms] \in Repo
        <3>1. staging.hist[stamp] \in Repo
            BY <2>1, SnapshotIsRepo
        <3>2. ~Absent(prod) => prod.out \in Outs /\ prod.rpms \in Rpms
            BY FieldsAre DEF DirsOK, Absent
        <3> QED
            BY <3>1, <3>2 DEF Tree, Repo, Outs, Out, Rpms
    <2>3. ASSUME NEW v \in Repo
          PROVE  /\ [staging EXCEPT !.hist = [staging.hist EXCEPT ![stamp] = v]] \in Directory
                 /\ [staging EXCEPT !.hist = [staging.hist EXCEPT ![stamp] = v]] # NoRepo
        <3>1. [staging.hist EXCEPT ![stamp] = v] \in History
            BY <2>1, ExceptIsHistory
        <3> QED
            BY <2>1, <3>1, WithHist
    <2>4. \/ staging' = staging
          \/ \E v \in Repo : staging' = [staging EXCEPT !.hist = [staging.hist EXCEPT ![stamp] = v]]
        BY <1>6, <2>2 DEF PCopied
    <2>5. staging' \in Directory /\ staging' # NoRepo
        BY <2>1, <2>3, <2>4, FieldsAre
    <2> QED
        BY <1>6, <2>5 DEF PCopied, DirsOK, Stages
<1>7. ASSUME PRemove \/ PRemoved PROVE DirsOK' /\ Stages'
    <2>1. Dir(Torn, NoDir, H!Empty) \in Directory
        BY <1>0, DirIs
    <2>2. prod' \in Directory \cup {NoRepo}
        BY <1>7, <2>1 DEF PRemove, PRemoved, DirsOK
    <2>3. UNCHANGED <<staging, tmp, stamp, now>> /\ pub' \in {"removing", "swap", "exit"} /\ staging # NoRepo
        BY <1>7 DEF PRemove, PRemoved, Stages
    <2> QED
        BY <2>2, <2>3 DEF DirsOK, Stages
<1>8. ASSUME PSwap PROVE DirsOK' /\ Stages'
    BY <1>8 DEF PSwap, DirsOK, Stages
<1>9. ASSUME PPrune PROVE DirsOK' /\ Stages'
    <2>1. prod # NoRepo =>
             \E x \in History : prod' = [prod EXCEPT !.hist = x]
        BY <1>9, Pruned DEF DirsOK
    <2>2. prod' \in Directory \cup {NoRepo}
        BY <1>9, <2>1, WithHist DEF PPrune, Absent, DirsOK
    <2> QED
        BY <1>9, <2>2 DEF PPrune, DirsOK, Stages
<1>10. ASSUME PTrim PROVE DirsOK' /\ Stages'
    <2>1. ASSUME ~Absent(prod), prod.rpms # NoDir, NEW kept \in SUBSET prod.rpms
          PROVE  [prod EXCEPT !.rpms = kept] \in Directory
        <3>1. prod \in Directory /\ kept \in Rpms
            BY <2>1, FieldsAre DEF DirsOK, Absent, Rpms
        <3> QED
            BY <3>1, WithRpms
    <2>2. prod' \in Directory \cup {NoRepo}
        BY <1>10, <2>1 DEF PTrim, DirsOK
    <2> QED
        BY <1>10, <2>2 DEF PTrim, DirsOK, Stages
<1>11. ASSUME PExit PROVE DirsOK' /\ Stages'
    <2>1. ~Absent(staging) => \A e \in Rests(staging) : e \in Directory
        BY RestsAre DEF DirsOK, Absent
    <2> QED
        BY <1>11, <2>1 DEF PExit, DirsOK, Stages
<1>12. ASSUME NEW h \in Handler, Rollback(h) PROVE DirsOK' /\ Stages'
    <2>1. UNCHANGED <<staging, pub, stamp, now>>
        BY <1>12 DEF Rollback, RFind, RAside, RPlace, RUndo, RRejoin, RClean, pvars, dirs
    <2>2. prod' \in Directory \cup {NoRepo} /\ tmp' \in Directory \cup {NoRepo}
        <3>1. CASE (\E t \in Stamp : RFind(h, t)) \/ RAside(h) \/ RUndo(h) \/ RClean(h)
            <4>1. ~Absent(tmp) => \A e \in Rests(tmp) : e \in Directory
                BY RestsAre DEF DirsOK, Absent
            <4> QED
                BY <3>1, <4>1 DEF RFind, RAside, RUndo, RClean, dirs, DirsOK
        <3>2. CASE RPlace(h)
            <4>1. ASSUME tmp # NoRepo, snap[h] \in DOMAIN tmp.hist
                  PROVE  /\ Dir(tmp.hist[snap[h]].out, tmp.hist[snap[h]].rpms, H!Empty) \in Directory
                         /\ [tmp EXCEPT !.hist = H!Without(tmp.hist, {snap[h]})] \in Directory
                <5>1. tmp \in Directory /\ tmp.hist \in History
                    BY <4>1, FieldsAre DEF DirsOK
                <5>2. tmp.hist[snap[h]].out \in Outs /\ tmp.hist[snap[h]].rpms \in Rpms
                    BY <4>1, <5>1, SnapshotIsRepo DEF Repo, Outs, Out, Rpms
                <5> QED
                    BY <1>0, <5>1, <5>2, DirIs, WithoutIsHistory, WithHist
            <4> QED
                BY <3>2, <4>1 DEF RPlace, Absent, DirsOK
        <3>3. CASE RRejoin(h)
            <4>1. ASSUME prod # NoRepo, tmp # NoRepo
                  PROVE  /\ [prod EXCEPT !.hist = tmp.hist] \in Directory
                         /\ [tmp EXCEPT !.hist = H!Empty] \in Directory
                BY <1>0, <4>1, FieldsAre, WithHist DEF DirsOK
            <4> QED
                BY <3>3, <4>1 DEF RRejoin, Absent, DirsOK
        <3> QED
            BY <1>12, <3>1, <3>2, <3>3 DEF Rollback
    <2> QED
        BY <2>1, <2>2 DEF DirsOK, Stages
<1>13. ASSUME GMkdir \/ GWrite PROVE DirsOK' /\ Stages'
    <2>1. UNCHANGED <<staging, tmp, pub, stamp, now>>
        BY <1>13 DEF GMkdir, GWrite, pvars
    <2>2. /\ Dir(NoRepo, {}, H!Empty) \in Directory
          /\ prod # NoRepo => [prod EXCEPT !.rpms = {}] \in Directory
        BY <1>0, DirIs, WithRpms DEF DirsOK, Rpms
    <2>3. ASSUME prod # NoRepo, prod.rpms # NoDir, NEW r \in Rpm
          PROVE  [prod EXCEPT !.rpms = prod.rpms \cup {r}] \in Directory
        <3>1. prod \in Directory /\ prod.rpms \cup {r} \in Rpms
            BY <2>3, FieldsAre DEF DirsOK, Rpms
        <3> QED
            BY <3>1, WithRpms
    <2>4. prod' \in Directory \cup {NoRepo}
        BY <1>13, <2>2, <2>3 DEF GMkdir, GWrite, Absent, DirsOK
    <2> QED
        BY <2>1, <2>4 DEF DirsOK, Stages
<1>14. ASSUME CrashRestart PROVE DirsOK' /\ Stages'
    BY <1>14 DEF CrashRestart, dirs, DirsOK, Stages
<1>15. CASE UNCHANGED vars
    BY <1>15 DEF vars, dirs, pvars, DirsOK, Stages
<1> QED
    BY <1>1, <1>2, <1>3, <1>4, <1>5, <1>6, <1>7, <1>8, <1>9, <1>10, <1>11, <1>12, <1>13, <1>14, <1>15
       DEF Next, Pipeline

RepoInv == LocalsOK /\ DirsOK /\ Stages

(* The invariant holds in every reachable state. *)
LEMMA RepoInvHolds == Spec => []RepoInv
<1>1. Init => RepoInv
    BY Bounds DEF Init, RepoInv, LocalsOK, DirsOK, Stages
<1>2. RepoInv /\ [Next]_vars => RepoInv'
    BY LocalsStep, DirsStep DEF RepoInv
<1> QED
    BY <1>1, <1>2, PTL DEF Spec

(* Whatever overlaps, fails or dies, the three directories stay directories
   with a history of snapshots, or absent.                                  *)
THEOREM RepoTypes == Spec => []TypeOK
<1>1. \A d \in Directory : IsDirectory(d)
    <2> SUFFICES ASSUME NEW d \in Directory PROVE IsDirectory(d)
        OBVIOUS
    <2>1. PICK ts \in SUBSET Stamp : d.hist \in [ts -> Repo]
        BY FieldsAre, HistoryIs
    <2>2. d = [out |-> d.out, rpms |-> d.rpms, hist |-> d.hist]
        BY DEF Directory
    <2>3. d.out \in Out /\ d.rpms \in (SUBSET Rpm) \cup {NoDir}
        BY DEF Directory
    <2> QED
        BY <2>1, <2>2, <2>3 DEF IsDirectory
<1>2. RepoInv => TypeOK
    BY <1>1, Zenon DEF RepoInv, LocalsOK, DirsOK, TypeOK, Absent
<1> QED
    BY <1>2, RepoInvHolds, PTL

-----------------------------------------------------------------------------
(* No rollback runs while the pipeline does, if Overlaps keeps them apart. *)
Apart == pub # "idle" => \A h \in Handler : rb[h] = "idle"

(* Staging has the output of the build until the rename, production then:
   alone, unless staging could not be wiped.                                *)
Ours(o) == o = pb \/ (Fails("wipe") /\ o = Mixed)

OwnInv ==
    /\ Apart
    /\ pub \in {"preserve", "backup", "copy", "copying", "remove", "removing", "swap"} =>
          Ours(staging.out)
    /\ pub \in {"prune", "trim"} => prod # NoRepo /\ Ours(prod.out)

(* Every step keeps the output of the build where it belongs. *)
LEMMA OwnStep ==
    ASSUME {"publish", "rollback"} \notin Overlaps
    PROVE  RepoInv /\ OwnInv /\ [Next]_vars => OwnInv'
<1> SUFFICES ASSUME RepoInv, OwnInv, [Next]_vars PROVE OwnInv'
    OBVIOUS
<1>0. /\ NoDir \in Rpms /\ H!Empty \in History /\ Build \subseteq Outs
      /\ NoRepo \in Outs
    BY EmptyIsHistory DEF Outs, Rpms
<1> USE DEF OwnInv, Apart, Ours
<1>1. ASSUME NEW b \in Build, PBegin(b) PROVE OwnInv'
    <2>1. \A h \in Handler : rb[h] = "idle"
        BY <1>1 DEF PBegin, MayStart
    <2>2. Dir(b, NoDir, H!Empty).out = b /\ \A r, x : Dir(Mixed, r, x).out = Mixed
        BY <1>0, DirIs DEF Dir
    <2>3. staging'.out = b \/ (Fails("wipe") /\ staging'.out = Mixed)
        BY <1>1, <2>2 DEF PBegin
    <2> QED
        BY <1>1, <2>1, <2>3 DEF PBegin, rvars
<1>2. ASSUME PAbort PROVE OwnInv'
    BY <1>2 DEF PAbort, rvars
<1>3. ASSUME PPreserve PROVE OwnInv'
    <2>1. staging \in Directory
        BY <1>3 DEF PPreserve, RepoInv, DirsOK, Stages
    <2>2. staging'.out = staging.out
        BY <1>3, <2>1, Preserved DEF RepoInv, DirsOK
    <2> QED
        BY <1>3, <2>2 DEF PPreserve, rvars
<1>4. ASSUME PHistory PROVE OwnInv'
    <2>1. staging \in Directory
        BY <1>4 DEF PHistory, RepoInv, DirsOK, Stages
    <2>2. ~Absent(prod) => [staging EXCEPT !.hist = prod.hist].out = staging.out
        BY <2>1, FieldsAre, WithHist DEF RepoInv, DirsOK, Absent
    <2> QED
        BY <1>4, <2>2 DEF PHistory, rvars
<1>5. ASSUME PCopy \/ PCopied PROVE OwnInv'
    <2>1. staging \in Directory
        BY <1>5 DEF PCopy, PCopied, RepoInv, DirsOK, Stages
    <2>2. staging' = staging \/ \E x : staging' = [staging EXCEPT !.hist = x]
        BY <1>5 DEF PCopy, PCopied
    <2>3. staging'.out = staging.out
        BY <2>1, <2>2 DEF Directory
    <2>4. pb' = pb /\ rb' = rb /\ pub' \in {"copying", "remove"} /\ pub \in {"copy", "copying"}
        BY <1>5 DEF PCopy, PCopied, rvars
    <2> QED
        BY <2>3, <2>4
<1>6. ASSUME PRemove \/ PRemoved PROVE OwnInv'
    BY <1>6 DEF PRemove, PRemoved, rvars
<1>7. ASSUME PSwap PROVE OwnInv'
    BY <1>7 DEF PSwap, rvars, RepoInv, Stages
<1>8. ASSUME PPrune PROVE OwnInv'
    <2>1. prod \in Directory /\ prod.hist \in History
        BY <1>8, FieldsAre DEF PPrune, RepoInv, DirsOK
    <2>2. PICK x \in History : prod' = [prod EXCEPT !.hist = x]
        BY <1>8, <2>1, Pruned
    <2>3. prod' # NoRepo /\ prod'.out = prod.out
        BY <2>1, <2>2, WithHist
    <2> QED
        BY <1>8, <2>3 DEF PPrune, rvars
<1>9. ASSUME PTrim \/ PExit PROVE OwnInv'
    BY <1>9 DEF PTrim, PExit, rvars
<1>10. ASSUME NEW h \in Handler, Rollback(h) PROVE OwnInv'
    <2>1. pub = "idle"
        BY <1>10 DEF Rollback, RFind, RAside, RPlace, RUndo, RRejoin, RClean, MayStart
    <2>2. pub' = pub
        BY <1>10 DEF Rollback, RFind, RAside, RPlace, RUndo, RRejoin, RClean, pvars
    <2> QED
        BY <2>1, <2>2
<1>11. ASSUME GMkdir \/ GWrite PROVE OwnInv'
    <2>1. UNCHANGED <<pub, pb, rb, staging>>
        BY <1>11 DEF GMkdir, GWrite, pvars, rvars
    <2>2. ASSUME prod # NoRepo PROVE prod' # NoRepo /\ prod'.out = prod.out
        <3>1. prod \in Directory /\ {} \in Rpms
            BY <2>2 DEF RepoInv, DirsOK, Rpms
        <3>2. \A r \in Rpm : prod.rpms # NoDir => prod.rpms \cup {r} \in Rpms
            BY <3>1, FieldsAre DEF Rpms
        <3>3. prod' = prod \/ \E rs \in Rpms : prod' = [prod EXCEPT !.rpms = rs]
            BY <1>11, <2>2, <3>1, <3>2 DEF GMkdir, GWrite, Absent
        <3>4. \A rs \in Rpms : /\ [prod EXCEPT !.rpms = rs] # NoRepo
                              /\ [prod EXCEPT !.rpms = rs].out = prod.out
            BY <3>1, WithRpms
        <3> QED
            BY <2>2, <3>3, <3>4
    <2> QED
        BY <2>1, <2>2
<1>12. ASSUME CrashRestart PROVE OwnInv'
    BY <1>12 DEF CrashRestart
<1>13. CASE UNCHANGED vars
    BY <1>13 DEF vars, dirs, pvars, rvars
<1> QED
    BY <1>1, <1>2, <1>3, <1>4, <1>5, <1>6, <1>7, <1>8, <1>9, <1>10, <1>11, <1>12, <1>13
       DEF Next, Pipeline

(* Once StagePublish got past its rename production holds the output of this
   very build, whatever fails, dies or is generated meanwhile, as long as no
   rollback meets the publication: only the rename of a rollback could take
   production away again.  It holds nothing else, unless the removal of an
   old staging failed and this build was put over what was left of it.      *)
THEOREM RepoPublishesOwn ==
    ASSUME {"publish", "rollback"} \notin Overlaps
    PROVE  Spec => []PublishedIsOwn
<1>1. Init => OwnInv
    BY DEF Init, OwnInv, Apart
<1>2. OwnInv => PublishedIsOwn
    BY DEF OwnInv, Ours, PublishedIsOwn, Absent
<1>3. RepoInv /\ OwnInv /\ [Next]_vars => OwnInv'
    BY OwnStep
<1> QED
    BY <1>1, <1>2, <1>3, RepoInvHolds, PTL DEF Spec

-----------------------------------------------------------------------------
(* While a rollback has put production aside: at most one does, and tmp is
   there exactly meanwhile.                                                 *)
Holding(h) == rb[h] \in {"aside", "placed", "undo", "rejoined"}

Serial == \A h \in Handler : rb[h] # "idle" => pub = "idle" /\ gen = "idle"

SweptInv ==
    /\ crashes = 0
    /\ Serial
    /\ pub = "idle" => staging = NoRepo
    /\ \A h, g \in Handler : Holding(h) /\ Holding(g) => h = g
    /\ tmp # NoRepo => \E h \in Handler : Holding(h)
    /\ \A h \in Handler : Holding(h) => tmp # NoRepo
    /\ \A h \in Handler : rb[h] \in {"aside", "undo"} => prod = NoRepo

(* Every step but a kill keeps tmp in the hands of one rollback. *)
LEMMA SweptStep ==
    ASSUME {"publish", "rollback"} \notin Overlaps, {"generate", "rollback"} \notin Overlaps,
           MaxCrashes = 0, Faults \cap {"sweep", "undo", "clean"} = {}
    PROVE  RepoInv /\ SweptInv /\ [Next]_vars => SweptInv'
<1> SUFFICES ASSUME RepoInv, SweptInv, [Next]_vars PROVE SweptInv'
    OBVIOUS
<1>0. rb \in [Handler -> {"idle", "found", "aside", "placed", "undo", "rejoined"}]
    BY DEF RepoInv, LocalsOK
<1> USE DEF SweptInv, Serial, Holding
<1>1. ASSUME NEW b \in Build, PBegin(b) PROVE SweptInv'
    <2>1. \A h \in Handler : rb[h] = "idle"
        BY <1>1 DEF PBegin, MayStart
    <2>2. /\ UNCHANGED <<prod, tmp, gen, crashes>> /\ rb' = rb /\ pub' = "preserve"
        BY <1>1 DEF PBegin, rvars
    <2> QED
        BY <2>1, <2>2
<1>2. ASSUME PAbort \/ PPreserve \/ PHistory \/ PCopy \/ PCopied \/ PRemove \/ PRemoved
             \/ PSwap \/ PPrune \/ PTrim \/ PExit
      PROVE  SweptInv'
    <2>1. /\ pub # "idle" /\ UNCHANGED <<tmp, gen, crashes>> /\ rb' = rb
          /\ pub' = "idle" => staging' = NoRepo
        BY <1>2 DEF Fails, PAbort, PPreserve, PHistory, PCopy, PCopied, PRemove, PRemoved, PSwap, PPrune,
                    PTrim, PExit, dirs, rvars
    <2> QED
        BY <2>1
<1>3. ASSUME NEW h \in Handler, Rollback(h) PROVE SweptInv'
    <2>1. pub = "idle" /\ gen = "idle"
        BY <1>3 DEF Rollback, RFind, RAside, RPlace, RUndo, RRejoin, RClean, MayStart
    <2>2. UNCHANGED <<staging, pub, gen, crashes>>
        BY <1>3 DEF Rollback, RFind, RAside, RPlace, RUndo, RRejoin, RClean, pvars, dirs
    <2>3. CASE \E t \in Stamp : RFind(h, t)
        <3>1. /\ rb[h] = "idle" /\ rb' = [rb EXCEPT ![h] = "found"]
              /\ prod' = prod /\ tmp' = tmp
            BY <2>3 DEF RFind, dirs
        <3> QED
            BY <1>0, <2>1, <2>2, <3>1
    <2>4. CASE RAside(h)
        <3>1. \/ /\ prod' = prod /\ tmp' = tmp
                 /\ rb[h] = "found" /\ rb' = [rb EXCEPT ![h] = "idle"]
              \/ /\ prod # NoRepo /\ tmp = NoRepo
                 /\ tmp' = prod /\ prod' = NoRepo
                 /\ rb[h] = "found" /\ rb' = [rb EXCEPT ![h] = "aside"]
            BY <2>4 DEF RAside, RReturn, RGoto, Absent, dirs
        <3> QED
            BY <1>0, <2>1, <2>2, <3>1
    <2>5. CASE RPlace(h)
        <3>1. /\ rb[h] = "aside" /\ prod = NoRepo /\ tmp # NoRepo
            BY <2>5 DEF RPlace
        <3>2. tmp \in Directory
            BY <3>1 DEF RepoInv, DirsOK
        <3>3. \/ /\ rb' = [rb EXCEPT ![h] = "placed"]
                 /\ tmp' = [tmp EXCEPT !.hist = H!Without(tmp.hist, {snap[h]})]
              \/ /\ rb' = [rb EXCEPT ![h] = "undo"]
                 /\ tmp' = tmp /\ prod' = prod
            BY <2>5 DEF RPlace, RGoto
        <3>4. tmp' # NoRepo
            BY <3>1, <3>2, <3>3, FieldsAre, WithoutIsHistory, WithHist
        <3>5. \A g \in Handler : g # h => ~Holding(g) /\ rb'[g] = rb[g]
            BY <1>0, <3>1, <3>3
        <3> QED
            BY <1>0, <2>1, <2>2, <3>1, <3>3, <3>4, <3>5
    <2>6. CASE RUndo(h)
        <3>1. /\ rb[h] = "undo" /\ rb' = [rb EXCEPT ![h] = "idle"]
              /\ prod' = tmp /\ tmp' = NoRepo
            BY <2>6 DEF RUndo, RReturn, Absent, Fails
        <3> QED
            BY <1>0, <2>1, <2>2, <3>1
    <2>7. CASE RRejoin(h)
        <3>1. /\ rb[h] = "placed" /\ tmp # NoRepo /\ rb' = [rb EXCEPT ![h] = "rejoined"]
            BY <2>7 DEF RRejoin, RGoto
        <3>2. tmp \in Directory
            BY <3>1 DEF RepoInv, DirsOK
        <3>3. tmp' = tmp \/ tmp' = [tmp EXCEPT !.hist = H!Empty]
            BY <2>7 DEF RRejoin
        <3>4. tmp' # NoRepo
            BY <3>2, <3>3, FieldsAre, EmptyIsHistory, WithHist
        <3>5. \A g \in Handler : g # h => ~Holding(g) /\ rb'[g] = rb[g]
            BY <1>0, <3>1
        <3> QED
            BY <1>0, <2>1, <2>2, <3>1, <3>4, <3>5
    <2>8. CASE RClean(h)
        <3>1. /\ rb[h] = "rejoined" /\ rb' = [rb EXCEPT ![h] = "idle"]
              /\ prod' = prod /\ tmp' = NoRepo
            BY <2>8 DEF RClean, RReturn, Fails
        <3> QED
            BY <1>0, <2>1, <2>2, <3>1
    <2> QED
        BY <1>3, <2>3, <2>4, <2>5, <2>6, <2>7, <2>8 DEF Rollback
<1>4. ASSUME GMkdir \/ GWrite PROVE SweptInv'
    <2>1. UNCHANGED <<staging, tmp, pub, crashes>> /\ rb' = rb
        BY <1>4 DEF GMkdir, GWrite, pvars, rvars
    <2>2. \A h \in Handler : rb[h] = "idle"
        BY <1>4 DEF GMkdir, GWrite, MayStart
    <2> QED
        BY <2>1, <2>2
<1>5. ~CrashRestart
    BY Bounds DEF CrashRestart
<1>6. CASE UNCHANGED vars
    BY <1>6 DEF vars, dirs, pvars, rvars
<1> QED
    BY <1>1, <1>2, <1>3, <1>4, <1>5, <1>6 DEF Next, Pipeline

(* No operation leaves staging or rollback-tmp behind, whatever file
   operation fails before, however many rollbacks meet and whatever is
   generated during a publication, if the three steps that remove them do not
   fail themselves (their errors are dropped), nothing else overlaps a
   rollback and the server is not killed.                                   *)
THEOREM RepoWorkDirsRemoved ==
    ASSUME {"publish", "rollback"} \notin Overlaps, {"generate", "rollback"} \notin Overlaps,
           MaxCrashes = 0, Faults \cap {"sweep", "undo", "clean"} = {}
    PROVE  Spec => []WorkDirsRemoved
<1>1. Init => SweptInv
    BY DEF Init, SweptInv, Serial, Holding
<1>2. SweptInv => WorkDirsRemoved
    BY DEF SweptInv, Holding, WorkDirsRemoved, Quiet, Absent
<1>3. RepoInv /\ SweptInv /\ [Next]_vars => SweptInv'
    BY SweptStep
<1> QED
    BY <1>1, <1>2, <1>3, RepoInvHolds, PTL DEF Spec

-----------------------------------------------------------------------------
(* An output on disk is in one of the three directories. *)
LEMMA OutsOfThree ==
    ASSUME NEW a, NEW b, NEW c
    PROVE  UNION {OutsOf(d) : d \in {a, b, c}} = OutsOf(a) \cup OutsOf(b) \cup OutsOf(c)
<1>1. \A o : o \in UNION {OutsOf(d) : d \in {a, b, c}} <=> \E d \in {a, b, c} : o \in OutsOf(d)
    BY Zenon
<1> QED
    BY <1>1

(* The outputs in a directory put together from an output and a history. *)
LEMMA OutsOfDir ==
    ASSUME NEW d \in Directory
    PROVE  OutsOf(d) = {d.out} \cup {d.hist[t].out : t \in DOMAIN d.hist}
BY FieldsAre DEF OutsOf, Absent

(* A step of a rollback or of a generation loses no output, unless it is the
   removal of what was put aside.                                           *)
LEMMA LosesNothing ==
    ASSUME RepoInv, pub = "idle", pub' = "idle", Next, NEW o \in OnDisk, o \notin OnDisk'
    PROVE  \E h \in Handler : rb[h] = "rejoined" /\ (o = tmp.out \/ tmp.hist # H!Empty)
<1>0. /\ o # NoRepo /\ (o \in OutsOf(prod) \/ o \in OutsOf(staging) \/ o \in OutsOf(tmp))
      /\ o \notin OutsOf(prod') /\ o \notin OutsOf(staging') /\ o \notin OutsOf(tmp')
    <2>1. OnDisk = (OutsOf(prod) \cup OutsOf(staging) \cup OutsOf(tmp)) \ {NoRepo}
        <3>1. UNION {OutsOf(d) : d \in {prod, staging, tmp}}
                = OutsOf(prod) \cup OutsOf(staging) \cup OutsOf(tmp)
            BY OutsOfThree
        <3> QED
            BY <3>1 DEF OnDisk
    <2>2. OnDisk' = (OutsOf(prod') \cup OutsOf(staging') \cup OutsOf(tmp')) \ {NoRepo}
        <3>1. UNION {OutsOf(d) : d \in {prod', staging', tmp'}}
                = OutsOf(prod') \cup OutsOf(staging') \cup OutsOf(tmp')
            BY OutsOfThree
        <3> QED
            BY <3>1 DEF OnDisk
    <2> QED
        BY <2>1, <2>2
<1>1. /\ prod \in Directory \cup {NoRepo} /\ tmp \in Directory \cup {NoRepo}
      /\ prod' \in Directory \cup {NoRepo} /\ tmp' \in Directory \cup {NoRepo}
    <2>1. DirsOK'
        BY DirsStep DEF RepoInv
    <2> QED
        BY <2>1 DEF RepoInv, DirsOK
<1>2. OutsOf(NoRepo) = {}
    BY DEF OutsOf, Absent
<1>3. ~Pipeline
    BY DEF Pipeline, PBegin, PAbort, PPreserve, PHistory, PCopy, PCopied, PRemove, PRemoved, PSwap,
           PPrune, PTrim, PExit
<1>4. ~CrashRestart
    BY <1>0 DEF CrashRestart, dirs
<1>5. ASSUME GMkdir \/ GWrite PROVE FALSE
    <2>1. staging' = staging /\ tmp' = tmp /\ o \in OutsOf(prod)
        BY <1>0, <1>5 DEF GMkdir, GWrite
    <2>2. prod \in Directory
        BY <1>1, <1>2, <2>1
    <2>3. \/ prod' = prod
          \/ \E rs \in Rpms : prod' = [prod EXCEPT !.rpms = rs]
        <3>1. \A r \in Rpm : prod.rpms # NoDir => prod.rpms \cup {r} \in Rpms
            BY <2>2, FieldsAre DEF Rpms
        <3>2. {} \in Rpms /\ ~Absent(prod)
            BY <2>2, FieldsAre DEF Absent, Rpms
        <3> QED
            BY <1>5, <3>1, <3>2 DEF GMkdir, GWrite
    <2>4. prod' \in Directory /\ prod'.out = prod.out /\ prod'.hist = prod.hist
        <3>1. ASSUME NEW rs \in Rpms, prod' = [prod EXCEPT !.rpms = rs]
              PROVE  prod' \in Directory /\ prod'.out = prod.out /\ prod'.hist = prod.hist
            BY <2>2, <3>1, WithRpms
        <3> QED
            BY <2>2, <2>3, <3>1
    <2> QED
        BY <1>0, <2>1, <2>2, <2>4, OutsOfDir
<1>6. ASSUME NEW h \in Handler, Rollback(h), rb[h] # "rejoined" PROVE FALSE
    <2>1. staging' = staging
        BY <1>6 DEF Rollback, RFind, RAside, RPlace, RUndo, RRejoin, RClean, dirs
    <2>2. o \in OutsOf(prod) \/ o \in OutsOf(tmp)
        BY <1>0, <2>1
    <2>3. CASE (\E t \in Stamp : RFind(h, t)) \/ RAside(h) \/ RUndo(h)
        <3>1. \/ prod' = prod /\ tmp' = tmp
              \/ prod' = NoRepo /\ tmp' = prod /\ tmp = NoRepo
              \/ prod' = tmp /\ tmp' = NoRepo /\ prod = NoRepo
            BY <2>3 DEF RFind, RAside, RUndo, Absent, dirs
        <3> QED
            BY <1>0, <1>2, <2>2, <3>1
    <2>4. CASE RPlace(h)
        <3> DEFINE s == snap[h]
        <3>1. CASE prod' = prod /\ tmp' = tmp
            BY <1>0, <2>2, <3>1
        <3>2. CASE /\ prod = NoRepo /\ tmp # NoRepo /\ s \in DOMAIN tmp.hist
                   /\ prod' = Dir(tmp.hist[s].out, tmp.hist[s].rpms, H!Empty)
                   /\ tmp' = [tmp EXCEPT !.hist = H!Without(tmp.hist, {s})]
            <4>1. tmp \in Directory /\ o \in OutsOf(tmp) /\ tmp.hist \in History
                BY <1>1, <1>2, <2>2, <3>2, FieldsAre
            <4>2. /\ tmp.hist[s].out \in Outs /\ tmp.hist[s].rpms \in Rpms
                  /\ H!Empty \in History /\ H!Without(tmp.hist, {s}) \in History
                BY <3>2, <4>1, SnapshotIsRepo, EmptyIsHistory, WithoutIsHistory DEF Repo, Outs, Out, Rpms
            <4>3. prod' \in Directory /\ prod'.out = tmp.hist[s].out
                BY <3>2, <4>2, DirIs
            <4>4. tmp' \in Directory /\ tmp'.out = tmp.out /\ tmp'.hist = H!Without(tmp.hist, {s})
                BY <3>2, <4>1, <4>2, WithHist
            <4>5. o # tmp.out /\ o # tmp.hist[s].out
                BY <1>0, <4>3, <4>4, OutsOfDir
            <4>6. PICK t \in DOMAIN tmp.hist : o = tmp.hist[t].out
                BY <4>1, <4>5, OutsOfDir
            <4>7. t \in DOMAIN tmp'.hist /\ tmp'.hist[t] = tmp.hist[t]
                BY <4>4, <4>5, <4>6 DEF H!Without
            <4> QED
                BY <1>0, <4>4, <4>6, <4>7, OutsOfDir
        <3> QED
            BY <2>4, <3>1, <3>2 DEF RPlace, Absent
    <2>5. CASE RRejoin(h)
        <3>1. CASE prod' = prod /\ tmp' = tmp
            BY <1>0, <2>2, <3>1
        <3>2. CASE /\ prod # NoRepo /\ tmp # NoRepo /\ prod.hist = H!Empty
                   /\ prod' = [prod EXCEPT !.hist = tmp.hist]
                   /\ tmp' = [tmp EXCEPT !.hist = H!Empty]
            <4>1. /\ prod \in Directory /\ tmp \in Directory
                  /\ tmp.hist \in History /\ H!Empty \in History
                BY <1>1, <3>2, FieldsAre, EmptyIsHistory
            <4>2. /\ prod' \in Directory /\ prod'.out = prod.out /\ prod'.hist = tmp.hist
                  /\ tmp' \in Directory /\ tmp'.out = tmp.out
                BY <3>2, <4>1, WithHist
            <4>3. {prod.hist[t].out : t \in DOMAIN prod.hist} = {}
                BY <3>2 DEF H!Empty
            <4> QED
                BY <1>0, <2>2, <4>1, <4>2, <4>3, OutsOfDir
        <3> QED
            BY <2>5, <3>1, <3>2 DEF RRejoin, Absent
    <2>6. ~RClean(h)
        BY <1>6 DEF RClean
    <2> QED
        BY <1>6, <2>3, <2>4, <2>5, <2>6 DEF Rollback
<1>7. ASSUME NEW h \in Handler, rb[h] = "rejoined", Rollback(h)
      PROVE  o = tmp.out \/ tmp.hist # H!Empty
    <2>1. RClean(h)
        BY <1>7 DEF Rollback, RFind, RAside, RPlace, RUndo, RRejoin
    <2>2. prod' = prod /\ staging' = staging /\ o \in OutsOf(tmp)
        BY <1>0, <2>1 DEF RClean
    <2>3. tmp \in Directory
        BY <1>1, <1>2, <2>2
    <2>4. tmp.hist = H!Empty => {tmp.hist[t].out : t \in DOMAIN tmp.hist} = {}
        BY DEF H!Empty
    <2> QED
        BY <2>2, <2>3, <2>4, OutsOfDir
<1> QED
    BY <1>3, <1>4, <1>5, <1>6, <1>7 DEF Next

(* A rollback loses no build that is on disk before its last step, however
   rollbacks, publications and generations overlap, whatever fails and
   whenever the server dies: each rename has both its ends on disk.         *)
THEOREM RepoRollbackLosesNothing == Spec => RollbackLosesNothing
<1>1. RepoInv /\ [Next]_vars =>
         [pub = "idle" /\ pub' = "idle" => \A o \in OnDisk \ OnDisk' : \E h \in Handler :
             rb[h] = "rejoined" /\ (o = tmp.out \/ tmp.hist # H!Empty)]_vars
    BY LosesNothing
<1> QED
    BY <1>1, RepoInvHolds, PTL DEF Spec, RollbackLosesNothing

-----------------------------------------------------------------------------
(* The refinement of RepoHistory, if operations keep apart but for rollbacks
   among themselves, outputs have no links, and of the file operations only
   the rename of a snapshot to production may fail.                         *)

(* The phases of a publication between its copy and its rename, in which
   staging has the history.                                                 *)
Moved == {"copy", "copying", "remove", "removing", "swap"}

(* What the pipeline has handed over from production to staging. *)
Handover ==
    /\ gen # "idle" => pub = "idle"
    /\ stamp # 0 => stamp = now /\ pub \in Moved
    /\ pub \in {"copy", "copying", "remove", "removing"} => stamp # 0
    /\ pub \in {"preserve", "backup"} => staging.hist = H!Empty
    /\ pub \in {"prune", "trim"} => staging = NoRepo
    /\ pub = "exit" => HistOf(staging) = H!Empty
    /\ pub = "preserve" => staging.rpms = NoDir
    /\ pub = "backup" => staging.rpms = (IF prod = NoRepo THEN NoDir ELSE prod.rpms)
    /\ pub \in {"copy", "copying", "remove"} =>
          prod # NoRepo /\ prod.hist = H!Empty /\ staging.rpms = prod.rpms
    /\ pub \in {"copying", "remove", "removing"} \/ (pub = "swap" /\ stamp # 0) =>
          stamp \in DOMAIN staging.hist
    /\ pub = "remove" => staging.hist[stamp] = Tree(prod)
    /\ pub = "removing" \/ (pub = "swap" /\ stamp # 0) => staging.rpms = staging.hist[stamp].rpms
    /\ pub = "removing" => HistOf(prod) = H!Empty
    /\ pub = "swap" => prod = NoRepo
    /\ pub = "swap" /\ stamp = 0 => staging.hist = H!Empty /\ staging.rpms = NoDir

(* What a rollback has put back. *)
PutBack ==
    /\ \A h \in Handler : rb[h] \in {"placed", "rejoined"} => prod # NoRepo
    /\ \A h \in Handler : rb[h] = "placed" => prod.hist = H!Empty
    /\ \A h \in Handler : rb[h] = "rejoined" => tmp.hist = H!Empty

(* The clock is never behind a snapshot, and ahead of all of them while the
   next one is being made.                                                  *)
Dated ==
    /\ \A u \in DOMAIN HistOf(prod) : u <= now /\ (pub \in {"preserve", "backup"} => u < now)
    /\ \A u \in DOMAIN HistOf(tmp) : u <= now
    /\ \A u \in DOMAIN HistOf(staging) : u < now \/ u = stamp

(* Only what is being copied or removed is torn, and nothing is mixed. *)
Sound(o) == o \notin {Torn, Mixed}

Whole(d) == d # NoRepo => Sound(d.out) /\ \A t \in DOMAIN d.hist : Sound(d.hist[t].out)

Intact ==
    /\ pub # "removing" => Whole(prod)
    /\ Whole(tmp)
    /\ staging # NoRepo =>
          /\ Sound(staging.out)
          /\ \A t \in DOMAIN staging.hist :
                (t = stamp /\ pub = "copying") \/ Sound(staging.hist[t].out)

LedgerInv == Handover /\ PutBack /\ Dated /\ Intact

(* What the refinement mapping reads off them. *)
Served ==
    IF pub \in {"removing", "swap"} /\ stamp # 0 THEN staging.hist[stamp]
    ELSE IF prod # NoRepo THEN Tree(prod)
    ELSE IF tmp # NoRepo THEN Tree(tmp) ELSE NoRepo

Home ==
    IF pub \in Moved THEN staging
    ELSE IF HistOf(tmp) # H!Empty THEN tmp ELSE prod

Kept == [t \in DOMAIN HistOf(Home) \ {stamp} |-> HistOf(Home)[t]]

Reads == LiveRepo = Served /\ Snapshots = Kept


(* The output of the pipeline and the directories it needs, typed. *)
LEMMA Contents ==
    ASSUME NEW d \in Directory \cup {NoRepo}
    PROVE  /\ HistOf(d) \in History
           /\ d # NoRepo => d \in Directory /\ HistOf(d) = d.hist /\ d.out \in Outs /\ d.rpms \in Rpms
           /\ d = NoRepo => HistOf(d) = H!Empty
BY EmptyIsHistory, FieldsAre DEF HistOf, Absent

(* The three modules count alike. *)
LEMMA SameCount ==
    \A S : H!Cardinality(S) = Cardinality(S) /\ Promise!Cardinality(S) = Cardinality(S)
BY DEF Cardinality, H!Cardinality, Promise!Cardinality

(* What a snapshot of a directory holds. *)
LEMMA TreeIsRepo == \A d \in Directory : Tree(d) \in Repo
BY DEF Tree, Repo, Directory

(* A directory without history has no snapshots. *)
LEMMA EmptyHas == DOMAIN H!Empty = {}
BY DEF H!Empty

(* A step that leaves the pipeline idle and starts none keeps its part. *)
LEMMA HandoverIdle ==
    ASSUME LocalsOK, Handover, pub = "idle", pub' = "idle", stamp' = stamp
    PROVE  Handover'
BY DEF Handover, Moved, LocalsOK

(* The conditions of the refinement. *)
Orderly ==
    /\ {"publish", "rollback"} \notin Overlaps
    /\ {"generate", "rollback"} \notin Overlaps
    /\ {"publish", "generate"} \notin Overlaps
    /\ Linked = {} /\ Faults \subseteq {"restore"} /\ MaxCrashes = 0

(* A pipeline that runs has a build, and the clock has ticked for it. *)
Named == pub # "idle" => pb \in Build /\ now # 0

OrderlyInv == RepoInv /\ SweptInv /\ OwnInv /\ LedgerInv /\ Named

(* A publication meets nothing. *)
LEMMA PublishesAlone ==
    ASSUME Orderly, OrderlyInv, pub # "idle" \/ \E b \in Build : PBegin(b)
    PROVE  gen = "idle" /\ tmp = NoRepo /\ \A h \in Handler : rb[h] = "idle"
<1>1. gen = "idle" /\ \A h \in Handler : rb[h] = "idle"
    BY DEF Orderly, OrderlyInv, LedgerInv, Handover, OwnInv, Apart, PBegin, MayStart
<1> QED
    BY <1>1 DEF OrderlyInv, SweptInv, Holding

(* The steps of the pipeline up to the copy of production. *)
LEMMA LedgerBegin ==
    ASSUME Orderly, OrderlyInv, NEW b \in Build, PBegin(b)
    PROVE  LedgerInv'
<1> DEFINE s == Dir(b, NoDir, H!Empty)
<1>1. s # NoRepo /\ s.out = b /\ s.rpms = NoDir /\ s.hist = H!Empty
    BY EmptyIsHistory, DirIs DEF Outs, Rpms
<1>2. /\ staging' = s /\ pub' = "preserve" /\ stamp' = 0 /\ now' = now + 1
      /\ prod' = prod /\ tmp' = tmp /\ rb' = rb /\ gen' = gen /\ pub = "idle"
    BY DEF PBegin, rvars, Fails, Orderly
<1> HIDE DEF s
<1>3. tmp = NoRepo /\ gen = "idle" /\ \A h \in Handler : rb[h] = "idle"
    BY PublishesAlone
<1>4. Handover' /\ PutBack'
    BY <1>1, <1>2, <1>3 DEF Handover, PutBack, Moved
<1>5. Dated'
    <2>1. now \in Nat
        BY Bounds DEF OrderlyInv, RepoInv, LocalsOK
    <2>2. \A u \in DOMAIN HistOf(prod) : u \in Nat /\ u <= now
        <3>1. DOMAIN HistOf(prod) \subseteq Stamp
            BY Contents, HistoryIs DEF OrderlyInv, RepoInv, DirsOK
        <3> QED
            BY <3>1 DEF OrderlyInv, LedgerInv, Dated, Stamp
    <2>3. HistOf(tmp) = H!Empty /\ HistOf(s) = H!Empty
        BY <1>1, <1>3 DEF HistOf, Absent
    <2> QED
        BY <1>2, <2>1, <2>2, <2>3, EmptyHas DEF Dated
<1>6. Intact'
    <2>1. Sound(s.out)
        BY <1>1, TornIsNothing DEF Sound
    <2> QED
        BY <1>1, <1>2, <2>1, EmptyHas DEF OrderlyInv, LedgerInv, Intact, Whole
<1> QED
    BY <1>4, <1>5, <1>6 DEF LedgerInv

(* A build that ends before it publishes. *)
LEMMA LedgerAbort ==
    ASSUME Orderly, OrderlyInv, PAbort
    PROVE  LedgerInv'
<1>1. /\ UNCHANGED <<prod, staging, tmp, stamp, now, rb, gen>>
      /\ pub = "preserve" /\ pub' = "exit"
    BY DEF PAbort, dirs, rvars
<1>2. tmp = NoRepo /\ gen = "idle" /\ \A h \in Handler : rb[h] = "idle"
    BY <1>1, PublishesAlone
<1>3. Handover' /\ PutBack'
    BY <1>1, <1>2, EmptyHas DEF OrderlyInv, LedgerInv, Handover, PutBack, Moved, HistOf
<1>4. Dated' /\ Intact'
    BY <1>1 DEF OrderlyInv, LedgerInv, Dated, Intact, Whole
<1> QED
    BY <1>3, <1>4 DEF LedgerInv

(* Production's repo RPMs are copied. *)
LEMMA LedgerPreserve ==
    ASSUME Orderly, OrderlyInv, PPreserve
    PROVE  LedgerInv'
<1>1. /\ UNCHANGED <<prod, tmp, stamp, now, rb, gen>> /\ pub = "preserve" /\ pub' = "backup"
    BY DEF PPreserve, rvars
<1>2. tmp = NoRepo /\ gen = "idle" /\ \A h \in Handler : rb[h] = "idle"
    BY <1>1, PublishesAlone
<1>3. staging \in Directory /\ staging.hist = H!Empty /\ staging.rpms = NoDir
    BY <1>1 DEF OrderlyInv, RepoInv, DirsOK, Stages, LedgerInv, Handover
<1>4. /\ staging' \in Directory /\ staging' # NoRepo /\ staging'.hist = H!Empty
      /\ staging'.out = staging.out
      /\ staging'.rpms = (IF prod = NoRepo THEN NoDir ELSE prod.rpms)
    <2>1. CASE prod # NoRepo
        <3>1. prod.rpms \in Rpms
            BY <2>1, Contents DEF OrderlyInv, RepoInv, DirsOK
        <3>2. staging' = [staging EXCEPT !.rpms = prod.rpms]
            BY <1>3, <2>1 DEF PPreserve, Both, Absent, Fails, Orderly
        <3> QED
            BY <1>3, <2>1, <3>1, <3>2, WithRpms
    <2>2. CASE prod = NoRepo
        BY <1>3, <2>2, FieldsAre DEF PPreserve, Absent
    <2> QED
        BY <2>1, <2>2
<1>5. Handover' /\ PutBack'
    BY <1>1, <1>2, <1>4 DEF OrderlyInv, LedgerInv, Handover, PutBack, Moved
<1>6. HistOf(staging') = H!Empty
    BY <1>4 DEF HistOf
<1>7. Dated'
    BY <1>1, <1>6, EmptyHas DEF OrderlyInv, LedgerInv, Dated
<1>8. Intact'
    BY <1>1, <1>3, <1>4, EmptyHas, Absence DEF OrderlyInv, LedgerInv, Intact, Whole
<1> QED
    BY <1>5, <1>7, <1>8 DEF LedgerInv

(* The history moves to staging. *)
LEMMA LedgerHistory ==
    ASSUME Orderly, OrderlyInv, PHistory
    PROVE  LedgerInv'
<1>1. /\ UNCHANGED <<tmp, now, rb, gen>> /\ pub = "backup"
    BY DEF PHistory, rvars
<1>2. tmp = NoRepo /\ gen = "idle" /\ \A h \in Handler : rb[h] = "idle"
    BY <1>1, PublishesAlone
<1>3. /\ staging \in Directory /\ staging.hist = H!Empty /\ staging # NoRepo
      /\ staging.rpms = (IF prod = NoRepo THEN NoDir ELSE prod.rpms)
      /\ stamp = 0 /\ now \in Stamp
    BY <1>1 DEF OrderlyInv, RepoInv, DirsOK, Stages, LedgerInv, Handover, Moved
<1>4. CASE prod = NoRepo
    <2>1. UNCHANGED <<prod, staging, stamp>> /\ pub' = "swap"
        BY <1>4 DEF PHistory, Absent
    <2>2. Handover' /\ PutBack'
        BY <1>1, <1>2, <1>3, <1>4, <2>1 DEF OrderlyInv, LedgerInv, Handover, PutBack, Moved
    <2>3. Dated' /\ Intact'
        BY <1>1, <1>3, <2>1, EmptyHas DEF OrderlyInv, LedgerInv, Dated, Intact, Whole
    <2> QED
        BY <2>2, <2>3 DEF LedgerInv
<1>5. CASE prod # NoRepo
    <2>1. prod \in Directory /\ prod.hist \in History
        BY <1>5, Contents DEF OrderlyInv, RepoInv, DirsOK
    <2>2. /\ pub' = "copy" /\ stamp' = now
          /\ prod' = [prod EXCEPT !.hist = H!Empty]
          /\ staging' = [staging EXCEPT !.hist = prod.hist]
        <3>1. Sound(staging.out)
            BY <1>3 DEF OrderlyInv, LedgerInv, Intact
        <3> QED
            BY <1>5, <3>1 DEF PHistory, Absent, Fails, Orderly, Sound
    <2>3. /\ prod' # NoRepo /\ prod'.hist = H!Empty /\ prod'.rpms = prod.rpms /\ prod'.out = prod.out
          /\ staging' # NoRepo /\ staging'.hist = prod.hist /\ staging'.rpms = staging.rpms
          /\ staging'.out = staging.out
        BY <1>3, <2>1, <2>2, WithHist, EmptyIsHistory
    <2>4. now # 0
        BY <1>3 DEF Stamp
    <2>5. Handover' /\ PutBack'
        BY <1>1, <1>2, <1>3, <1>5, <2>2, <2>3, <2>4 DEF Handover, PutBack, Moved
    <2>6. /\ HistOf(prod') = H!Empty /\ HistOf(tmp') = H!Empty
          /\ HistOf(staging') = prod.hist /\ HistOf(prod) = prod.hist
        BY <1>1, <1>2, <1>5, <2>3 DEF HistOf, Absent
    <2>7. Dated'
        BY <1>1, <2>2, <2>6, EmptyHas DEF OrderlyInv, LedgerInv, Dated
    <2>8. Intact'
        BY <1>1, <1>2, <1>3, <1>5, <2>2, <2>3, EmptyHas DEF OrderlyInv, LedgerInv, Intact, Whole
    <2> QED
        BY <2>5, <2>7, <2>8 DEF LedgerInv
<1> QED
    BY <1>4, <1>5

(* The copy of production begins ... *)
LEMMA LedgerCopy ==
    ASSUME Orderly, OrderlyInv, PCopy
    PROVE  LedgerInv'
<1> DEFINE torn == [out |-> Torn, rpms |-> NoDir]
           put == H!Put(staging.hist, stamp, torn)
<1>1. /\ UNCHANGED <<prod, tmp, stamp, now, rb, gen>> /\ pub = "copy"
    BY DEF PCopy, rvars
<1>2. tmp = NoRepo /\ gen = "idle" /\ \A h \in Handler : rb[h] = "idle"
    BY <1>1, PublishesAlone
<1>3. /\ staging \in Directory /\ staging.hist \in History /\ stamp \in Stamp
      /\ prod # NoRepo /\ prod.hist = H!Empty /\ staging.rpms = prod.rpms
      /\ stamp = now /\ stamp # 0
    BY <1>1, FieldsAre DEF OrderlyInv, RepoInv, DirsOK, Stages, LedgerInv, Handover
<1>4. torn \in Repo
    <2>1. NoDir \in (SUBSET Rpm) \cup {NoDir} /\ Torn \in Out
        BY Zenon DEF Out
    <2> QED
        BY <2>1, Zenon DEF Repo
<1>5. staging' = [staging EXCEPT !.hist = put] /\ pub' = "copying"
    BY <1>3 DEF PCopy, Absent
<1> HIDE DEF torn
<1>6. /\ put \in History /\ stamp \in DOMAIN put
      /\ DOMAIN put = DOMAIN staging.hist \cup {stamp}
      /\ \A u \in DOMAIN staging.hist : u # stamp => put[u] = staging.hist[u]
    BY <1>3, <1>4, PutIsHistory DEF H!Put
<1> HIDE DEF put
<1>7. /\ staging' \in Directory /\ staging' # NoRepo /\ staging'.hist = put
      /\ staging'.rpms = staging.rpms /\ staging'.out = staging.out
    BY <1>3, <1>5, <1>6, WithHist
<1>8. Handover' /\ PutBack'
    BY <1>1, <1>2, <1>3, <1>5, <1>6, <1>7 DEF Handover, PutBack, Moved
<1>9. HistOf(staging') = put /\ HistOf(staging) = staging.hist
    BY <1>3, <1>7, Absence DEF HistOf, Absent
<1>10. Dated'
    BY <1>1, <1>5, <1>6, <1>9 DEF OrderlyInv, LedgerInv, Dated
<1>11. Intact'
    BY <1>1, <1>3, <1>5, <1>6, <1>7, Absence DEF OrderlyInv, LedgerInv, Intact, Whole
<1> QED
    BY <1>8, <1>10, <1>11 DEF LedgerInv

(* ... and is complete. *)
LEMMA LedgerCopied ==
    ASSUME Orderly, OrderlyInv, PCopied
    PROVE  LedgerInv'
<1> DEFINE copy == [staging.hist EXCEPT ![stamp] = Tree(prod)]
<1>1. /\ UNCHANGED <<prod, tmp, stamp, now, rb, gen>> /\ pub = "copying" /\ pub' = "remove"
    BY DEF PCopied, rvars
<1>2. tmp = NoRepo /\ gen = "idle" /\ \A h \in Handler : rb[h] = "idle"
    BY <1>1, PublishesAlone
<1>3. /\ staging \in Directory /\ staging.hist \in History /\ stamp \in DOMAIN staging.hist
      /\ prod # NoRepo /\ prod.hist = H!Empty /\ staging.rpms = prod.rpms
      /\ stamp = now /\ stamp # 0
    BY <1>1, FieldsAre DEF OrderlyInv, RepoInv, DirsOK, Stages, LedgerInv, Handover
<1>4. prod \in Directory /\ Sound(prod.out)
    BY <1>1, <1>3 DEF OrderlyInv, RepoInv, DirsOK, LedgerInv, Intact, Whole
<1>5. staging' = [staging EXCEPT !.hist = copy]
    BY <1>3, <1>4 DEF PCopied, MayBreak, Fails, Absent, Orderly, Sound
<1>6. /\ Tree(prod) \in Repo /\ Tree(prod).out = prod.out
    BY <1>4, FieldsAre DEF Tree, Repo, Outs, Out, Rpms
<1>7. /\ copy \in History /\ DOMAIN copy = DOMAIN staging.hist /\ copy[stamp] = Tree(prod)
      /\ \A u \in DOMAIN staging.hist : u # stamp => copy[u] = staging.hist[u]
    BY <1>3, <1>6, ExceptIsHistory
<1> HIDE DEF copy
<1>8. /\ staging' \in Directory /\ staging' # NoRepo /\ staging'.hist = copy
      /\ staging'.rpms = staging.rpms /\ staging'.out = staging.out
    BY <1>3, <1>5, <1>7, WithHist
<1>9. Tree(prod') = Tree(prod)
    BY <1>1
<1>10. Handover' /\ PutBack'
    BY <1>1, <1>2, <1>3, <1>7, <1>8, <1>9 DEF Handover, PutBack, Moved
<1>11. HistOf(staging') = copy /\ HistOf(staging) = staging.hist
    BY <1>3, <1>8, Absence DEF HistOf, Absent
<1>12. Dated'
    BY <1>1, <1>7, <1>11 DEF OrderlyInv, LedgerInv, Dated
<1>13. Intact'
    BY <1>1, <1>3, <1>4, <1>6, <1>7, <1>8, Absence DEF OrderlyInv, LedgerInv, Intact, Whole
<1> QED
    BY <1>10, <1>12, <1>13 DEF LedgerInv

(* Production is removed: its copy stands in for it. *)
LEMMA LedgerRemove ==
    ASSUME Orderly, OrderlyInv, PRemove \/ PRemoved
    PROVE  LedgerInv'
<1>1. /\ UNCHANGED <<staging, tmp, stamp, now, rb, gen>>
      /\ \/ pub = "remove" /\ pub' = "removing"
         \/ pub = "removing" /\ pub' = "swap"
    BY DEF PRemove, PRemoved, Fails, Orderly, rvars
<1>2. tmp = NoRepo /\ gen = "idle" /\ \A h \in Handler : rb[h] = "idle"
    BY <1>1, PublishesAlone
<1>3. stamp # 0 /\ stamp \in DOMAIN staging.hist /\ stamp = now /\ staging # NoRepo
    BY <1>1 DEF OrderlyInv, RepoInv, Stages, LedgerInv, Handover
<1>4. HistOf(prod') = H!Empty /\ (pub = "removing" => prod' = NoRepo)
    <2>1. CASE pub = "remove"
        <3>1. prod' = Dir(Torn, NoDir, H!Empty)
            BY <2>1 DEF PRemove, PRemoved, Absent, OrderlyInv, LedgerInv, Handover
        <3>2. prod' # NoRepo /\ prod'.hist = H!Empty
            BY <3>1, DirIs, EmptyIsHistory DEF Outs, Rpms
        <3> QED
            BY <2>1, <3>2 DEF HistOf, Absent
    <2>2. CASE pub = "removing"
        BY <2>2 DEF PRemove, PRemoved, Fails, Orderly, HistOf, Absent
    <2> QED
        BY <1>1, <2>1, <2>2
<1>5. pub = "remove" => staging.hist[stamp].rpms = staging.rpms
    BY DEF OrderlyInv, LedgerInv, Handover, Tree
<1>6. Handover'
    BY <1>1, <1>2, <1>3, <1>4, <1>5 DEF OrderlyInv, LedgerInv, Handover, Moved
<1>7. PutBack'
    BY <1>1, <1>2 DEF PutBack
<1>8. Dated'
    BY <1>1, <1>4, EmptyHas DEF OrderlyInv, LedgerInv, Dated
<1>9. Intact'
    BY <1>1, <1>4 DEF OrderlyInv, LedgerInv, Intact, Whole
<1> QED
    BY <1>6, <1>7, <1>8, <1>9 DEF LedgerInv

(* Staging becomes production. *)
LEMMA LedgerSwap ==
    ASSUME Orderly, OrderlyInv, PSwap
    PROVE  LedgerInv'
<1>1. UNCHANGED <<tmp, now, rb, gen>> /\ pub = "swap"
    BY DEF PSwap, rvars
<1>2. tmp = NoRepo /\ gen = "idle" /\ \A h \in Handler : rb[h] = "idle"
    BY <1>1, PublishesAlone
<1>3. prod = NoRepo /\ staging # NoRepo
    BY <1>1 DEF OrderlyInv, RepoInv, Stages, LedgerInv, Handover
<1>4. prod' = staging /\ staging' = NoRepo /\ pub' = "prune" /\ stamp' = 0
    BY <1>3 DEF PSwap, Fails, Orderly, Absent
<1>5. Handover' /\ PutBack'
    BY <1>1, <1>2, <1>4 DEF Handover, PutBack, Moved
<1>6. HistOf(staging') = H!Empty
    BY <1>4 DEF HistOf, Absent
<1>7. \A u \in DOMAIN HistOf(staging) : u <= now
    <2>1. now \in Nat /\ (stamp # 0 => stamp = now)
        BY Bounds DEF OrderlyInv, RepoInv, LocalsOK, LedgerInv, Handover
    <2>2. DOMAIN HistOf(staging) \subseteq Stamp
        BY Contents, HistoryIs DEF OrderlyInv, RepoInv, DirsOK
    <2>3. \A u \in DOMAIN HistOf(staging) : u \in Nat \ {0} /\ (u < now \/ u = stamp)
        BY <2>2 DEF OrderlyInv, LedgerInv, Dated, Stamp
    <2> QED
        BY <2>1, <2>3
<1>8. Dated'
    BY <1>1, <1>4, <1>6, <1>7, EmptyHas DEF OrderlyInv, LedgerInv, Dated
<1>9. Intact'
    BY <1>1, <1>3, <1>4 DEF OrderlyInv, LedgerInv, Intact, Whole
<1> QED
    BY <1>5, <1>8, <1>9 DEF LedgerInv

(* A directory whose repo RPMs or history were thinned out is as whole. *)
LEMMA Thinned ==
    ASSUME NEW d \in Directory,
           NEW e, (\E rs \in Rpms : e = [d EXCEPT !.rpms = rs])
                  \/ (\E ts : e = [d EXCEPT !.hist = H!Without(d.hist, ts)])
    PROVE  /\ e \in Directory /\ e # NoRepo /\ e.out = d.out
           /\ DOMAIN HistOf(e) \subseteq DOMAIN HistOf(d)
           /\ \A u \in DOMAIN e.hist : u \in DOMAIN d.hist /\ e.hist[u] = d.hist[u]
<1>0. d # NoRepo /\ HistOf(d) = d.hist /\ d.hist \in History
    BY FieldsAre DEF HistOf, Absent
<1>1. CASE \E rs \in Rpms : e = [d EXCEPT !.rpms = rs]
    <2>1. e \in Directory /\ e # NoRepo /\ e.out = d.out /\ e.hist = d.hist
        BY <1>1, WithRpms
    <2> QED
        BY <1>0, <2>1 DEF HistOf, Absent
<1>2. CASE \E ts : e = [d EXCEPT !.hist = H!Without(d.hist, ts)]
    <2>1. PICK ts : e = [d EXCEPT !.hist = H!Without(d.hist, ts)]
        BY <1>2
    <2>2. H!Without(d.hist, ts) \in History
        BY <1>0, WithoutIsHistory
    <2>3. e \in Directory /\ e # NoRepo /\ e.out = d.out /\ e.hist = H!Without(d.hist, ts)
        BY <2>1, <2>2, WithHist
    <2> QED
        BY <1>0, <2>3 DEF HistOf, Absent, H!Without
<1> QED
    BY <1>1, <1>2

(* Old snapshots and repo RPMs are removed. *)
LEMMA LedgerThin ==
    ASSUME Orderly, OrderlyInv, PPrune \/ PTrim
    PROVE  LedgerInv'
<1>1. /\ UNCHANGED <<staging, tmp, stamp, now, rb, gen>>
      /\ \/ pub = "prune" /\ pub' = "trim"
         \/ pub = "trim" /\ pub' = "exit"
    BY DEF PPrune, PTrim, rvars
<1>2. tmp = NoRepo /\ gen = "idle" /\ \A h \in Handler : rb[h] = "idle"
    BY <1>1, PublishesAlone
<1>3. prod \in Directory /\ prod # NoRepo /\ staging = NoRepo
    BY <1>1 DEF OrderlyInv, RepoInv, DirsOK, OwnInv, LedgerInv, Handover
<1>4. \/ prod' = prod
      \/ \E rs \in Rpms : prod' = [prod EXCEPT !.rpms = rs]
      \/ \E ts : prod' = [prod EXCEPT !.hist = H!Without(prod.hist, ts)]
    <2>1. CASE PPrune
        BY <1>3, <2>1 DEF PPrune, Absent, H!Latest, Fails, Orderly
    <2>2. CASE PTrim
        <3>1. \A kept \in SUBSET prod.rpms : prod.rpms # NoDir => kept \in Rpms
            BY <1>3, FieldsAre DEF Rpms
        <3> QED
            BY <1>3, <2>2, <3>1 DEF PTrim, Absent
    <2> QED
        BY <2>1, <2>2
<1>5. /\ prod' # NoRepo /\ prod'.out = prod.out
      /\ DOMAIN HistOf(prod') \subseteq DOMAIN HistOf(prod)
      /\ \A u \in DOMAIN prod'.hist : u \in DOMAIN prod.hist /\ prod'.hist[u] = prod.hist[u]
    BY <1>3, <1>4, Thinned
<1>6. Handover' /\ PutBack'
    BY <1>1, <1>2, <1>3 DEF OrderlyInv, LedgerInv, Handover, PutBack, Moved, HistOf, Absent
<1>7. Dated'
    BY <1>1, <1>5 DEF OrderlyInv, LedgerInv, Dated
<1>8. Intact'
    BY <1>1, <1>3, <1>5 DEF OrderlyInv, LedgerInv, Intact, Whole
<1> QED
    BY <1>6, <1>7, <1>8 DEF LedgerInv

(* What is left of staging is removed. *)
LEMMA LedgerExit ==
    ASSUME Orderly, OrderlyInv, PExit
    PROVE  LedgerInv'
<1>1. /\ UNCHANGED <<prod, tmp, now, rb, gen>> /\ pub = "exit" /\ pub' = "idle"
      /\ staging' = NoRepo /\ stamp' = 0
    BY DEF PExit, rvars, Fails, Orderly
<1>2. tmp = NoRepo /\ gen = "idle" /\ \A h \in Handler : rb[h] = "idle"
    BY <1>1, PublishesAlone
<1>3. Handover' /\ PutBack'
    BY <1>1, <1>2 DEF Handover, PutBack, Moved
<1>4. HistOf(staging') = H!Empty
    BY <1>1 DEF HistOf, Absent
<1>5. Dated' /\ Intact'
    BY <1>1, <1>4, EmptyHas DEF OrderlyInv, LedgerInv, Dated, Intact, Whole
<1> QED
    BY <1>3, <1>5 DEF LedgerInv

(* A rollback: the ledger follows production and what was put aside. *)
LEMMA LedgerRollback ==
    ASSUME Orderly, OrderlyInv, NEW h \in Handler, Rollback(h)
    PROVE  LedgerInv'
<1>0. rb \in [Handler -> {"idle", "found", "aside", "placed", "undo", "rejoined"}]
    BY DEF OrderlyInv, RepoInv, LocalsOK
<1>1. pub = "idle" /\ gen = "idle" /\ staging = NoRepo
    <2>1. pub = "idle" /\ gen = "idle"
        BY DEF Rollback, RFind, RAside, RPlace, RUndo, RRejoin, RClean, MayStart, Orderly,
               OrderlyInv, SweptInv, Serial
    <2> QED
        BY <2>1 DEF OrderlyInv, SweptInv
<1>2. UNCHANGED <<staging, pub, stamp, gen, now>>
    BY DEF Rollback, RFind, RAside, RPlace, RUndo, RRejoin, RClean, pvars, dirs
<1>3. Handover'
    BY <1>1, <1>2, HandoverIdle DEF OrderlyInv, RepoInv, LedgerInv
<1>4. HistOf(NoRepo) = H!Empty /\ DOMAIN H!Empty = {}
    BY EmptyHas DEF HistOf, Absent
<1>5. ASSUME Whole(prod'), Whole(tmp'), \A u \in DOMAIN HistOf(prod') : u <= now,
             \A u \in DOMAIN HistOf(tmp') : u <= now
      PROVE  Dated' /\ Intact'
    BY <1>1, <1>2, <1>4, <1>5 DEF Dated, Intact, Whole
<1>6. /\ Whole(prod) /\ Whole(tmp) /\ Whole(NoRepo)
      /\ \A u \in DOMAIN HistOf(prod) : u <= now
      /\ \A u \in DOMAIN HistOf(tmp) : u <= now
      /\ \A u \in DOMAIN HistOf(NoRepo) : u <= now
    BY <1>1, <1>4 DEF OrderlyInv, LedgerInv, Dated, Intact, Whole
<1>7. \A g \in Handler : Holding(h) /\ Holding(g) => g = h
    BY DEF OrderlyInv, SweptInv
<1>8. CASE (\E t \in Stamp : RFind(h, t)) \/ RAside(h) \/ RUndo(h)
    <2>1. \/ prod' = prod /\ tmp' = tmp
          \/ prod' = NoRepo /\ tmp' = prod /\ tmp = NoRepo
          \/ prod' = tmp /\ tmp' = NoRepo /\ prod = NoRepo
        BY <1>8 DEF RFind, RAside, RUndo, Absent, dirs
    <2>2. Dated' /\ Intact'
        BY <1>5, <1>6, <2>1
    <2>3. \A g \in Handler : rb'[g] \in {"placed", "rejoined"} => rb[g] = rb'[g]
        BY <1>0, <1>8 DEF RFind, RAside, RUndo, RGoto, RReturn
    <2>4. PutBack'
        <3>1. CASE prod' = prod /\ tmp' = tmp
            BY <2>3, <3>1 DEF OrderlyInv, LedgerInv, PutBack
        <3>2. CASE ~(prod' = prod /\ tmp' = tmp)
            <4>1. rb[h] \in {"found", "undo"} /\ (rb[h] = "found" => tmp = NoRepo)
                BY <1>8, <2>1, <3>2 DEF RFind, RAside, RUndo, Absent, dirs
            <4>2. \A g \in Handler : rb[g] \notin {"placed", "rejoined"}
                BY <1>7, <4>1 DEF OrderlyInv, SweptInv, Holding
            <4> QED
                BY <2>3, <4>2 DEF PutBack
        <3> QED
            BY <3>1, <3>2
    <2> QED
        BY <1>3, <2>2, <2>4 DEF LedgerInv
<1>9. CASE RPlace(h)
    <2> DEFINE s == snap[h]
               v == tmp.hist[s]
    <2>1. rb[h] = "aside" /\ tmp # NoRepo /\ prod = NoRepo
        BY <1>9 DEF RPlace, OrderlyInv, SweptInv, Holding
    <2>2. tmp \in Directory /\ tmp.hist \in History
        BY <2>1, Contents DEF OrderlyInv, RepoInv, DirsOK
    <2>3. \A g \in Handler : g # h => rb[g] \notin {"placed", "rejoined"}
        BY <1>7, <2>1 DEF Holding
    <2>4. CASE prod' = prod /\ tmp' = tmp /\ RGoto(h, "undo")
        <3>1. Dated' /\ Intact'
            BY <1>5, <1>6, <2>4
        <3>2. PutBack'
            BY <1>0, <2>3, <2>4 DEF RGoto, PutBack
        <3> QED
            BY <1>3, <3>1, <3>2 DEF LedgerInv
    <2>5. CASE /\ s \in DOMAIN tmp.hist
               /\ prod' = Dir(v.out, v.rpms, H!Empty)
               /\ tmp' = [tmp EXCEPT !.hist = H!Without(tmp.hist, {s})]
               /\ RGoto(h, "placed")
        <3>1. v.out \in Outs /\ v.rpms \in Rpms
            BY <2>2, <2>5, SnapshotIsRepo DEF Repo, Outs, Out, Rpms
        <3>2. prod' # NoRepo /\ prod'.out = v.out /\ prod'.hist = H!Empty
            BY <2>5, <3>1, DirIs, EmptyIsHistory
        <3>3. /\ tmp' # NoRepo /\ tmp'.out = tmp.out
              /\ DOMAIN HistOf(tmp') \subseteq DOMAIN HistOf(tmp)
              /\ \A u \in DOMAIN tmp'.hist : u \in DOMAIN tmp.hist /\ tmp'.hist[u] = tmp.hist[u]
            <4> DEFINE left == H!Without(tmp.hist, {s})
            <4>1. tmp' = [tmp EXCEPT !.hist = left] /\ left \in History
                BY <2>2, <2>5, WithoutIsHistory
            <4>2. /\ DOMAIN left \subseteq DOMAIN tmp.hist
                  /\ \A u \in DOMAIN left : left[u] = tmp.hist[u]
                BY DEF H!Without
            <4> HIDE DEF s, v, left
            <4>3. tmp' # NoRepo /\ tmp'.out = tmp.out /\ tmp'.hist = left
                BY <2>2, <4>1, WithHist
            <4> QED
                BY <2>1, <4>2, <4>3 DEF HistOf, Absent
        <3>4. Whole(prod')
            BY <1>4, <1>6, <2>1, <2>5, <3>2 DEF Whole
        <3>5. Whole(tmp')
            BY <1>6, <2>1, <3>3 DEF Whole
        <3>6. HistOf(prod') = H!Empty
            BY <3>2 DEF HistOf, Absent
        <3>7. Dated' /\ Intact'
            BY <1>4, <1>5, <1>6, <3>3, <3>4, <3>5, <3>6
        <3>8. PutBack'
            BY <1>0, <2>3, <2>5, <3>2 DEF RGoto, PutBack
        <3> QED
            BY <1>3, <3>7, <3>8 DEF LedgerInv
    <2> QED
        BY <1>9, <2>4, <2>5 DEF RPlace
<1>10. CASE RRejoin(h)
    <2>1. rb[h] = "placed" /\ tmp # NoRepo /\ prod # NoRepo /\ prod.hist = H!Empty
        BY <1>10 DEF RRejoin, OrderlyInv, SweptInv, Holding, LedgerInv, PutBack
    <2>2. tmp \in Directory /\ tmp.hist \in History /\ prod \in Directory
        BY <2>1, Contents DEF OrderlyInv, RepoInv, DirsOK
    <2>3. /\ prod' = [prod EXCEPT !.hist = tmp.hist]
          /\ tmp' = [tmp EXCEPT !.hist = H!Empty]
          /\ RGoto(h, "rejoined")
        BY <1>10, <2>1 DEF RRejoin, Fails, Orderly, Absent
    <2>4. /\ prod' # NoRepo /\ prod'.out = prod.out /\ prod'.hist = tmp.hist
          /\ tmp' # NoRepo /\ tmp'.out = tmp.out /\ tmp'.hist = H!Empty
        BY <2>2, <2>3, WithHist, EmptyIsHistory
    <2>5. Whole(prod') /\ Whole(tmp')
        BY <1>4, <1>6, <2>1, <2>4 DEF Whole
    <2>6. HistOf(prod') = HistOf(tmp) /\ HistOf(tmp') = H!Empty
        BY <2>1, <2>4 DEF HistOf, Absent
    <2>7. Dated' /\ Intact'
        BY <1>4, <1>5, <1>6, <2>5, <2>6
    <2>8. \A g \in Handler : g # h => rb[g] \notin {"placed", "rejoined"}
        BY <1>7, <2>1 DEF Holding
    <2>9. PutBack'
        BY <1>0, <2>3, <2>4, <2>8 DEF RGoto, PutBack
    <2> QED
        BY <1>3, <2>7, <2>9 DEF LedgerInv
<1>11. CASE RClean(h)
    <2>1. rb[h] = "rejoined" /\ tmp' = NoRepo /\ prod' = prod /\ RReturn(h)
        BY <1>11 DEF RClean, Fails, Orderly
    <2>2. Dated' /\ Intact'
        BY <1>5, <1>6, <2>1
    <2>3. \A g \in Handler : g # h => rb[g] \notin {"placed", "rejoined"}
        BY <1>7, <2>1 DEF Holding
    <2>4. PutBack'
        BY <1>0, <2>1, <2>3 DEF RReturn, PutBack
    <2> QED
        BY <1>3, <2>2, <2>4 DEF LedgerInv
<1> QED
    BY <1>8, <1>9, <1>10, <1>11 DEF Rollback

(* A generation only adds a directory or a file. *)
LEMMA LedgerGenerate ==
    ASSUME Orderly, OrderlyInv, GMkdir \/ GWrite
    PROVE  LedgerInv'
<1>1. pub = "idle" /\ \A h \in Handler : rb[h] = "idle"
    <2>1. CASE GMkdir
        BY <2>1 DEF GMkdir, MayStart, Orderly
    <2>2. CASE GWrite
        BY <2>2 DEF GWrite, OrderlyInv, SweptInv, Serial, LedgerInv, Handover
    <2> QED
        BY <2>1, <2>2
<1>2. UNCHANGED <<staging, tmp, pub, stamp, rb, now>>
    BY DEF GMkdir, GWrite, pvars, rvars
<1>3. Handover' /\ PutBack'
    BY <1>1, <1>2, HandoverIdle DEF OrderlyInv, RepoInv, LedgerInv, PutBack
<1>4. prod' = prod \/ prod' = Dir(NoRepo, {}, H!Empty)
      \/ (prod # NoRepo /\ \E rs \in Rpms : prod' = [prod EXCEPT !.rpms = rs])
    <2>1. prod # NoRepo => prod.rpms \in Rpms /\ {} \in Rpms
        BY Contents DEF OrderlyInv, RepoInv, DirsOK, Rpms
    <2>2. \A r \in Rpm : prod # NoRepo /\ prod.rpms # NoDir => prod.rpms \cup {r} \in Rpms
        BY <2>1 DEF Rpms
    <2> QED
        BY <2>1, <2>2 DEF GMkdir, GWrite, Absent
<1>5. CASE prod' = prod
    BY <1>2, <1>3, <1>5 DEF OrderlyInv, LedgerInv, Dated, Intact, Whole
<1>6. CASE prod' = Dir(NoRepo, {}, H!Empty)
    <2>1. prod' # NoRepo /\ prod'.out = NoRepo /\ prod'.hist = H!Empty
        BY <1>6, DirIs, EmptyIsHistory DEF Outs, Rpms
    <2>2. HistOf(prod') = H!Empty
        BY <2>1 DEF HistOf, Absent
    <2>3. Dated' /\ Intact'
        <3>1. Sound(NoRepo)
            BY TornIsNothing DEF Sound
        <3> QED
            BY <1>2, <2>1, <2>2, <3>1, EmptyHas DEF OrderlyInv, LedgerInv, Dated, Intact, Whole
    <2> QED
        BY <1>3, <2>3 DEF LedgerInv
<1>7. CASE prod # NoRepo /\ \E rs \in Rpms : prod' = [prod EXCEPT !.rpms = rs]
    <2>1. /\ prod' # NoRepo /\ prod'.out = prod.out
          /\ DOMAIN HistOf(prod') \subseteq DOMAIN HistOf(prod)
          /\ \A u \in DOMAIN prod'.hist : u \in DOMAIN prod.hist /\ prod'.hist[u] = prod.hist[u]
        BY <1>7, Thinned DEF OrderlyInv, RepoInv, DirsOK
    <2>2. Dated'
        BY <1>1, <1>2, <2>1 DEF OrderlyInv, LedgerInv, Dated
    <2>3. Intact'
        BY <1>1, <1>2, <1>7, <2>1 DEF OrderlyInv, LedgerInv, Intact, Whole
    <2> QED
        BY <1>3, <2>2, <2>3 DEF LedgerInv
<1> QED
    BY <1>4, <1>5, <1>6, <1>7

(* Every step keeps the ledger. *)
LEMMA LedgerStep == Orderly /\ OrderlyInv /\ [Next]_vars => LedgerInv'
<1> SUFFICES ASSUME Orderly, OrderlyInv, [Next]_vars PROVE LedgerInv'
    OBVIOUS
<1>1. CASE Pipeline
    BY <1>1, LedgerBegin, LedgerAbort, LedgerPreserve, LedgerHistory, LedgerCopy, LedgerCopied,
       LedgerRemove, LedgerSwap, LedgerThin, LedgerExit DEF Pipeline
<1>2. CASE \E h \in Handler : Rollback(h)
    BY <1>2, LedgerRollback
<1>3. CASE GMkdir \/ GWrite
    BY <1>3, LedgerGenerate
<1>4. ~CrashRestart
    BY Bounds DEF CrashRestart, Orderly, OrderlyInv, SweptInv
<1>5. CASE UNCHANGED vars
    BY <1>5 DEF vars, dirs, pvars, rvars, OrderlyInv, LedgerInv, Handover, PutBack, Dated, Intact,
       Whole, Moved
<1> QED
    BY <1>1, <1>2, <1>3, <1>4, <1>5 DEF Next

(* The pipeline keeps its build until it ends. *)
LEMMA NamedStep == RepoInv /\ Named /\ [Next]_vars => Named'
<1> SUFFICES ASSUME RepoInv, Named, [Next]_vars PROVE Named'
    OBVIOUS
<1>1. now \in Nat
    BY Bounds DEF RepoInv, LocalsOK
<1>2. ASSUME NEW b \in Build, PBegin(b) PROVE Named'
    BY <1>1, <1>2 DEF PBegin, Named
<1>3. ASSUME PAbort \/ PPreserve \/ PHistory \/ PCopy \/ PCopied \/ PRemove \/ PRemoved
                 \/ PSwap \/ PPrune \/ PTrim
      PROVE  Named'
    BY <1>3 DEF PAbort, PPreserve, PHistory, PCopy, PCopied, PRemove, PRemoved, PSwap, PPrune,
       PTrim, Named
<1>4. ASSUME PExit \/ CrashRestart PROVE Named'
    BY <1>4 DEF PExit, CrashRestart, Named
<1>5. ASSUME NEW h \in Handler, Rollback(h) PROVE Named'
    BY <1>5 DEF Rollback, RFind, RAside, RPlace, RUndo, RRejoin, RClean, pvars, Named
<1>6. ASSUME GMkdir \/ GWrite \/ UNCHANGED vars PROVE Named'
    BY <1>6 DEF GMkdir, GWrite, vars, pvars, Named
<1> QED
    BY <1>2, <1>3, <1>4, <1>5, <1>6 DEF Next, Pipeline

(* No directory but Home has snapshots. *)
LEMMA OnlyHome ==
    ASSUME Orderly, OrderlyInv
    PROVE  \A d \in {prod, staging, tmp} : d # Home => HistOf(d) = H!Empty
<1>0. HistOf(NoRepo) = H!Empty
    BY DEF HistOf, Absent
<1>1. CASE pub \in Moved
    <2>1. Home = staging /\ tmp = NoRepo
        BY <1>1, PublishesAlone DEF Home, Moved
    <2>2. HistOf(prod) = H!Empty
        BY <1>1 DEF Moved, OrderlyInv, LedgerInv, Handover, HistOf, Absent
    <2> QED
        BY <1>0, <2>1, <2>2
<1>2. CASE pub \notin Moved
    <2>1. HistOf(staging) = H!Empty
        BY <1>0, <1>2 DEF Moved, OrderlyInv, RepoInv, LocalsOK, SweptInv, LedgerInv, Handover,
           HistOf, Absent
    <2>2. CASE HistOf(tmp) # H!Empty
        <3>1. tmp # NoRepo
            BY <1>0, <2>2
        <3>2. PICK h \in Handler : Holding(h)
            BY <3>1 DEF OrderlyInv, SweptInv
        <3>3. rb[h] # "rejoined"
            BY <2>2, <3>1 DEF OrderlyInv, LedgerInv, PutBack, HistOf, Absent
        <3>4. CASE rb[h] \in {"aside", "undo"}
            BY <1>0, <1>2, <2>1, <2>2, <3>4 DEF OrderlyInv, SweptInv, Home
        <3>5. CASE rb[h] = "placed"
            BY <1>0, <1>2, <2>1, <2>2, <3>5 DEF OrderlyInv, LedgerInv, PutBack, Home, HistOf
        <3> QED
            BY <3>2, <3>3, <3>4, <3>5 DEF Holding
    <2>3. CASE HistOf(tmp) = H!Empty
        BY <1>2, <2>1, <2>3 DEF Home
    <2> QED
        BY <2>2, <2>3
<1> QED
    BY <1>1, <1>2

(* The snapshots the refinement mapping finds are the ones of Home ... *)
LEMMA SnapshotsAreKept ==
    ASSUME Orderly, OrderlyInv
    PROVE  Snapshots = Kept
<1> DEFINE Three == {prod, staging, tmp}
           In(t) == CHOOSE d \in Three : t \in DOMAIN HistOf(d)
           All == UNION {DOMAIN HistOf(d) : d \in Three}
<1>1. Home \in Three
    BY DEF Home
<1>2. \A d \in Three : d # Home => DOMAIN HistOf(d) = {}
    BY OnlyHome, EmptyHas
<1> HIDE DEF Three
<1>3. All = DOMAIN HistOf(Home)
    BY <1>1, <1>2
<1>4. ASSUME NEW t \in DOMAIN HistOf(Home) PROVE In(t) = Home
    <2>1. In(t) \in Three /\ t \in DOMAIN HistOf(In(t))
        BY <1>1
    <2> QED
        BY <1>2, <2>1
<1>5. Snapshots = [t \in All \ {stamp} |-> HistOf(In(t))[t]]
    BY DEF Snapshots, Three
<1> HIDE DEF In, All
<1> QED
    BY <1>3, <1>4, <1>5 DEF Kept

(* ... and the repository it finds is the one served. *)
LEMMA ReadsIs == Orderly /\ OrderlyInv => Reads
<1> SUFFICES ASSUME Orderly, OrderlyInv PROVE Reads
    OBVIOUS
<1>1. pub # "idle" => tmp = NoRepo
    BY PublishesAlone
<1>2. LiveRepo = Served
    BY <1>1 DEF LiveRepo, Served, Absent
<1> QED
    BY <1>2, SnapshotsAreKept DEF Reads

-----------------------------------------------------------------------------
(* A step seen from both of its ends. *)
Between == Orderly /\ OrderlyInv /\ Reads /\ OrderlyInv' /\ Reads'

(* What is served and kept stays the same. *)
LEMMA Stutters ==
    ASSUME Between, Served' = Served, Kept' = Kept
    PROVE  UNCHANGED Promise!vars
BY DEF Between, Reads, Promise!vars

(* The snapshots depend on those of Home and on the stamp alone; the stamp
   is no snapshot unless the pipeline has one.                              *)
LEMMA KeptSame ==
    ASSUME HistOf(Home)' = HistOf(Home), stamp' = stamp
    PROVE  Kept' = Kept
BY DEF Kept

(* Without a stamp, all the snapshots of Home are kept. *)
LEMMA KeptAll == OrderlyInv /\ stamp = 0 => Kept = HistOf(Home)
<1> SUFFICES ASSUME OrderlyInv, stamp = 0 PROVE Kept = HistOf(Home)
    OBVIOUS
<1>1. Home \in Directory \cup {NoRepo}
    BY DEF Home, OrderlyInv, RepoInv, DirsOK
<1>2. HistOf(Home) \in History
    BY <1>1, Contents
<1> DEFINE f == HistOf(Home)
<1>3. PICK ts \in SUBSET Stamp : f \in [ts -> Repo]
    BY <1>2, HistoryIs
<1> HIDE DEF f
<1>4. 0 \notin DOMAIN f
    BY <1>3 DEF Stamp
<1> QED
    BY <1>3, <1>4 DEF Kept, f

(* Same, after a step. *)
LEMMA KeptAllThen == OrderlyInv' /\ stamp' = 0 => Kept' = HistOf(Home)'
<1>1. (OrderlyInv /\ stamp = 0 => Kept = HistOf(Home))'
    BY KeptAll, PTL
<1> QED
    BY <1>1

(* An idle pipeline has no stamp, and what a rollback put aside counts. *)
LEMMA IdleReads ==
    ASSUME OrderlyInv, pub \notin Moved
    PROVE  /\ stamp = 0
           /\ HistOf(Home) = IF HistOf(tmp) # H!Empty THEN HistOf(tmp) ELSE HistOf(prod)
           /\ Served = IF prod # NoRepo THEN Tree(prod)
                       ELSE IF tmp # NoRepo THEN Tree(tmp) ELSE NoRepo
BY DEF OrderlyInv, LedgerInv, Handover, Home, Served, Moved

(* Same, after the step. *)
LEMMA IdleReadsThen ==
    ASSUME OrderlyInv', pub' \notin Moved
    PROVE  /\ stamp' = 0
           /\ HistOf(Home)' = IF HistOf(tmp)' # H!Empty THEN HistOf(tmp)' ELSE HistOf(prod)'
           /\ Served' = IF prod' # NoRepo THEN Tree(prod')
                       ELSE IF tmp' # NoRepo THEN Tree(tmp') ELSE NoRepo
BY DEF OrderlyInv, LedgerInv, Handover, Home, Served, Moved

(* Nothing is seen of a step that leaves production and tmp alone while the
   pipeline has not moved the history.                                      *)
LEMMA RefineUnseen ==
    ASSUME Between, pub \notin Moved, pub' \notin Moved, prod' = prod, tmp' = tmp
    PROVE  UNCHANGED Promise!vars
<1>1. HistOf(prod)' = HistOf(prod) /\ HistOf(tmp)' = HistOf(tmp)
    BY DEF HistOf, Absent
<1>2. Served' = Served /\ HistOf(Home)' = HistOf(Home) /\ stamp' = stamp
    BY <1>1, IdleReads, IdleReadsThen DEF Between, Tree
<1> QED
    BY <1>2, KeptSame, Stutters

(* Nor of the move of the history to staging, which adds the stamp. *)
LEMMA RefineHistory ==
    ASSUME Between, PHistory
    PROVE  UNCHANGED Promise!vars
<1>1. /\ UNCHANGED tmp /\ pub = "backup" /\ pub' \in {"swap", "copy"}
    BY DEF PHistory
<1>2. /\ tmp = NoRepo /\ stamp = 0 /\ staging \in Directory /\ staging.hist = H!Empty
      /\ HistOf(NoRepo) = H!Empty
    BY <1>1, PublishesAlone DEF Between, OrderlyInv, RepoInv, DirsOK, Stages, LedgerInv, Handover,
       Moved, HistOf, Absent
<1>3. Kept = HistOf(prod) /\ Served = (IF prod # NoRepo THEN Tree(prod) ELSE NoRepo)
    BY <1>1, <1>2, IdleReads, KeptAll DEF Between, Moved
<1>4. Home' = staging'
    BY <1>1 DEF Home, Moved
<1>5. CASE prod = NoRepo
    <2>1. UNCHANGED <<prod, staging, stamp>>
        BY <1>5 DEF PHistory, Absent
    <2>2. HistOf(Home)' = H!Empty
        BY <1>2, <1>4, <2>1 DEF HistOf, Absent
    <2>3. Kept' = H!Empty
        <3>1. stamp' = 0
            BY <1>2, <2>1
        <3>2. OrderlyInv' /\ stamp' = 0 => Kept' = HistOf(Home)'
            BY KeptAllThen
        <3> QED
            BY <2>2, <3>1, <3>2 DEF Between
    <2>4. Served' = NoRepo
        BY <1>1, <1>2, <1>5, <2>1 DEF Served
    <2> QED
        BY <1>2, <1>3, <1>5, <2>3, <2>4, Stutters
<1>6. CASE prod # NoRepo
    <2>1. prod \in Directory /\ prod.hist \in History
        BY <1>6, Contents DEF Between, OrderlyInv, RepoInv, DirsOK
    <2>2. /\ pub' = "copy" /\ stamp' = now
          /\ prod' = [prod EXCEPT !.hist = H!Empty]
          /\ staging' = [staging EXCEPT !.hist = prod.hist]
        <3>1. Sound(staging.out)
            BY <1>1 DEF Between, OrderlyInv, RepoInv, Stages, LedgerInv, Intact
        <3> QED
            BY <1>6, <3>1 DEF PHistory, Absent, Fails, Between, Orderly, Sound
    <2>3. /\ prod' # NoRepo /\ Tree(prod') = Tree(prod)
          /\ staging' # NoRepo /\ staging'.hist = prod.hist
        BY <1>2, <2>1, <2>2, WithHist, EmptyIsHistory DEF Tree
    <2>4. Served' = Served
        BY <1>3, <1>6, <2>2, <2>3 DEF Served
    <2>5. HistOf(Home)' = prod.hist /\ HistOf(prod) = prod.hist
        BY <1>4, <1>6, <2>3 DEF HistOf, Absent
    <2>6. Kept' = prod.hist
        <3>1. PICK ts \in SUBSET Stamp : prod.hist \in [ts -> Repo]
            BY <2>1, HistoryIs
        <3>2. \A u \in ts : u < now /\ u \in Nat
            BY <1>1, <2>5, <3>1 DEF Between, OrderlyInv, LedgerInv, Dated, Stamp
        <3>3. now \notin ts
            BY <3>2
        <3> QED
            BY <2>2, <2>5, <3>1, <3>3 DEF Kept
    <2> QED
        BY <1>3, <2>4, <2>5, <2>6, Stutters
<1> QED
    BY <1>5, <1>6

(* While production is copied and removed, its copy does not count as a
   snapshot and then stands in for it.                                      *)
LEMMA RefineCopy ==
    ASSUME Between, PCopy \/ PCopied
    PROVE  UNCHANGED Promise!vars
<1>1. /\ UNCHANGED <<prod, tmp, stamp>> /\ pub \in {"copy", "copying"}
      /\ pub' \in {"copying", "remove"}
    BY DEF PCopy, PCopied
<1>2. Served' = Served
    BY <1>1 DEF Served, Tree
<1>3. prod # NoRepo /\ staging \in Directory /\ stamp \in Stamp
    BY <1>1 DEF Between, OrderlyInv, RepoInv, DirsOK, Stages, LedgerInv, Handover
<1>4. staging.hist \in History /\ HistOf(staging) = staging.hist
    BY <1>3, FieldsAre DEF HistOf, Absent
<1>5. Home = staging /\ Home' = staging'
    BY <1>1 DEF Home, Moved
<1>6. staging' = staging \/ \E x \in History :
          /\ staging' = [staging EXCEPT !.hist = x]
          /\ DOMAIN x \ {stamp} = DOMAIN staging.hist \ {stamp}
          /\ \A u \in DOMAIN x \ {stamp} : x[u] = staging.hist[u]
    <2>1. CASE PCopy
        <3> DEFINE torn == [out |-> Torn, rpms |-> NoDir]
        <3>1. torn \in Repo
            <4>1. NoDir \in (SUBSET Rpm) \cup {NoDir} /\ Torn \in Out
                BY Zenon DEF Out
            <4> QED
                BY <4>1, Zenon DEF Repo
        <3>2. staging' = [staging EXCEPT !.hist = H!Put(staging.hist, stamp, torn)]
            BY <1>3, <2>1 DEF PCopy, Absent
        <3> HIDE DEF torn
        <3>3. H!Put(staging.hist, stamp, torn) \in History
            BY <1>3, <1>4, <3>1, PutIsHistory
        <3> QED
            BY <3>2, <3>3 DEF H!Put
    <2>2. CASE PCopied
        <3>1. prod \in Directory /\ Sound(prod.out)
            BY <1>1, <1>3, <2>2 DEF PCopied, Between, OrderlyInv, RepoInv, DirsOK, LedgerInv,
               Intact, Whole
        <3>2. staging' = [staging EXCEPT !.hist = [staging.hist EXCEPT ![stamp] = Tree(prod)]]
            BY <1>3, <2>2, <3>1 DEF PCopied, MayBreak, Fails, Absent, Between, Orderly, Sound
        <3>3. Tree(prod) \in Repo
            BY <3>1, FieldsAre DEF Tree, Repo, Outs, Out, Rpms
        <3>4. [staging.hist EXCEPT ![stamp] = Tree(prod)] \in History
            BY <1>4, <3>3, ExceptIsHistory
        <3> QED
            BY <3>2, <3>4
    <2> QED
        BY <2>1, <2>2
<1>7. CASE staging' = staging
    <2>1. HistOf(Home)' = HistOf(Home)
        BY <1>5, <1>7 DEF HistOf, Absent
    <2> QED
        BY <1>1, <1>2, <2>1, KeptSame, Stutters
<1>8. ASSUME NEW x \in History,
             staging' = [staging EXCEPT !.hist = x],
             DOMAIN x \ {stamp} = DOMAIN staging.hist \ {stamp},
             \A u \in DOMAIN x \ {stamp} : x[u] = staging.hist[u]
      PROVE  UNCHANGED Promise!vars
    <2>1. HistOf(Home)' = x
        <3>1. staging' # NoRepo /\ staging'.hist = x
            BY <1>3, <1>8, WithHist
        <3> QED
            BY <1>5, <3>1 DEF HistOf, Absent
    <2>2. Kept' = [t \in DOMAIN x \ {stamp} |-> x[t]]
        BY <1>1, <2>1 DEF Kept
    <2>3. Kept = [t \in DOMAIN staging.hist \ {stamp} |-> staging.hist[t]]
        BY <1>4, <1>5 DEF Kept
    <2>4. Kept' = Kept
        BY <1>8, <2>2, <2>3
    <2> QED
        BY <1>2, <2>4, Stutters
<1> QED
    BY <1>6, <1>7, <1>8

(* The removal of production goes unseen. *)
LEMMA RefineRemove ==
    ASSUME Between, PRemove \/ PRemoved
    PROVE  UNCHANGED Promise!vars
<1>1. /\ UNCHANGED <<staging, tmp, stamp>>
      /\ \/ pub = "remove" /\ pub' = "removing"
         \/ pub = "removing" /\ pub' = "swap"
    BY DEF PRemove, PRemoved, Fails, Between, Orderly
<1>2. stamp # 0 /\ (pub = "remove" => staging.hist[stamp] = Tree(prod) /\ prod # NoRepo)
    BY <1>1 DEF Between, OrderlyInv, LedgerInv, Handover
<1>3. Served' = Served
    BY <1>1, <1>2 DEF Served
<1>4. HistOf(Home)' = HistOf(Home)
    BY <1>1 DEF Home, Moved, HistOf, Absent
<1> QED
    BY <1>1, <1>3, <1>4, KeptSame, Stutters

(* The rename of staging publishes the output with the repo RPMs there were,
   and makes a snapshot of what was served.                                 *)
LEMMA RefineSwap ==
    ASSUME Between, PSwap
    PROVE  \E b \in Build, t \in Stamp : Promise!Publish(b, t)
<1>1. pub = "swap" /\ tmp' = tmp
    BY DEF PSwap
<1>2. /\ tmp = NoRepo /\ prod = NoRepo /\ staging \in Directory /\ staging.out = pb
      /\ pb \in Build /\ now \in Stamp /\ (stamp # 0 => stamp = now)
    <2>1. pb \in Build /\ now # 0 /\ now \in 0..MaxTime
        BY <1>1 DEF Between, OrderlyInv, Named, RepoInv, LocalsOK
    <2>2. now \in Stamp
        BY <2>1, Bounds DEF Stamp
    <2> QED
        BY <1>1, <2>1, <2>2, PublishesAlone DEF Between, Orderly, OrderlyInv, RepoInv, DirsOK,
           Stages, OwnInv, Ours, Fails, LedgerInv, Handover
<1>3. prod' = staging /\ staging' = NoRepo /\ pub' = "prune" /\ stamp' = 0
    BY <1>2 DEF PSwap, Fails, Between, Orderly, Absent
<1>4. staging # NoRepo /\ staging.hist \in History /\ HistOf(staging) = staging.hist
    BY <1>2, FieldsAre DEF HistOf, Absent
<1>5. Home = staging
    BY <1>1 DEF Home, Moved
<1>6. HistOf(Home)' = staging.hist /\ Served' = Tree(staging)
    <2>1. HistOf(tmp)' = H!Empty /\ HistOf(prod)' = staging.hist
        BY <1>1, <1>2, <1>3, <1>4 DEF HistOf, Absent
    <2> QED
        BY <1>3, <1>4, <2>1, IdleReadsThen DEF Between, Moved
<1>7. Kept' = staging.hist
    BY <1>3, <1>6, KeptAllThen DEF Between
<1>8. Tree(staging) = [out |-> pb, rpms |-> staging.rpms]
    BY <1>2 DEF Tree
<1>9. CASE stamp = 0
    <2>1. staging.hist = H!Empty /\ staging.rpms = NoDir
        BY <1>1, <1>9 DEF Between, OrderlyInv, LedgerInv, Handover
    <2>2. Served = NoRepo
        BY <1>2, <1>9 DEF Served
    <2>3. Kept = H!Empty
        BY <1>4, <1>5, <1>9, <2>1, KeptAll DEF Between
    <2>4. /\ LiveRepo = NoRepo /\ Snapshots = H!Empty
          /\ LiveRepo' = [out |-> pb, rpms |-> NoDir] /\ Snapshots' = H!Empty
        BY <1>6, <1>7, <1>8, <2>1, <2>2, <2>3 DEF Between, Reads
    <2>5. Promise!Publish(pb, now)
        BY <2>4, EmptyHas DEF Promise!Publish
    <2> QED
        BY <1>2, <2>5
<1>10. CASE stamp # 0
    <2>1. stamp \in DOMAIN staging.hist /\ staging.rpms = staging.hist[stamp].rpms
        BY <1>1, <1>10 DEF Between, OrderlyInv, LedgerInv, Handover
    <2>2. Served = staging.hist[stamp] /\ Served # NoRepo
        <3>1. staging.hist[stamp] # NoRepo
            BY <1>4, <2>1, SnapshotIsRepo, Absence
        <3> QED
            BY <1>1, <1>10, <3>1 DEF Served
    <2>3. \A u \in DOMAIN Kept : u < stamp
        <3>1. DOMAIN Kept = DOMAIN staging.hist \ {stamp}
            BY <1>4, <1>5 DEF Kept
        <3> QED
            BY <1>2, <1>4, <1>10, <3>1 DEF Between, OrderlyInv, LedgerInv, Dated
    <2>4. Kept' = H!Put(Kept, stamp, Served)
        <3>1. PICK ts \in SUBSET Stamp : staging.hist \in [ts -> Repo]
            BY <1>4, HistoryIs
        <3>2. Kept = [t \in ts \ {stamp} |-> staging.hist[t]]
            BY <1>4, <1>5, <3>1 DEF Kept
        <3>3. H!Put(Kept, stamp, Served)
                = [u \in DOMAIN Kept \cup {stamp} |-> IF u = stamp THEN Served ELSE Kept[u]]
            BY DEF H!Put
        <3>4. H!Put(Kept, stamp, Served) = [u \in ts |-> staging.hist[u]]
            BY <2>1, <2>2, <3>1, <3>2, <3>3
        <3> QED
            BY <1>7, <3>1, <3>4
    <2>5. /\ LiveRepo # NoRepo /\ (\A u \in DOMAIN Snapshots : u < stamp)
          /\ LiveRepo' = [out |-> pb, rpms |-> LiveRepo.rpms]
        BY <1>6, <1>8, <2>1, <2>2, <2>3 DEF Between, Reads
    <2>6. Snapshots' = Promise!Put(Snapshots, stamp, LiveRepo)
        BY <2>4 DEF Between, Reads, H!Put, Promise!Put
    <2>7. Promise!Publish(pb, stamp)
        BY <2>5, <2>6 DEF Promise!Publish
    <2> QED
        BY <1>2, <1>10, <2>7
<1> QED
    BY <1>9, <1>10

(* Old snapshots go. *)
LEMMA RefinePrune ==
    ASSUME Between, PPrune
    PROVE  \E k \in KeepCounts : Promise!Prune(k)
<1>1. pub = "prune" /\ pub' = "trim" /\ tmp' = tmp
    BY DEF PPrune
<1>2. tmp = NoRepo /\ prod \in Directory /\ prod # NoRepo
    BY <1>1, PublishesAlone DEF Between, OrderlyInv, RepoInv, DirsOK, OwnInv
<1>3. ASSUME NEW k \in KeepCounts, prod' = [prod EXCEPT !.hist = H!Latest(prod.hist, k)]
      PROVE  Promise!Prune(k)
    <2>1. prod.hist \in History /\ H!Latest(prod.hist, k) \in History
        BY <1>2, FieldsAre, LatestIsHistory
    <2>2. /\ prod' # NoRepo /\ Tree(prod') = Tree(prod) /\ prod'.hist = H!Latest(prod.hist, k)
        BY <1>2, <1>3, <2>1, WithHist DEF Tree
    <2>3. /\ HistOf(tmp) = H!Empty /\ HistOf(tmp)' = H!Empty
          /\ HistOf(prod) = prod.hist /\ HistOf(prod)' = prod'.hist
        BY <1>1, <1>2, <2>2 DEF HistOf, Absent
    <2>4. Kept = prod.hist /\ Served = Tree(prod)
        BY <1>1, <1>2, <2>3, IdleReads, KeptAll DEF Between, Moved
    <2>5. Kept' = prod'.hist /\ Served' = Tree(prod')
        BY <1>1, <2>2, <2>3, IdleReadsThen, KeptAllThen DEF Between, Moved
    <2>6. Snapshots' = H!Latest(Snapshots, k) /\ LiveRepo' = LiveRepo
        BY <2>2, <2>4, <2>5 DEF Between, Reads
    <2>7. H!Latest(Snapshots, k) = Promise!Latest(Snapshots, k)
        <3> DEFINE later(t) == {u \in DOMAIN Snapshots : u > t}
                   old == {t \in DOMAIN Snapshots : H!Cardinality(later(t)) >= k}
                   oldest == {t \in DOMAIN Snapshots : Promise!Cardinality(later(t)) >= k}
        <3>1. \A t : H!Cardinality(later(t)) = Promise!Cardinality(later(t))
            BY SameCount
        <3>2. H!Latest(Snapshots, k) = H!Without(Snapshots, old)
            BY Zenon DEF H!Latest
        <3>3. Promise!Latest(Snapshots, k) = Promise!Without(Snapshots, oldest)
            BY Zenon DEF Promise!Latest
        <3> HIDE DEF later
        <3>4. old = oldest
            BY <3>1
        <3> HIDE DEF old, oldest
        <3> QED
            BY <3>2, <3>3, <3>4 DEF H!Without, Promise!Without
    <2> QED
        BY <2>6, <2>7 DEF Promise!Prune
<1> QED
    BY <1>2, <1>3 DEF PPrune, Absent, Fails, Between, Orderly

(* Superfluous repo RPMs go. *)
LEMMA RefineTrim ==
    ASSUME Between, PTrim
    PROVE  (\E kept \in SUBSET Rpm : Promise!TrimRpms(kept)) \/ UNCHANGED Promise!vars
<1>1. pub = "trim" /\ pub' = "exit" /\ tmp' = tmp
    BY DEF PTrim
<1>2. tmp = NoRepo /\ prod \in Directory /\ prod # NoRepo
    BY <1>1, PublishesAlone DEF Between, OrderlyInv, RepoInv, DirsOK, OwnInv
<1>3. CASE prod' = prod
    BY <1>1, <1>3, RefineUnseen DEF Moved
<1>4. ASSUME NEW kept \in SUBSET prod.rpms, prod.rpms # NoDir, Cardinality(kept) = KeepRpms,
             prod' = [prod EXCEPT !.rpms = kept]
      PROVE  kept \in SUBSET Rpm /\ Promise!TrimRpms(kept)
    <2>1. kept \in SUBSET Rpm /\ kept \in Rpms
        BY <1>2, <1>4, FieldsAre DEF Rpms
    <2>2. /\ prod' # NoRepo /\ prod'.hist = prod.hist /\ prod'.out = prod.out /\ prod'.rpms = kept
        BY <1>2, <1>4, <2>1, WithRpms
    <2>3. /\ HistOf(tmp) = H!Empty /\ HistOf(tmp)' = H!Empty
          /\ HistOf(prod) = prod.hist /\ HistOf(prod)' = prod.hist
        BY <1>1, <1>2, <2>2 DEF HistOf, Absent
    <2>4. Kept = prod.hist /\ Served = Tree(prod)
        BY <1>1, <1>2, <2>3, IdleReads, KeptAll DEF Between, Moved
    <2>5. Kept' = prod.hist /\ Served' = Tree(prod')
        BY <1>1, <2>2, <2>3, IdleReadsThen, KeptAllThen DEF Between, Moved
    <2>6. Tree(prod') = [Tree(prod) EXCEPT !.rpms = kept] /\ Tree(prod).rpms = prod.rpms
        BY <2>2 DEF Tree
    <2>7. Tree(prod) # NoRepo
        BY <1>2, TreeIsRepo, Absence
    <2>8. /\ LiveRepo = Tree(prod) /\ LiveRepo' = [LiveRepo EXCEPT !.rpms = kept]
          /\ Snapshots' = Snapshots
        BY <2>4, <2>5, <2>6 DEF Between, Reads
    <2>9. /\ LiveRepo # NoRepo /\ LiveRepo.rpms = prod.rpms /\ kept \in SUBSET LiveRepo.rpms
        BY <1>4, <2>6, <2>7, <2>8
    <2> QED
        BY <1>4, <2>1, <2>8, <2>9, SameCount DEF Promise!TrimRpms
<1> QED
    BY <1>2, <1>3, <1>4 DEF PTrim, Absent, Fails, Between, Orderly

(* A rollback restores one snapshot; what it does around it goes unseen. *)
LEMMA RefineRollback ==
    ASSUME Between, NEW h \in Handler, Rollback(h)
    PROVE  (\E t \in DOMAIN Snapshots : Promise!Restore(t)) \/ UNCHANGED Promise!vars
<1>1. pub = "idle" /\ pub' = "idle" /\ "idle" \notin Moved
    BY DEF Rollback, RFind, RAside, RPlace, RUndo, RRejoin, RClean, MayStart, Between, Orderly,
           OrderlyInv, SweptInv, Serial, pvars, Moved
<1>2. /\ stamp = 0 /\ stamp' = 0
      /\ HistOf(Home) = IF HistOf(tmp) # H!Empty THEN HistOf(tmp) ELSE HistOf(prod)
      /\ HistOf(Home)' = IF HistOf(tmp)' # H!Empty THEN HistOf(tmp)' ELSE HistOf(prod)'
    BY <1>1, IdleReads, IdleReadsThen DEF Between
<1>3. /\ Served = IF prod # NoRepo THEN Tree(prod)
                  ELSE IF tmp # NoRepo THEN Tree(tmp) ELSE NoRepo
      /\ Served' = IF prod' # NoRepo THEN Tree(prod')
                   ELSE IF tmp' # NoRepo THEN Tree(tmp') ELSE NoRepo
    BY <1>1, IdleReads, IdleReadsThen DEF Between
<1>4. /\ HistOf(NoRepo) = H!Empty
      /\ prod # NoRepo => HistOf(prod) = prod.hist
      /\ tmp # NoRepo => HistOf(tmp) = tmp.hist
      /\ prod' # NoRepo => HistOf(prod)' = prod'.hist
      /\ tmp' # NoRepo => HistOf(tmp)' = tmp'.hist
      /\ prod' = NoRepo => HistOf(prod)' = H!Empty
      /\ tmp' = NoRepo => HistOf(tmp)' = H!Empty
    BY DEF HistOf, Absent
<1>5. Served' = Served /\ HistOf(Home)' = HistOf(Home) => UNCHANGED Promise!vars
    BY <1>2, KeptSame, Stutters
<1>6. CASE prod' = prod /\ tmp' = tmp
    BY <1>1, <1>6, RefineUnseen
<1>7. CASE RAside(h) /\ tmp = NoRepo /\ prod # NoRepo /\ tmp' = prod /\ prod' = NoRepo
    <2>1. HistOf(Home)' = HistOf(Home)
        BY <1>2, <1>4, <1>7
    <2>2. Served' = Served
        BY <1>3, <1>7
    <2> QED
        BY <1>5, <2>1, <2>2
<1>8. CASE RPlace(h) /\ ~(prod' = prod /\ tmp' = tmp)
    <2> DEFINE s == snap[h]
               v == tmp.hist[s]
    <2>1. /\ prod = NoRepo /\ tmp # NoRepo /\ s \in DOMAIN tmp.hist
          /\ prod' = Dir(v.out, v.rpms, H!Empty)
          /\ tmp' = [tmp EXCEPT !.hist = H!Without(tmp.hist, {s})]
        BY <1>8 DEF RPlace, Absent
    <2>2. tmp \in Directory /\ tmp.hist \in History
        BY <2>1, Contents DEF Between, OrderlyInv, RepoInv, DirsOK
    <2>3. v \in Repo /\ v.out \in Outs /\ v.rpms \in Rpms
        BY <2>1, <2>2, SnapshotIsRepo DEF Repo, Outs, Out, Rpms
    <2>4. v = [out |-> v.out, rpms |-> v.rpms]
        BY <2>3 DEF Repo
    <2> HIDE DEF v
    <2>5. prod' # NoRepo /\ prod'.out = v.out /\ prod'.rpms = v.rpms /\ prod'.hist = H!Empty
        BY <2>1, <2>3, DirIs, EmptyIsHistory
    <2>6. Served' = v
        BY <1>3, <2>4, <2>5 DEF Tree
    <2>7. H!Without(tmp.hist, {s}) \in History
        BY <2>2, WithoutIsHistory
    <2>8. tmp' # NoRepo /\ tmp'.hist = H!Without(tmp.hist, {s})
        BY <2>1, <2>2, <2>7, WithHist
    <2>9. HistOf(Home)' = H!Without(tmp.hist, {s})
        BY <1>2, <1>4, <2>5, <2>8
    <2>10. HistOf(Home) = tmp.hist
        BY <1>2, <1>4, <2>1, EmptyHas
    <2>11. Kept = tmp.hist /\ Kept' = H!Without(tmp.hist, {s})
        BY <1>2, <2>9, <2>10, KeptAll, KeptAllThen DEF Between
    <2>12. /\ Snapshots = tmp.hist /\ Snapshots' = H!Without(Snapshots, {s})
           /\ LiveRepo' = Snapshots[s]
        BY <2>6, <2>11 DEF Between, Reads, v
    <2>13. s \in DOMAIN Snapshots /\ Promise!Restore(s)
        BY <2>1, <2>12 DEF H!Without, Promise!Without, Promise!Restore
    <2> QED
        BY <2>13
<1>9. CASE RUndo(h) /\ prod = NoRepo /\ tmp # NoRepo /\ prod' = tmp /\ tmp' = NoRepo
    <2>1. HistOf(prod) = H!Empty
        BY <1>4, <1>9
    <2>2. HistOf(Home)' = HistOf(Home)
        BY <1>2, <1>4, <1>9, <2>1
    <2>3. Served' = Served
        BY <1>3, <1>9
    <2> QED
        BY <1>5, <2>2, <2>3
<1>10. CASE RRejoin(h)
    <2>1. rb[h] = "placed" /\ tmp # NoRepo /\ prod # NoRepo /\ prod.hist = H!Empty
        BY <1>10 DEF RRejoin, Between, OrderlyInv, SweptInv, Holding, LedgerInv, PutBack
    <2>2. tmp \in Directory /\ tmp.hist \in History /\ prod \in Directory
        BY <2>1, Contents DEF Between, OrderlyInv, RepoInv, DirsOK
    <2>3. /\ prod' = [prod EXCEPT !.hist = tmp.hist]
          /\ tmp' = [tmp EXCEPT !.hist = H!Empty]
        BY <1>10, <2>1 DEF RRejoin, Fails, Between, Orderly, Absent
    <2>4. /\ prod' # NoRepo /\ Tree(prod') = Tree(prod) /\ prod'.hist = tmp.hist
          /\ tmp' # NoRepo /\ tmp'.hist = H!Empty
        BY <2>2, <2>3, WithHist, EmptyIsHistory DEF Tree
    <2>5. HistOf(Home)' = HistOf(Home)
        BY <1>2, <1>4, <2>1, <2>4
    <2>6. Served' = Served
        BY <1>3, <2>1, <2>4
    <2> QED
        BY <1>5, <2>5, <2>6
<1>11. CASE RClean(h)
    <2>1. /\ rb[h] = "rejoined" /\ tmp' = NoRepo /\ prod' = prod
        BY <1>11 DEF RClean, Fails, Between, Orderly
    <2>2. tmp # NoRepo /\ prod # NoRepo /\ tmp.hist = H!Empty
        BY <2>1 DEF Between, OrderlyInv, SweptInv, Holding, LedgerInv, PutBack
    <2>3. HistOf(Home)' = HistOf(Home)
        BY <1>2, <1>4, <2>1, <2>2
    <2>4. Served' = Served
        BY <1>3, <2>1, <2>2
    <2> QED
        BY <1>5, <2>3, <2>4
<1>12. \/ prod' = prod /\ tmp' = tmp
       \/ RAside(h) /\ tmp = NoRepo /\ prod # NoRepo /\ tmp' = prod /\ prod' = NoRepo
       \/ RPlace(h)
       \/ RUndo(h) /\ prod = NoRepo /\ tmp # NoRepo /\ prod' = tmp /\ tmp' = NoRepo
       \/ RRejoin(h) \/ RClean(h)
    <2>1. CASE \E t \in Stamp : RFind(h, t)
        BY <2>1 DEF RFind, dirs
    <2>2. CASE RAside(h)
        BY <2>2 DEF RAside, Absent, dirs
    <2>3. CASE RUndo(h)
        BY <2>3 DEF RUndo, Absent
    <2> QED
        BY <2>1, <2>2, <2>3 DEF Rollback
<1> QED
    BY <1>6, <1>7, <1>8, <1>9, <1>10, <1>11, <1>12

(* A generation adds a repo RPM, after its directory. *)
LEMMA RefineGenerate ==
    ASSUME Between, GMkdir \/ GWrite
    PROVE  (\E rs \in SUBSET Rpm : Promise!AddRpm(rs)) \/ UNCHANGED Promise!vars
<1>1. pub = "idle" /\ pub' = "idle" /\ tmp' = tmp /\ "idle" \notin Moved
    BY DEF GMkdir, GWrite, pvars, MayStart, Between, Orderly, OrderlyInv, LedgerInv, Handover, Moved
<1>2. tmp = NoRepo
    <2>1. \A h \in Handler : rb[h] = "idle"
        BY DEF GMkdir, GWrite, MayStart, Between, Orderly, OrderlyInv, SweptInv, Serial, LedgerInv,
           Handover
    <2> QED
        BY <2>1 DEF Between, OrderlyInv, SweptInv, Holding
<1>3. CASE prod' = prod
    BY <1>1, <1>3, RefineUnseen
<1>4. /\ stamp = 0 /\ stamp' = 0 /\ HistOf(Home) = HistOf(prod) /\ HistOf(Home)' = HistOf(prod)'
      /\ Served = (IF prod # NoRepo THEN Tree(prod) ELSE NoRepo)
      /\ prod' # NoRepo => Served' = Tree(prod')
    <2>1. HistOf(tmp) = H!Empty /\ HistOf(tmp)' = H!Empty
        BY <1>1, <1>2 DEF HistOf, Absent
    <2> QED
        BY <1>1, <1>2, <2>1, IdleReads, IdleReadsThen DEF Between
<1>5. HistOf(prod)' = HistOf(prod) => Snapshots' = Snapshots
    BY <1>4, KeptSame DEF Between, Reads
<1>6. CASE prod = NoRepo /\ prod' = Dir(NoRepo, {}, H!Empty)
    <2>1. /\ prod' # NoRepo /\ prod'.out = NoRepo /\ prod'.rpms = {} /\ prod'.hist = H!Empty
        BY <1>6, DirIs, EmptyIsHistory DEF Outs, Rpms
    <2>2. LiveRepo = NoRepo /\ LiveRepo' = [out |-> NoRepo, rpms |-> {}]
        BY <1>4, <1>6, <2>1 DEF Between, Reads, Tree
    <2>3. HistOf(prod)' = HistOf(prod)
        BY <1>6, <2>1 DEF HistOf, Absent
    <2>4. Promise!AddRpm({})
        BY <1>5, <2>2, <2>3 DEF Promise!AddRpm
    <2> QED
        BY <2>4
<1>7. ASSUME NEW rs \in SUBSET Rpm, prod # NoRepo,
             prod' = [prod EXCEPT !.rpms = rs \cup (IF prod.rpms = NoDir THEN {} ELSE prod.rpms)]
      PROVE  Promise!AddRpm(rs)
    <2> DEFINE all == rs \cup (IF prod.rpms = NoDir THEN {} ELSE prod.rpms)
    <2>1. prod \in Directory /\ prod.rpms \in Rpms
        BY <1>7, Contents DEF Between, OrderlyInv, RepoInv, DirsOK
    <2>2. all \in Rpms
        BY <2>1 DEF Rpms
    <2>3. prod' = [prod EXCEPT !.rpms = all]
        BY <1>7
    <2> HIDE DEF all
    <2>4. prod' # NoRepo /\ prod'.out = prod.out /\ prod'.rpms = all /\ prod'.hist = prod.hist
        BY <2>1, <2>2, <2>3, WithRpms
    <2>5. HistOf(prod)' = HistOf(prod)
        BY <1>7, <2>4 DEF HistOf, Absent
    <2>6. /\ LiveRepo = Tree(prod) /\ LiveRepo # NoRepo
          /\ LiveRepo' = [out |-> prod.out, rpms |-> all]
        BY <1>4, <1>7, <2>1, <2>4, TreeIsRepo, Absence DEF Between, Reads, Tree
    <2>7. LiveRepo.out = prod.out /\ LiveRepo.rpms = prod.rpms
        BY <2>6 DEF Tree
    <2> QED
        BY <1>5, <2>5, <2>6, <2>7 DEF Promise!AddRpm, all
<1>8. CASE GMkdir
    <2>1. CASE prod # NoRepo /\ prod.rpms = NoDir
        <3>1. prod' = [prod EXCEPT !.rpms = {} \cup (IF prod.rpms = NoDir THEN {} ELSE prod.rpms)]
            BY <1>8, <2>1 DEF GMkdir, Absent
        <3> QED
            BY <1>7, <2>1, <3>1
    <2> QED
        BY <1>3, <1>6, <1>8, <2>1 DEF GMkdir, Absent
<1>9. CASE GWrite
    <2>1. ASSUME NEW r \in Rpm, prod # NoRepo, prod.rpms # NoDir,
                 prod' = [prod EXCEPT !.rpms = prod.rpms \cup {r}]
          PROVE  Promise!AddRpm({r})
        <3>1. prod' = [prod EXCEPT !.rpms = {r} \cup (IF prod.rpms = NoDir THEN {} ELSE prod.rpms)]
            BY <2>1
        <3> QED
            BY <1>7, <2>1, <3>1
    <2> QED
        BY <1>3, <1>9, <2>1 DEF GWrite, Absent
<1> QED
    BY <1>8, <1>9

(* Every step is one of RepoHistory, or goes unseen. *)
LEMMA RefineStep == Between /\ [Next]_vars => [Promise!Next]_Promise!vars
<1> SUFFICES ASSUME Between, [Next]_vars PROVE [Promise!Next]_Promise!vars
    OBVIOUS
<1>1. ASSUME NEW b \in Build, PBegin(b) PROVE UNCHANGED Promise!vars
    BY <1>1, RefineUnseen DEF PBegin, Moved
<1>2. ASSUME PAbort \/ PPreserve \/ PExit PROVE UNCHANGED Promise!vars
    BY <1>2, RefineUnseen DEF PAbort, PPreserve, PExit, Moved, dirs
<1>3. ASSUME PHistory \/ PCopy \/ PCopied \/ PRemove \/ PRemoved PROVE UNCHANGED Promise!vars
    BY <1>3, RefineHistory, RefineCopy, RefineRemove
<1>4. ASSUME PSwap \/ PPrune \/ PTrim PROVE [Promise!Next]_Promise!vars
    BY <1>4, RefineSwap, RefinePrune, RefineTrim DEF Promise!Next
<1>5. ASSUME NEW h \in Handler, Rollback(h) PROVE [Promise!Next]_Promise!vars
    BY <1>5, RefineRollback DEF Promise!Next
<1>6. ASSUME GMkdir \/ GWrite PROVE [Promise!Next]_Promise!vars
    BY <1>6, RefineGenerate DEF Promise!Next
<1>7. ~CrashRestart
    BY Bounds DEF CrashRestart, Between, Orderly, OrderlyInv, SweptInv
<1>8. ASSUME UNCHANGED vars PROVE UNCHANGED Promise!vars
    <2>1. UNCHANGED <<prod, staging, tmp, pub, stamp>>
        BY <1>8 DEF vars, dirs, pvars
    <2>2. Served' = Served /\ Kept' = Kept
        BY <2>1 DEF Served, Kept, Home, HistOf, Absent, Tree
    <2> QED
        BY <2>2, Stutters
<1> QED
    BY <1>1, <1>2, <1>3, <1>4, <1>5, <1>6, <1>7, <1>8 DEF Next, Pipeline

(* Publications, rollbacks that meet each other, and repo RPM generations
   implement RepoHistory, for any builds, requests, settings and clock, when
   the operations do not overlap, no output has links to directories, no file
   operation but the restore of a snapshot fails and the server is not
   killed.                                                                  *)
THEOREM RepoImplementsHistory ==
    ASSUME Orderly
    PROVE  Spec => ImplementsHistory
<1>1. Init => SweptInv /\ OwnInv /\ LedgerInv /\ Named
    <2>1. Init => SweptInv /\ OwnInv /\ Named
        BY DEF Init, SweptInv, Serial, Holding, OwnInv, Apart, Named
    <2>2. Init => LedgerInv
        BY EmptyHas DEF Init, LedgerInv, Handover, PutBack, Dated, Intact, Whole, HistOf, Absent,
           Moved
    <2> QED
        BY <2>1, <2>2
<1>2. RepoInv /\ SweptInv /\ [Next]_vars => SweptInv'
    BY SweptStep DEF Orderly
<1>3. RepoInv /\ OwnInv /\ [Next]_vars => OwnInv'
    BY OwnStep DEF Orderly
<1>4. OrderlyInv /\ [Next]_vars => LedgerInv'
    BY LedgerStep
<1>5. OrderlyInv /\ [Next]_vars /\ RepoInv' => OrderlyInv'
    BY <1>2, <1>3, <1>4, NamedStep DEF OrderlyInv
<1>6. Spec => []OrderlyInv
    <2>1. Init /\ RepoInv => OrderlyInv
        BY <1>1 DEF OrderlyInv
    <2> QED
        BY <1>5, <2>1, RepoInvHolds, PTL DEF Spec
<1>7. OrderlyInv => Reads
    BY ReadsIs
<1>8. Init => Promise!Init
    <2> SUFFICES ASSUME Init PROVE Promise!Init
        OBVIOUS
    <2>1. LiveRepo = NoRepo
        BY DEF Init, LiveRepo, Absent
    <2>2. Snapshots = Promise!Empty
        <3>1. \A d \in {prod, staging, tmp} : DOMAIN HistOf(d) = {}
            BY EmptyHas DEF Init, HistOf, Absent
        <3> QED
            BY <3>1 DEF Snapshots, Promise!Empty
    <2> QED
        BY <2>1, <2>2 DEF Promise!Init
<1>9. OrderlyInv /\ OrderlyInv' /\ Reads /\ Reads' /\ [Next]_vars => [Promise!Next]_Promise!vars
    BY RefineStep DEF Between
<1> QED
    BY <1>6, <1>7, <1>8, <1>9, PTL DEF Spec, ImplementsHistory, Promise!Spec
=============================================================================
