--------------------------- MODULE RepoRpmsProofs ---------------------------
(***************************************************************************)
(* Proofs about RepoRpms, for any files, any number of versions and of     *)
(* snapshots that are kept, and any times.                                 *)
(***************************************************************************)
EXTENDS RepoRpms, FiniteSetTheorems, TLAPS

(* Times of files that are there, all before the present. *)
Times(m) ==
    /\ DOMAIN m \subseteq File /\ m \in [DOMAIN m -> 1..MaxTime]
    /\ \A f \in DOMAIN m : m[f] < now

Kinds ==
    /\ Times(mtime) /\ DOMAIN mtime = dir
    /\ pub \in {"idle", "copied", "removed", "swapped", "listed"}
    /\ Times(staged)
    /\ doomed \subseteq dir /\ (pub # "listed" => doomed = {})
    /\ \A m \in past : Times(m)
    /\ now \in 1..(MaxTime + 1)
    /\ newest \subseteq File /\ \A f, g \in newest : f = g
    /\ amiss \subseteq Mishap

(* The file that was generated last is there, and the last by name and time. *)
LastOf(m) ==
    /\ newest \subseteq DOMAIN m /\ (newest = {} => DOMAIN m = {})
    /\ \A f \in newest : \A g \in DOMAIN m \ {f} : g < f /\ m[g] < m[f]

(* It is so in production, in the copy that will replace it, or in what was
   generated meanwhile, which will not be replaced.                         *)
Last ==
    amiss = {} =>
        /\ pub # "removed" => LastOf(mtime)
        /\ pub = "copied" => LastOf(staged)
        /\ pub = "removed" => IF dir = {} THEN LastOf(staged) ELSE LastOf(mtime)
        /\ pub = "listed" => newest \cap doomed = {}

RpmsInv == Kinds /\ Last

(* The times of no file. *)
LEMMA NoneIsTimes == Times(None) /\ DOMAIN None = {}
BY DEF Times, None

(* Times of some of the files. *)
LEMMA FewerTimes ==
    ASSUME NEW m, Times(m), NEW P \in SUBSET DOMAIN m
    PROVE  Times([f \in P |-> m[f]]) /\ DOMAIN [f \in P |-> m[f]] = P
BY DEF Times

(* A version is generated. *)
LEMMA RpmsGenerate ==
    ASSUME RpmsInv, NEW f \in File, Generate(f)
    PROVE  RpmsInv'
<1>1. /\ dir' = dir \cup {f} /\ mtime' = [g \in dir' |-> IF g = f THEN now ELSE mtime[g]]
      /\ now < MaxTime /\ now' = now + 1 /\ newest' = {f} /\ amiss' = Flaws(f)
      /\ pub' = pub /\ staged' = staged /\ doomed' = doomed /\ past' = past
    BY DEF Generate, pvars
<1>2. /\ dir \subseteq File /\ mtime \in [dir -> 1..MaxTime]
      /\ now \in 1..(MaxTime + 1) /\ \A g \in dir : mtime[g] < now
      /\ MaxTime \in Nat /\ File \subseteq Nat
    BY Parameters DEF RpmsInv, Kinds, Times
<1>3. DOMAIN mtime' = dir' /\ \A g \in dir' : mtime'[g] = IF g = f THEN now ELSE mtime[g]
    BY <1>1
<1>4. now \in 1..MaxTime /\ now' \in 1..(MaxTime + 1)
    BY <1>1, <1>2
<1>5. ASSUME NEW g \in dir' PROVE mtime'[g] \in 1..MaxTime /\ mtime'[g] < now'
    BY <1>1, <1>2, <1>3, <1>4
<1>6. Times(mtime)'
    <2>1. mtime' \in [dir' -> 1..MaxTime] /\ dir' \subseteq File
        BY <1>1, <1>2, <1>5
    <2> QED
        BY <1>3, <1>5, <2>1 DEF Times
<1>7. ASSUME NEW m, Times(m) PROVE Times(m)'
    <2>1. \A g \in DOMAIN m : m[g] \in Nat /\ m[g] < now
        BY <1>2, <1>7 DEF Times
    <2>2. \A g \in DOMAIN m : m[g] < now'
        BY <1>1, <1>2, <2>1
    <2> QED
        BY <1>7, <2>2 DEF Times
<1>8. Times(staged)' /\ \A m \in past' : Times(m)'
    BY <1>1, <1>7 DEF RpmsInv, Kinds
<1>9. Kinds'
    <2>1. amiss' \subseteq Mishap
        BY <1>1 DEF Flaws, Mishap
    <2> QED
        BY <1>1, <1>3, <1>4, <1>6, <1>8, <2>1 DEF RpmsInv, Kinds
<1>10. ASSUME amiss' = {} PROVE LastOf(mtime)' /\ pub # "copied" /\ f \notin doomed
    <2>1. (\A g \in dir : ~(f < g)) /\ pub # "copied" /\ f \notin doomed
        BY <1>1, <1>10 DEF Flaws
    <2>2. ASSUME NEW g \in dir' \ {f} PROVE g < f /\ mtime'[g] < mtime'[f]
        <3>1. g \in dir /\ g # f /\ g \in Nat /\ f \in Nat
            BY <1>1, <1>2, <2>2
        <3>2. mtime'[g] = mtime[g] /\ mtime'[f] = now
            BY <1>1, <1>3, <3>1
        <3> QED
            BY <1>2, <2>1, <3>1, <3>2
    <2> QED
        BY <1>1, <1>3, <2>1, <2>2 DEF LastOf
<1>11. Last'
    BY <1>1, <1>10 DEF Last
<1> QED
    BY <1>9, <1>11 DEF RpmsInv

(* The directory is copied. *)
LEMMA RpmsCopy ==
    ASSUME RpmsInv, PCopy
    PROVE  RpmsInv'
<1>0. /\ dir \subseteq File /\ mtime \in [dir -> 1..MaxTime]
      /\ now \in 1..(MaxTime + 1)
      /\ MaxTime \in Nat /\ File \subseteq Nat /\ IsFiniteSet(File)
    BY Parameters DEF RpmsInv, Kinds, Times
<1>1. IsFiniteSet(dir) /\ Cardinality(dir) \in Nat
    BY <1>0, FS_Subset, FS_CardinalityType
<1>2. PICK n \in Nat : n = now + Cardinality(dir) /\ n <= MaxTime
    BY <1>0, <1>1 DEF PCopy
<1>3. PICK m \in CopyTimes :
        /\ \/ staged' = m /\ amiss' = amiss \cup (IF OwnTicks(m) THEN {} ELSE {"ticks"})
           \/ \E P \in Prefixes : staged' = [f \in P |-> m[f]] /\ amiss' = amiss \cup {"copy"}
        /\ \E old \in SUBSET past : past' = old \cup {m}
    BY DEF PCopy
<1>4. m \in [dir -> now..(n - 1)] /\ \A f, g \in dir : f < g => m[f] <= m[g]
    <2>1. now + Cardinality(dir) - 1 = n - 1
        BY <1>0, <1>1, <1>2
    <2>2. m \in [dir -> now..(now + Cardinality(dir) - 1)]
          /\ \A f, g \in dir : f < g => m[f] <= m[g]
        BY DEF CopyTimes
    <2> QED
        BY <2>1, <2>2
<1>5. /\ now' = n /\ pub' = "copied" /\ pub = "idle"
      /\ UNCHANGED <<dir, mtime, doomed, newest>>
    BY <1>2 DEF PCopy
<1>6. Times(m)' /\ DOMAIN m = dir
    <2>1. \A f \in dir : m[f] \in 1..MaxTime /\ m[f] < n
        <3>1. ASSUME NEW f \in dir PROVE m[f] \in 1..MaxTime /\ m[f] < n
            <4>1. m[f] \in now..(n - 1)
                BY <1>4
            <4> QED
                BY <1>0, <1>2, <4>1
        <3> QED
            BY <3>1
    <2>2. m \in [dir -> 1..MaxTime] /\ DOMAIN m = dir
        BY <1>4, <2>1
    <2> QED
        BY <1>0, <1>5, <2>1, <2>2 DEF Times
<1>7. ASSUME NEW x, Times(x) PROVE Times(x)'
    <2>1. now <= n
        BY <1>0, <1>1, <1>2
    <2>2. \A g \in DOMAIN x : x[g] \in Nat /\ x[g] < now
        BY <1>0, <1>7 DEF Times
    <2>3. \A g \in DOMAIN x : x[g] < now'
        BY <1>0, <1>2, <1>5, <2>1, <2>2
    <2> QED
        BY <1>7, <2>3 DEF Times
<1>8. Times(staged)'
    <2>1. ASSUME NEW P \in Prefixes, staged' = [f \in P |-> m[f]] PROVE Times(staged)'
        <3>1. P \subseteq dir
            BY <2>1 DEF Prefixes
        <3> QED
            BY <1>6, <2>1, <3>1 DEF Times
    <2>2. staged' = m => Times(staged)'
        BY <1>6 DEF Times
    <2> QED
        BY <1>3, <2>1, <2>2
<1>9. \A x \in past' : Times(x)'
    <2>1. \A x \in past' : x \in past \/ x = m
        BY <1>3
    <2> QED
        BY <1>6, <1>7, <2>1 DEF RpmsInv, Kinds
<1>10. Kinds'
    <2>1. Times(mtime)'
        <3>1. Times(mtime)
            BY DEF RpmsInv, Kinds
        <3>2. \A g \in DOMAIN mtime : mtime[g] < now'
            BY <1>7, <3>1 DEF Times
        <3> QED
            BY <1>5, <3>1, <3>2 DEF Times
    <2>2. now' \in 1..(MaxTime + 1)
        BY <1>0, <1>1, <1>2, <1>5
    <2>3. amiss' \subseteq Mishap
        BY <1>3 DEF Mishap, RpmsInv, Kinds
    <2> QED
        BY <1>5, <1>8, <1>9, <2>1, <2>2, <2>3 DEF RpmsInv, Kinds
<1>11. ASSUME amiss' = {} PROVE LastOf(mtime)' /\ LastOf(staged)'
    <2>1. amiss = {} /\ staged' = m /\ \A f, g \in dir : m[f] = m[g] => f = g
        BY <1>3, <1>6, <1>11 DEF OwnTicks
    <2>2. LastOf(mtime)
        BY <1>5, <2>1 DEF RpmsInv, Last
    <2>3. LastOf(mtime)'
        BY <1>5, <2>2 DEF LastOf
    <2>4. DOMAIN mtime = dir
        BY DEF RpmsInv, Kinds
    <2>5. ASSUME NEW f \in newest, NEW g \in dir \ {f} PROVE g < f /\ m[g] < m[f]
        <3>1. f \in dir /\ g < f
            BY <2>2, <2>4, <2>5 DEF LastOf
        <3>2. m[g] <= m[f] /\ m[g] # m[f]
            BY <1>4, <2>1, <2>5, <3>1
        <3>3. m[g] \in now..(n - 1) /\ m[f] \in now..(n - 1) /\ now \in Nat /\ n \in Nat
            BY <1>0, <1>2, <1>4, <2>5, <3>1
        <3> QED
            BY <3>1, <3>2, <3>3
    <2>6. LastOf(staged)'
        BY <1>5, <1>6, <2>1, <2>2, <2>4, <2>5 DEF LastOf
    <2> QED
        BY <2>3, <2>6
<1>12. Last'
    BY <1>5, <1>11 DEF Last
<1> QED
    BY <1>10, <1>12 DEF RpmsInv

(* Production is removed, or in part, and replaced, or not. *)
LEMMA RpmsSwap ==
    ASSUME RpmsInv, PRemove \/ PRemoveFails \/ PSwap \/ PSwapFails
    PROVE  RpmsInv'
<1> USE DEF RpmsInv, Kinds
<1>1. CASE PRemove
    <2>1. /\ pub = "copied" /\ pub' = "removed" /\ dir' = {} /\ mtime' = None
          /\ UNCHANGED <<staged, doomed, past, now, newest, amiss>>
        BY <1>1 DEF PRemove
    <2>2. Times(mtime)' /\ DOMAIN mtime' = {}
        BY <2>1, NoneIsTimes DEF Times
    <2>3. Kinds'
        BY <2>1, <2>2 DEF Times
    <2>4. Last'
        BY <2>1 DEF Last, LastOf
    <2> QED
        BY <2>3, <2>4
<1>2. CASE PRemoveFails
    <2>1. /\ pub = "copied" /\ pub' = "idle" /\ staged' = None
          /\ dir' \in SUBSET dir /\ mtime' = [f \in dir' |-> mtime[f]]
          /\ amiss' = amiss \cup {"removal"}
          /\ UNCHANGED <<doomed, past, now, newest>>
        BY <1>2 DEF PRemoveFails
    <2>2. Times(mtime)' /\ DOMAIN mtime' = dir'
        BY <2>1, FewerTimes DEF Times
    <2>3. Times(staged)'
        BY <2>1, NoneIsTimes DEF Times
    <2>4. Kinds'
        BY <2>1, <2>2, <2>3 DEF Times, Mishap
    <2>5. Last'
        BY <2>1 DEF Last
    <2> QED
        BY <2>4, <2>5
<1>3. CASE PSwap
    <2>1. /\ pub = "removed" /\ pub' = "swapped" /\ dir = {} /\ dir' = DOMAIN staged
          /\ mtime' = staged /\ staged' = None
          /\ UNCHANGED <<doomed, past, now, newest, amiss>>
        BY <1>3 DEF PSwap
    <2>2. Times(staged)'
        BY <2>1, NoneIsTimes DEF Times
    <2>3. Kinds'
        BY <2>1, <2>2 DEF Times
    <2>4. Last'
        BY <2>1 DEF Last, LastOf
    <2> QED
        BY <2>3, <2>4
<1>4. CASE PSwapFails
    <2>1. /\ pub = "removed" /\ pub' = "idle" /\ staged' = None
          /\ amiss' = amiss \cup (IF dir = {} THEN {"swap"} ELSE {})
          /\ UNCHANGED <<dir, mtime, doomed, past, now, newest>>
        BY <1>4 DEF PSwapFails
    <2>2. Times(staged)'
        BY <2>1, NoneIsTimes DEF Times
    <2>3. Kinds'
        BY <2>1, <2>2 DEF Times, Mishap
    <2>4. Last'
        BY <2>1 DEF Last, LastOf
    <2> QED
        BY <2>3, <2>4
<1> QED
    BY <1>1, <1>2, <1>3, <1>4

(* What is kept of the files contains the one with the last time. *)
LEMMA KeptHasLast ==
    ASSUME NEW K \in Kept, NEW f \in dir, \A g \in dir : mtime[g] \in Nat,
           \A g \in dir \ {f} : mtime[g] < mtime[f]
    PROVE  f \in K
<1>1. K \subseteq dir /\ Cardinality(K) = KeepRpms /\ \A h \in K, g \in dir \ K : mtime[g] <= mtime[h]
    BY DEF Kept, kSubset
<1>2. K # {}
    BY <1>1, FS_EmptySet, Parameters
<1>3. PICK h \in K : TRUE
    BY <1>2
<1>4. f \notin K => mtime[f] <= mtime[h] /\ mtime[h] < mtime[f]
    BY <1>1, <1>3
<1> QED
    BY <1>1, <1>3, <1>4

(* The old files are listed and removed. *)
LEMMA RpmsTrim ==
    ASSUME RpmsInv, PList \/ PTrim
    PROVE  RpmsInv'
<1>1. CASE PList
    <2>1. /\ pub = "swapped" /\ pub' = "listed"
          /\ doomed' = {} \/ \E K \in Kept : doomed' = dir \ K
          /\ UNCHANGED <<dir, mtime, staged, past, now, newest, amiss>>
        BY <1>1 DEF PList
    <2>2. Kinds'
        BY <2>1 DEF RpmsInv, Kinds, Times
    <2>3. ASSUME amiss = {} PROVE LastOf(mtime) /\ newest \cap doomed' = {}
        <3>1. LastOf(mtime) /\ DOMAIN mtime = dir
            BY <2>1, <2>3 DEF RpmsInv, Kinds, Last
        <3>2. \A g \in dir : mtime[g] \in Nat
            BY Parameters DEF RpmsInv, Kinds, Times
        <3>3. ASSUME NEW f \in newest, NEW K \in Kept PROVE f \in K
            BY <3>1, <3>2, <3>3, KeptHasLast DEF LastOf
        <3> QED
            BY <2>1, <3>1, <3>3
    <2>4. Last'
        BY <2>1, <2>3 DEF Last, LastOf
    <2> QED
        BY <2>2, <2>4 DEF RpmsInv
<1>2. CASE PTrim
    <2>1. PICK gone \in SUBSET doomed : dir' = dir \ gone
        BY <1>2 DEF PTrim
    <2>2. /\ pub = "listed" /\ pub' = "idle" /\ doomed' = {} /\ mtime' = [f \in dir' |-> mtime[f]]
          /\ UNCHANGED <<staged, past, now, newest, amiss>>
        BY <1>2 DEF PTrim
    <2>3. Times(mtime)' /\ DOMAIN mtime' = dir' /\ dir' \subseteq dir
        BY <2>1, <2>2, FewerTimes DEF RpmsInv, Kinds, Times
    <2>4. Kinds'
        BY <2>2, <2>3 DEF RpmsInv, Kinds, Times
    <2>5. ASSUME amiss = {} PROVE LastOf(mtime)'
        <3>1. LastOf(mtime) /\ newest \cap doomed = {} /\ DOMAIN mtime = dir
            BY <2>2, <2>5 DEF RpmsInv, Kinds, Last
        <3>2. newest \subseteq dir' /\ (newest = {} => dir' = {})
            BY <2>1, <3>1 DEF LastOf
        <3>3. \A f \in dir' : mtime'[f] = mtime[f]
            BY <2>2
        <3> QED
            BY <2>2, <2>3, <3>1, <3>2, <3>3 DEF LastOf
    <2>6. Last'
        BY <2>2, <2>5 DEF Last
    <2> QED
        BY <2>4, <2>6 DEF RpmsInv
<1> QED
    BY <1>1, <1>2

(* The server dies, or a snapshot is put back. *)
LEMMA RpmsDieOrBack ==
    ASSUME RpmsInv, Die \/ Rollback
    PROVE  RpmsInv'
<1>1. CASE Die
    <2>1. /\ pub' = "idle" /\ staged' = None /\ doomed' = {}
          /\ amiss' = amiss \cup (IF pub = "removed" THEN {"kill"} ELSE {})
          /\ UNCHANGED <<dir, mtime, past, now, newest>>
        BY <1>1 DEF Die
    <2>2. Times(staged)'
        BY <2>1, NoneIsTimes DEF Times
    <2>3. Kinds'
        BY <2>1, <2>2 DEF RpmsInv, Kinds, Times, Mishap
    <2>4. Last'
        BY <2>1 DEF RpmsInv, Last, LastOf
    <2> QED
        BY <2>3, <2>4 DEF RpmsInv
<1>2. CASE Rollback
    <2>1. PICK m \in past : dir' = DOMAIN m /\ mtime' = m /\ past' = past \ {m}
        BY <1>2 DEF Rollback
    <2>2. /\ pub = "idle" /\ amiss' = amiss \cup {"rollback"}
          /\ UNCHANGED <<pub, staged, doomed, now, newest>>
        BY <1>2 DEF Rollback, pvars
    <2>3. Kinds'
        BY <2>1, <2>2 DEF RpmsInv, Kinds, Times, Mishap
    <2>4. Last'
        BY <2>2 DEF Last
    <2> QED
        BY <2>3, <2>4 DEF RpmsInv
<1> QED
    BY <1>1, <1>2

(* The invariant holds. *)
LEMMA RpmsInvHolds == Spec => []RpmsInv
<1>1. ASSUME Init PROVE RpmsInv
    <2>1. /\ dir = {} /\ mtime = None /\ pub = "idle" /\ staged = None /\ doomed = {}
          /\ past = {} /\ now = 1 /\ newest = {} /\ amiss = {}
        BY <1>1 DEF Init
    <2>2. now \in 1..(MaxTime + 1)
        BY <2>1, Parameters
    <2>3. Kinds
        BY <2>1, <2>2, NoneIsTimes DEF Kinds
    <2> QED
        BY <2>1, <2>3, NoneIsTimes DEF RpmsInv, Last, LastOf
<1>2. ASSUME RpmsInv, [Next]_vars PROVE RpmsInv'
    <2>1. CASE UNCHANGED vars
        BY <1>2, <2>1 DEF vars, pvars, RpmsInv, Kinds, Times, Last, LastOf
    <2> QED
        BY <1>2, <2>1, RpmsGenerate, RpmsCopy, RpmsSwap, RpmsTrim, RpmsDieOrBack DEF Next
<1> QED
    BY <1>1, <1>2, PTL DEF Spec

(* Every variable has values of its kind. *)
THEOREM RpmsTypes == Spec => []TypeOK
<1>1. ASSUME RpmsInv PROVE TypeOK
    <2>1. newest = {} \/ \E f \in newest : newest = {f}
        BY <1>1 DEF RpmsInv, Kinds
    <2>2. Cardinality(newest) <= 1
        <3>1. newest = {} => Cardinality(newest) = 0
            BY FS_EmptySet
        <3>2. \A f : Cardinality({f}) = 1
            BY FS_Singleton
        <3> QED
            BY <2>1, <3>1, <3>2
    <2> QED
        BY <1>1, <2>2 DEF RpmsInv, Kinds, Times, IsTimes, TypeOK
<1> QED
    BY <1>1, RpmsInvHolds, PTL

(* GetLatest finds the repo RPM that was generated last, through any number
   of publications, rollbacks, kills and failures, unless one of the mishaps
   that LatestServed names has happened to this file since.                 *)
THEOREM RpmsLatestServed == Spec => []LatestServed
<1>1. ASSUME RpmsInv, pub # "removed", amiss = {} PROVE GetLatest = newest
    <2>1. /\ mtime \in [dir -> 1..MaxTime] /\ dir \subseteq Nat /\ DOMAIN mtime = dir
          /\ LastOf(mtime)
        BY <1>1, Parameters DEF RpmsInv, Kinds, Times, Last
    <2>2. CASE newest = {}
        BY <2>1, <2>2 DEF LastOf, GetLatest
    <2>3. ASSUME NEW f \in newest PROVE GetLatest = newest
        <3>1. newest = {f}
            BY <1>1, <2>3 DEF RpmsInv, Kinds
        <3>2. \A g \in dir : mtime[g] \in Nat /\ g \in Nat
            BY <2>1, Parameters
        <3>3. f \in dir /\ \A g \in dir \ {f} : g < f /\ mtime[g] < mtime[f]
            BY <2>1, <2>3 DEF LastOf
        <3>4. f \in GetLatest
            BY <3>2, <3>3 DEF GetLatest
        <3>5. ASSUME NEW g \in GetLatest PROVE g = f
            <4>1. /\ g \in dir
                  /\ mtime[f] < mtime[g] \/ (mtime[f] = mtime[g] /\ g <= f)
                BY <3>3 DEF GetLatest
            <4>2. g # f => mtime[g] < mtime[f]
                BY <3>3, <4>1
            <4>3. mtime[g] \in Nat /\ mtime[f] \in Nat
                BY <3>2, <3>3, <4>1
            <4> QED
                BY <4>1, <4>2, <4>3
        <3> QED
            BY <3>1, <3>4, <3>5
    <2> QED
        BY <2>2, <2>3
<1>2. RpmsInv => LatestServed
    BY <1>1 DEF LatestServed
<1> QED
    BY <1>2, RpmsInvHolds, PTL
=============================================================================
