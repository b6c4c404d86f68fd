----------------------------- MODULE RepoHistory -----------------------------
(***************************************************************************)
(* What the repository directory of one product promises to its users: one *)
(* live repository, a history of snapshots to go back to, and repo RPMs    *)
(* that survive rebuilds.  RepoPublish implements it as long as the        *)
(* operations on the product do not overlap.                               *)
(***************************************************************************)
EXTENDS Naturals, FiniteSets

CONSTANTS
    Build,      \* builds whose output may be published
    Rpm,        \* repo RPM files that may be generated
    NoRepo,     \* no repository
    NoDir,      \* no repo-rpm subdirectory
    Stamp,      \* timestamps of snapshots
    KeepCounts, \* values of the rollback_keep_count setting
    KeepRpms    \* repo RPMs a publication keeps (3 in the code)

VARIABLES
    live,       \* the repository served: output of a build and repo RPMs
    past        \* the snapshots, by timestamp

vars == <<live, past>>

(* The output of a build, or of none when only a repo RPM was generated. *)
Repo == [out : Build \cup {NoRepo}, rpms : (SUBSET Rpm) \cup {NoDir}]

Empty == [t \in {} |-> NoRepo]

Put(f, t, v) == [u \in DOMAIN f \cup {t} |-> IF u = t THEN v ELSE f[u]]

Without(f, ts) == [u \in DOMAIN f \ ts |-> f[u]]

(* The k latest snapshots. *)
Latest(f, k) ==
    Without(f, {t \in DOMAIN f : Cardinality({u \in DOMAIN f : u > t}) >= k})

-----------------------------------------------------------------------------

Init == live = NoRepo /\ past = Empty

(* The new output is served with the repo RPMs there were; what was served
   becomes the latest snapshot.                                             *)
Publish(b, t) ==
    /\ \A u \in DOMAIN past : u < t
    /\ \/ /\ live = NoRepo
          /\ live' = [out |-> b, rpms |-> NoDir]
          /\ UNCHANGED past
       \/ /\ live # NoRepo
          /\ live' = [out |-> b, rpms |-> live.rpms]
          /\ past' = Put(past, t, live)

(* Only the k latest snapshots are kept. *)
Prune(k) == past' = Latest(past, k) /\ UNCHANGED live

(* A snapshot is served again and leaves the history. *)
Restore(t) ==
    /\ t \in DOMAIN past
    /\ live' = past[t]
    /\ past' = Without(past, {t})

(* A repo RPM is added; its directory may come before the file. *)
AddRpm(rs) ==
    /\ live' = [out |-> IF live = NoRepo THEN NoRepo ELSE live.out,
                rpms |-> rs \cup (IF live = NoRepo \/ live.rpms = NoDir THEN {} ELSE live.rpms)]
    /\ UNCHANGED past

(* Superfluous repo RPMs are removed. *)
TrimRpms(kept) ==
    /\ live # NoRepo /\ live.rpms # NoDir
    /\ kept \subseteq live.rpms /\ Cardinality(kept) = KeepRpms
    /\ live' = [live EXCEPT !.rpms = kept]
    /\ UNCHANGED past

Next ==
    \/ \E b \in Build, t \in Stamp : Publish(b, t)
    \/ \E k \in KeepCounts : Prune(k)
    \/ \E t \in DOMAIN past : Restore(t)
    \/ \E rs \in SUBSET Rpm : AddRpm(rs)
    \/ \E kept \in SUBSET Rpm : TrimRpms(kept)

Spec == Init /\ [][Next]_vars
=============================================================================
