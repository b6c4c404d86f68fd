--------------------------- MODULE BuildLifecycle ---------------------------
(***************************************************************************)
(* What the builds table promises to everybody who reads it (the web UI,   *)
(* the dashboard, the integration tests): a build row walks once through   *)
(* the statuses of models.BuildStatus, ends in exactly one terminal status *)
(* and a product never has two rows in a non-terminal one.  A row may miss *)
(* a step, and then lags behind until it is written again.  BuildService   *)
(* implements this specification.                                          *)
(***************************************************************************)
EXTENDS Naturals

CONSTANTS
    Product,   \* ids a products row may get (AUTOINCREMENT: never reused)
    Build,     \* ids a builds row may get (AUTOINCREMENT: never reused)
    None       \* no value

VARIABLES
    owner,     \* builds.product_id
    status,    \* builds.status, or "absent" before and "deleted" after the row exists
    stale      \* builds whose row lags behind

vars == <<owner, status, stale>>

(* The statuses HasRunningBuild counts as a build in progress. *)
Active == {"pending", "building", "signing", "publishing", "verifying"}

Terminal == {"success", "failed", "cancelled"}

Status == Active \cup Terminal \cup {"absent", "deleted"}

(* The status at the trigger and those that the stages move the row to. *)
Progress == <<"pending", "building", "signing", "publishing", "verifying">>

-----------------------------------------------------------------------------

Init ==
    /\ owner = [b \in Build |-> None]
    /\ status = [b \in Build |-> "absent"]
    /\ stale = {}

(* A row is born only while its product has no build in progress. *)
Trigger(b, p) ==
    /\ status[b] = "absent"
    /\ \A c \in Build : owner[c] = p => status[c] \notin Active
    /\ owner' = [owner EXCEPT ![b] = p]
    /\ status' = [status EXCEPT ![b] = "pending"]
    /\ UNCHANGED stale

(* A stage begins: the row moves on, never back, and by one status unless it
   lagged behind.                                                           *)
Advance(b) ==
    /\ \E i, j \in DOMAIN Progress :
          /\ status[b] = Progress[i] /\ i < j
          /\ b \notin stale => j = i + 1
          /\ status' = [status EXCEPT ![b] = Progress[j]]
    /\ stale' = stale \ {b}
    /\ UNCHANGED owner

(* A build in progress ends: it succeeds only after the last stage, and is
   cancelled only before that stage began.                                  *)
Finish(b, s) ==
    /\ status[b] \in Active
    /\ s = "success" => status[b] = "verifying" \/ b \in stale
    /\ s = "cancelled" => status[b] # "verifying"
    /\ status' = [status EXCEPT ![b] = s]
    /\ stale' = stale \ {b}
    /\ UNCHANGED owner

(* The row of a build in progress is not written when it should be. *)
Miss(b) ==
    /\ status[b] \in Active
    /\ stale' = stale \cup {b}
    /\ UNCHANGED <<owner, status>>

(* Deleting a product deletes its rows, whatever their status. *)
Delete(p) ==
    /\ status' = [b \in Build |-> IF owner[b] = p /\ status[b] # "absent"
                                    THEN "deleted" ELSE status[b]]
    /\ UNCHANGED <<owner, stale>>

Next ==
    \/ \E b \in Build, p \in Product : Trigger(b, p)
    \/ \E b \in Build : Advance(b) \/ Miss(b)
    \/ \E b \in Build, s \in Terminal : Finish(b, s)
    \/ \E p \in Product : Delete(p)

Spec == Init /\ [][Next]_vars

=============================================================================
