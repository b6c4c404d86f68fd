--------------------------- MODULE BuildServiceInv ---------------------------
(***************************************************************************)
(* The inductive invariant of BuildService: what every step relies on when *)
(* it runs between the steps of the others.                                *)
(***************************************************************************)
EXTENDS BuildService

(* s.mu is held exactly by the client inside TriggerBuild, and the entry it
   checked to be free stays free until it stores its own.                   *)
LockInv ==
    \A c \in Client :
        /\ at[c] \in {"checked", "inserted"} <=> mu = c
        /\ at[c] # "idle" => tgt[c] \in Product
        /\ mu = c => running[tgt[c]] = None

(* The row of a request in flight still waits for its goroutine. *)
InsertedInv ==
    \A c \in Client : at[c] = "inserted" =>
        /\ job[c] \in Build
        /\ pc[job[c]] = "none"
        /\ owner[job[c]] = tgt[c]
        /\ dir[job[c]] \in Name
        /\ status[job[c]] \in {"pending", "deleted"}

(* A goroutine is the entry of its product until it removes itself. *)
EntryInv ==
    \A b \in Build :
        /\ status[b] = "absent" => pc[b] = "none"
        /\ status[b] # "absent" => owner[b] \in Product
        /\ pc[b] \in HoldsEntry =>
               owner[b] \in Product /\ running[owner[b]] = b /\ dir[b] \in Name

(* Rows agree with the progress of their goroutines. *)
RowInv ==
    /\ OneActiveRow
    /\ ActiveRowIsDriven
    /\ \A c \in Client : at[c] = "checked" => ~HasRunningBuild(tgt[c])
    /\ \A b \in Build :
           pc[b] \in {"start", "check", "work"} => status[b] \in Active \cup {"deleted"}

(* A registered writer belongs to a goroutine that has not unlisted it. *)
LogInv ==
    /\ LogOpenWhileUsed
    /\ \A b \in logWriters : pc[b] \in HoldsEntry \cup {"unlist"}

(* What Run returned is what the row says, if it was written, and the row no
   longer changes.                                                          *)
NotifyInv ==
    \A b \in Build :
        /\ pc[b] \in {"unstage", "judge", "notify"} /\ b \notin stale =>
               /\ result[b] = "nil" => status[b] \in {"success", "deleted"}
               /\ result[b] # "nil" => status[b] \in {"failed", "cancelled", "deleted"}
        /\ pc[b] = "notify" => status[b] # "cancelled"
        /\ status[b] = "cancelled" =>
               pc[b] # "none" /\ (pc[b] \in {"done", "killed"} \/ b \in cancelled)
        /\ notified[b] # "none" => pc[b] \in {"release", "unlist", "close", "done", "killed"}

(* The row of a running pipeline is where its stages put it, or behind. *)
Reached(b, n) ==
    \E i \in 1..n : status[b] = Lifecycle!Progress[i] /\ (b \notin stale => i = n)

StageInv ==
    \A b \in Build :
        /\ pc[b] \in {"none", "start"} => stage[b] = BuildStage
        /\ pc[b] = "start" => status[b] \in {"pending", "deleted"}
        /\ pc[b] = "check" => status[b] = "deleted" \/ Reached(b, stage[b])
        /\ pc[b] = "work" => status[b] = "deleted" \/ Reached(b, stage[b] + 1)

(* products.name is UNIQUE. *)
NameInv ==
    \A p, q \in Product : name[p] \in Name /\ name[p] = name[q] => p = q

(* What a cancellation has read of the row stays right, and an entry leads to
   a build of its product even when that build has ended.                   *)
AskInv ==
    /\ \A c \in Client : at[c] = "read" =>
           job[c] \in Build /\ status[job[c]] # "absent" /\ tgt[c] = owner[job[c]]
    /\ \A p \in Product : running[p] # None =>
           status[running[p]] # "absent" /\ owner[running[p]] = p

(* A staging directory remembers a build that has been there, and one that
   still runs finds it where it put it.                                     *)
TakenInv ==
    \A n \in Name, b \in Build : staging[n] = b =>
        /\ pc[b] \notin {"none", "start"}
        /\ status[b] # "absent"
        /\ pc[b] \in InRun => dir[b] = n

(* What the safety properties rest on ... *)
CoreInv ==
    /\ TypeOK
    /\ LockInv
    /\ InsertedInv
    /\ EntryInv
    /\ RowInv
    /\ LogInv
    /\ NotifyInv
    /\ NotifyTruthful
    /\ NameInv

(* ... the action properties, and, for the refinement of BuildLifecycle, the
   progress of the rows.                                                    *)
IInv == CoreInv /\ AskInv /\ TakenInv /\ StageInv
=============================================================================
