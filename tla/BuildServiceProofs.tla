------------------------- MODULE BuildServiceProofs -------------------------
(***************************************************************************)
(* Proofs about BuildService for any number of products, builds, names,    *)
(* clients and faults: CoreInv and StageInv are preserved by every step,   *)
(* the safety properties follow from CoreInv, and with StageInv every step *)
(* is one of BuildLifecycle.                                               *)
(***************************************************************************)
EXTENDS BuildServiceInv, TLAPS

(* Init establishes the invariant. *)
LEMMA InitCore == Init => CoreInv
<1> SUFFICES ASSUME Init PROVE CoreInv
    OBVIOUS
<1>1. TypeOK /\ NameInv
    BY NamesAreNames DEF Init, TypeOK, NameInv, HoldsEntry, LastStage, Status, Lifecycle!Status,
        Lifecycle!Active, Lifecycle!Terminal
<1>2. LockInv /\ InsertedInv /\ EntryInv
    BY NoneIsNothing DEF Init, LockInv, InsertedInv, EntryInv, HoldsEntry
<1>3. RowInv /\ LogInv
    BY DEF Init, RowInv, OneActiveRow, ActiveRowIsDriven, LogInv, LogOpenWhileUsed, InRun,
        Active, Lifecycle!Active
<1>4. NotifyInv /\ NotifyTruthful
    BY DEF Init, NotifyInv, NotifyTruthful
<1> QED
    BY <1>1, <1>2, <1>3, <1>4 DEF CoreInv

-----------------------------------------------------------------------------
(* One lemma for every action: it keeps the parts of CoreInv. *)

(* A new row has a name nobody has. *)
LEMMA CreateProductStep ==
    ASSUME CoreInv, NEW p \in Product, NEW n \in Name, CreateProduct(p, n)
    PROVE  CoreInv'
<1>1. TypeOK' /\ NameInv'
    BY DEF CoreInv, TypeOK, NameInv, CreateProduct, NameFree, maps, calls, flow
<1>2. LockInv' /\ InsertedInv' /\ EntryInv'
    BY DEF CoreInv, LockInv, InsertedInv, EntryInv, CreateProduct, maps, calls, flow
<1>3. RowInv' /\ LogInv'
    BY DEF CoreInv, RowInv, OneActiveRow, ActiveRowIsDriven, HasRunningBuild, LogInv,
        LogOpenWhileUsed, CreateProduct, maps, calls, flow
<1>4. NotifyInv' /\ NotifyTruthful'
    BY DEF CoreInv, NotifyInv, NotifyTruthful, CreateProduct, maps, flow
<1> QED
    BY <1>1, <1>2, <1>3, <1>4 DEF CoreInv

(* A name may change under a running build: only NameInv reads names. *)
LEMMA RenameProductStep ==
    ASSUME CoreInv, NEW p \in Product, NEW n \in Name, RenameProduct(p, n)
    PROVE  CoreInv'
<1>1. TypeOK' /\ NameInv'
    BY DEF CoreInv, TypeOK, NameInv, RenameProduct, NameFree, maps, calls, flow
<1>2. LockInv' /\ InsertedInv' /\ EntryInv'
    BY DEF CoreInv, LockInv, InsertedInv, EntryInv, RenameProduct, maps, calls, flow
<1>3. RowInv' /\ LogInv'
    BY DEF CoreInv, RowInv, OneActiveRow, ActiveRowIsDriven, HasRunningBuild, LogInv,
        LogOpenWhileUsed, RenameProduct, maps, calls, flow
<1>4. NotifyInv' /\ NotifyTruthful'
    BY DEF CoreInv, NotifyInv, NotifyTruthful, RenameProduct, maps, flow
<1> QED
    BY <1>1, <1>2, <1>3, <1>4 DEF CoreInv

(* Deleting a product deletes its rows under their goroutines, whose entries stay. *)
LEMMA DeleteProductStep ==
    ASSUME CoreInv, NEW p \in Product, DeleteProduct(p)
    PROVE  CoreInv'
<1>1. TypeOK' /\ NameInv'
    BY NamesAreNames DEF CoreInv, TypeOK, NameInv, Status, Lifecycle!Status, DeleteProduct,
        maps, calls, flow
<1>2. LockInv' /\ InsertedInv' /\ EntryInv'
    BY DEF CoreInv, LockInv, InsertedInv, EntryInv, DeleteProduct, maps, calls, flow
<1>3. RowInv' /\ LogInv'
    BY DEF CoreInv, RowInv, OneActiveRow, ActiveRowIsDriven, HasRunningBuild, LogInv,
        LogOpenWhileUsed, Active, Lifecycle!Active, DeleteProduct, maps, calls, flow
<1>4. NotifyInv' /\ NotifyTruthful'
    BY DEF CoreInv, NotifyInv, NotifyTruthful, DeleteProduct, maps, flow
<1> QED
    BY <1>1, <1>2, <1>3, <1>4 DEF CoreInv

(* TriggerBuild's checks give the client s.mu, and what they saw. *)
LEMMA TriggerCheckStep ==
    ASSUME CoreInv, NEW c \in Client, NEW p \in Product, TriggerCheck(c, p)
    PROVE  CoreInv'
<1>1. TypeOK' /\ NameInv'
    BY DEF CoreInv, TypeOK, NameInv, TriggerCheck, db, maps, flow
<1>2. LockInv' /\ InsertedInv' /\ EntryInv'
    BY NoneIsNothing DEF CoreInv, TypeOK, LockInv, InsertedInv, EntryInv, TriggerCheck,
        LockFree, Refused, db, maps, flow
<1>3. RowInv' /\ LogInv'
    BY DEF CoreInv, TypeOK, RowInv, OneActiveRow, ActiveRowIsDriven, LogInv, LogOpenWhileUsed,
        TriggerCheck, Refused, HasRunningBuild, db, maps, flow
<1>4. NotifyInv' /\ NotifyTruthful'
    BY DEF CoreInv, NotifyInv, NotifyTruthful, TriggerCheck, db, maps, flow
<1> QED
    BY <1>1, <1>2, <1>3, <1>4 DEF CoreInv

(* TriggerBuild gives s.mu back when the product has gone. *)
LEMMA TriggerNoProductStep ==
    ASSUME CoreInv, NEW c \in Client, TriggerNoProduct(c)
    PROVE  CoreInv'
<1>1. TypeOK' /\ NameInv'
    BY DEF CoreInv, TypeOK, NameInv, TriggerNoProduct, db, maps, flow
<1>2. LockInv' /\ InsertedInv' /\ EntryInv'
    BY NoneIsNothing DEF CoreInv, TypeOK, LockInv, InsertedInv, EntryInv, TriggerNoProduct, db,
        maps, flow
<1>3. RowInv' /\ LogInv'
    BY DEF CoreInv, TypeOK, RowInv, OneActiveRow, ActiveRowIsDriven, HasRunningBuild, LogInv,
        LogOpenWhileUsed, TriggerNoProduct, db, maps, flow
<1>4. NotifyInv' /\ NotifyTruthful'
    BY DEF CoreInv, NotifyInv, NotifyTruthful, TriggerNoProduct, db, maps, flow
<1> QED
    BY <1>1, <1>2, <1>3, <1>4 DEF CoreInv

(* Nobody else inserts a row of the product: the client holds s.mu. *)
LEMMA TriggerInsertStep ==
    ASSUME CoreInv, NEW c \in Client, NEW b \in Build, TriggerInsert(c, b)
    PROVE  CoreInv'
<1>1. TypeOK' /\ NameInv'
    BY DEF CoreInv, TypeOK, NameInv, Status, Lifecycle!Status, Lifecycle!Active, TriggerInsert,
        Exists, maps
<1>2. LockInv' /\ InsertedInv' /\ EntryInv'
    BY DEF CoreInv, TypeOK, LockInv, InsertedInv, EntryInv, HoldsEntry, TriggerInsert, Exists,
        maps
<1>3. RowInv' /\ LogInv'
    BY DEF CoreInv, TypeOK, LockInv, RowInv, OneActiveRow, ActiveRowIsDriven, HasRunningBuild,
        LogInv, LogOpenWhileUsed, Active, Lifecycle!Active, TriggerInsert, maps
<1>4. NotifyInv' /\ NotifyTruthful'
    BY DEF CoreInv, NotifyInv, NotifyTruthful, TriggerInsert, maps
<1> QED
    BY <1>1, <1>2, <1>3, <1>4 DEF CoreInv

(* What an UPDATE does: nothing to other rows, nor to a row that is gone; its
   own is written, or missed.                                               *)
LEMMA UpdateDoes ==
    ASSUME TypeOK, NEW b \in Build, NEW s \in Status, RowUpdate(b, s)
    PROVE  /\ status' \in [Build -> Status] /\ stale' \in SUBSET Build /\ faults' \in Nat
           /\ \A x \in Build \ {b} : status'[x] = status[x] /\ (x \in stale' <=> x \in stale)
           /\ \/ status[b] = "deleted" /\ UNCHANGED <<status, stale>>
              \/ status[b] # "deleted" /\ status'[b] = s /\ b \notin stale'
              \/ status[b] # "deleted" /\ UNCHANGED status /\ b \in stale'
<1>1. CASE UNCHANGED <<status, stale, faults>> /\ status[b] = "deleted"
    BY <1>1 DEF TypeOK
<1>2. CASE /\ status' = [status EXCEPT ![b] = s] /\ stale' = stale \ {b}
           /\ UNCHANGED faults /\ status[b] # "deleted"
    BY <1>2 DEF TypeOK
<1>3. CASE /\ faults' = faults + 1 /\ stale' = stale \cup {b}
           /\ UNCHANGED status /\ status[b] # "deleted"
    BY <1>3 DEF TypeOK
<1> QED
    BY <1>1, <1>2, <1>3 DEF RowUpdate

(* The statuses written to rows are statuses. *)
LEMMA Written ==
    /\ {"failed", "cancelled", "success"} \cup Active \subseteq Status
    /\ {"failed", "cancelled", "success", "deleted", "absent"} \cap Active = {}
BY DEF Status, Active, Lifecycle!Status, Lifecycle!Active, Lifecycle!Terminal

(* The row of a request without log file is finished by the request itself. *)
LEMMA TriggerNoLogStep == ASSUME CoreInv, NEW c \in Client, TriggerNoLog(c) PROVE CoreInv'
<1>0. TypeOK /\ job[c] \in Build /\ RowUpdate(job[c], "failed") /\ "failed" \in Status
    BY Written DEF CoreInv, InsertedInv, TriggerNoLog
<1>1. TypeOK' /\ NameInv'
    BY <1>0, UpdateDoes DEF CoreInv, TypeOK, NameInv, TriggerNoLog, CallReturns, maps, flow
<1>2. LockInv' /\ InsertedInv' /\ EntryInv'
    BY NoneIsNothing DEF CoreInv, TypeOK, LockInv, InsertedInv, EntryInv, TriggerNoLog,
        RowUpdate, CallReturns, maps, flow
<1>3. RowInv' /\ LogInv'
    <2>1. RowInv'
        BY <1>0, UpdateDoes, Written DEF CoreInv, InsertedInv, RowInv, OneActiveRow,
            ActiveRowIsDriven, HasRunningBuild, TriggerNoLog, CallReturns, maps, flow
    <2>2. LogInv'
        BY DEF CoreInv, LogInv, LogOpenWhileUsed, TriggerNoLog, maps, flow
    <2> QED
        BY <2>1, <2>2
<1>4. NotifyInv' /\ NotifyTruthful'
    BY <1>0, UpdateDoes DEF CoreInv, InsertedInv, NotifyInv, NotifyTruthful, TriggerNoLog,
        maps, flow
<1> QED
    BY <1>1, <1>2, <1>3, <1>4 DEF CoreInv

(* The goroutine gets an entry that was free, and its row a driver. *)
LEMMA TriggerLaunchStep ==
    ASSUME CoreInv, NEW c \in Client, TriggerLaunch(c)
    PROVE  CoreInv'
<1>1. TypeOK' /\ NameInv'
    BY DEF CoreInv, TypeOK, NameInv, InsertedInv, EntryInv, HoldsEntry, TriggerLaunch,
        CallReturns, db
<1>2. LockInv' /\ InsertedInv' /\ EntryInv'
    BY NoneIsNothing DEF CoreInv, TypeOK, LockInv, InsertedInv, EntryInv, TriggerLaunch,
        CallReturns, db
<1>3. RowInv' /\ LogInv'
    BY DEF CoreInv, TypeOK, InsertedInv, RowInv, OneActiveRow, ActiveRowIsDriven,
        HasRunningBuild, LogInv, LogOpenWhileUsed, HoldsEntry, Active, Lifecycle!Active,
        TriggerLaunch, CallReturns, db
<1>4. NotifyInv' /\ NotifyTruthful'
    BY DEF CoreInv, InsertedInv, NotifyInv, NotifyTruthful, TriggerLaunch, db
<1> QED
    BY <1>1, <1>2, <1>3, <1>4 DEF CoreInv

(* CancelBuild's read of the row promises nothing to anybody. *)
LEMMA CancelReadStep ==
    ASSUME CoreInv, NEW c \in Client, NEW b \in Build, CancelRead(c, b)
    PROVE  CoreInv'
<1>1. TypeOK' /\ NameInv'
    BY DEF CoreInv, TypeOK, NameInv, CancelRead, db, maps, flow
<1>2. LockInv' /\ InsertedInv' /\ EntryInv'
    BY DEF CoreInv, TypeOK, LockInv, InsertedInv, EntryInv, CancelRead, db, maps, flow
<1>3. RowInv' /\ LogInv'
    BY DEF CoreInv, RowInv, OneActiveRow, ActiveRowIsDriven, HasRunningBuild, LogInv,
        LogOpenWhileUsed, CancelRead, db, maps, flow
<1>4. NotifyInv' /\ NotifyTruthful'
    BY DEF CoreInv, NotifyInv, NotifyTruthful, CancelRead, db, maps, flow
<1> QED
    BY <1>1, <1>2, <1>3, <1>4 DEF CoreInv

(* CancelBuild cancels contexts and leaves entries and rows alone. *)
LEMMA CancelFireStep == ASSUME CoreInv, NEW c \in Client, CancelFire(c) PROVE CoreInv'
<1>1. TypeOK' /\ NameInv'
    BY DEF CoreInv, TypeOK, NameInv, LockInv, CancelFire, CallReturns, db, flow
<1>2. LockInv' /\ InsertedInv' /\ EntryInv'
    BY DEF CoreInv, TypeOK, LockInv, InsertedInv, EntryInv, CancelFire, CallReturns, db, flow
<1>3. RowInv' /\ LogInv'
    BY DEF CoreInv, RowInv, OneActiveRow, ActiveRowIsDriven, HasRunningBuild, LogInv,
        LogOpenWhileUsed, CancelFire, CallReturns, db, flow
<1>4. NotifyInv' /\ NotifyTruthful'
    BY DEF CoreInv, NotifyInv, NotifyTruthful, CancelFire, db, flow
<1> QED
    BY <1>1, <1>2, <1>3, <1>4 DEF CoreInv

(* Wiping staging touches nothing of the invariant but pc. *)
LEMMA RunStartStep == ASSUME CoreInv, NEW b \in Build, RunStart(b) PROVE CoreInv'
<1>1. TypeOK' /\ NameInv'
    BY DEF CoreInv, TypeOK, NameInv, HoldsEntry, RunStart, db, maps, calls
<1>2. LockInv' /\ InsertedInv' /\ EntryInv'
    BY DEF CoreInv, LockInv, InsertedInv, EntryInv, HoldsEntry, RunStart, db, maps, calls
<1>3. RowInv' /\ LogInv'
    BY DEF CoreInv, RowInv, OneActiveRow, ActiveRowIsDriven, HasRunningBuild, LogInv,
        LogOpenWhileUsed, HoldsEntry, InRun, RunStart, db, maps, calls
<1>4. NotifyInv' /\ NotifyTruthful'
    BY DEF CoreInv, NotifyInv, NotifyTruthful, RunStart, db, maps
<1> QED
    BY <1>1, <1>2, <1>3, <1>4 DEF CoreInv

(* A run without staging directory has failed, and so has its row. *)
LEMMA RunNoStagingStep == ASSUME CoreInv, NEW b \in Build, RunNoStaging(b) PROVE CoreInv'
<1>0. TypeOK /\ RowUpdate(b, "failed") /\ "failed" \in Status
    BY Written DEF CoreInv, RunNoStaging
<1>1. TypeOK' /\ NameInv'
    BY DEF CoreInv, TypeOK, NameInv, HoldsEntry, Status, Lifecycle!Status, Lifecycle!Terminal,
        RunNoStaging, RowUpdate, maps, calls
<1>2. LockInv' /\ InsertedInv' /\ EntryInv'
    BY <1>0, UpdateDoes DEF CoreInv, LockInv, InsertedInv, EntryInv, HoldsEntry, RunNoStaging,
        maps, calls
<1>3. RowInv' /\ LogInv'
    <2>0. /\ status'[b] \in Active => status[b] \in Active /\ b \in stale'
          /\ \A x \in Build \ {b} : status'[x] = status[x] /\ (x \in stale' <=> x \in stale)
        BY <1>0, UpdateDoes, Written
    <2>1. RowInv'
        BY SMTT(30), <1>0, <2>0 DEF CoreInv, TypeOK, RowInv, OneActiveRow, ActiveRowIsDriven,
            HasRunningBuild, RunNoStaging, maps, calls
    <2>2. LogInv'
        BY DEF CoreInv, TypeOK, LogInv, LogOpenWhileUsed, HoldsEntry, InRun, RunNoStaging, maps,
            calls
    <2> QED
        BY <2>1, <2>2
<1>4. NotifyInv' /\ NotifyTruthful'
    BY DEF CoreInv, TypeOK, NotifyInv, NotifyTruthful, RunNoStaging, RowUpdate, maps
<1> QED
    BY <1>1, <1>2, <1>3, <1>4 DEF CoreInv

(* A row becomes cancelled only when its context is. *)
LEMMA StageCancelledStep ==
    ASSUME CoreInv, NEW b \in Build, StageCancelled(b)
    PROVE  CoreInv'
<1>0. TypeOK /\ RowUpdate(b, "cancelled") /\ "cancelled" \in Status
    BY Written DEF CoreInv, StageCancelled
<1>1. TypeOK' /\ NameInv'
    BY DEF CoreInv, TypeOK, NameInv, HoldsEntry, Status, Lifecycle!Status, Lifecycle!Terminal,
        StageCancelled, RowUpdate, maps, calls
<1>2. LockInv' /\ InsertedInv' /\ EntryInv'
    BY <1>0, UpdateDoes DEF CoreInv, LockInv, InsertedInv, EntryInv, HoldsEntry, StageCancelled,
        maps, calls
<1>3. RowInv' /\ LogInv'
    <2>0. /\ status'[b] \in Active => status[b] \in Active /\ b \in stale'
          /\ \A x \in Build \ {b} : status'[x] = status[x] /\ (x \in stale' <=> x \in stale)
        BY <1>0, UpdateDoes, Written
    <2>1. RowInv'
        BY <1>0, <2>0 DEF CoreInv, TypeOK, RowInv, OneActiveRow, ActiveRowIsDriven,
            HasRunningBuild, StageCancelled, maps, calls
    <2>2. LogInv'
        BY DEF CoreInv, TypeOK, LogInv, LogOpenWhileUsed, HoldsEntry, InRun, StageCancelled, maps,
            calls
    <2> QED
        BY <2>1, <2>2
<1>4. NotifyInv' /\ NotifyTruthful'
    BY DEF CoreInv, TypeOK, NotifyInv, NotifyTruthful, StageCancelled, RowUpdate, maps
<1> QED
    BY <1>1, <1>2, <1>3, <1>4 DEF CoreInv

(* A stage moves the row to another active status. *)
LEMMA StageBeginStep == ASSUME CoreInv, NEW b \in Build, StageBegin(b) PROVE CoreInv'
<1>t. TypeOK /\ LockInv /\ InsertedInv /\ EntryInv /\ RowInv /\ LogInv /\ NotifyInv
      /\ NotifyTruthful /\ NameInv
    BY DEF CoreInv
<1>0. PICK s \in Active : RowUpdate(b, s)
    BY <1>t DEF TypeOK, StageStatus, LastStage, Active, Lifecycle!Active, StageBegin
<1>u. /\ status' \in [Build -> Status] /\ stale' \in SUBSET Build /\ faults' \in Nat
      /\ \A x \in Build \ {b} : status'[x] = status[x] /\ (x \in stale' <=> x \in stale)
      /\ \/ status[b] = "deleted" /\ UNCHANGED <<status, stale>>
         \/ status[b] # "deleted" /\ status'[b] = s /\ b \notin stale'
         \/ status[b] # "deleted" /\ UNCHANGED status /\ b \in stale'
    BY <1>0, <1>t, Written, UpdateDoes
<1>v. pc[b] = "check" /\ status[b] \in Active \cup {"deleted"}
    BY <1>t DEF StageBegin, RowInv
<1>w. /\ status'[b] \in Active \cup {"deleted"}
      /\ \A x \in Build : status'[x] \in Active <=> status[x] \in Active
      /\ \A x \in Build : status'[x] \in {"absent", "deleted", "cancelled", "success", "failed"}
            => status'[x] = status[x]
    BY <1>u, <1>v, Written
<1>1. TypeOK' /\ NameInv'
    BY <1>t, <1>u DEF TypeOK, NameInv, HoldsEntry, StageBegin, maps, calls
<1>2. LockInv' /\ InsertedInv' /\ EntryInv'
    BY <1>t, <1>u, <1>w, Written DEF LockInv, InsertedInv, EntryInv, HoldsEntry,
        StageBegin, maps, calls
<1>3. RowInv' /\ LogInv'
    BY <1>t, <1>u, <1>v, <1>w DEF TypeOK, RowInv, OneActiveRow, ActiveRowIsDriven, HasRunningBuild,
        LogInv, LogOpenWhileUsed, HoldsEntry, InRun, StageBegin, maps, calls
<1>4. NotifyInv' /\ NotifyTruthful'
    BY <1>t, <1>u, <1>v, <1>w, Written DEF TypeOK, NotifyInv, NotifyTruthful, StageBegin, maps
<1> QED
    BY <1>1, <1>2, <1>3, <1>4 DEF CoreInv

(* Only the last stage ends the row. *)
LEMMA StageDoneStep == ASSUME CoreInv, NEW b \in Build, StageDone(b) PROVE CoreInv'
<1>0. TypeOK /\ EntryInv /\ NameInv /\ "success" \in Status
    BY Written DEF CoreInv
<1>1. TypeOK' /\ NameInv'
    <2>1. /\ status' \in [Build -> Status] /\ stale' \in SUBSET Build /\ faults' \in Nat
        BY <1>0, UpdateDoes DEF StageDone, TypeOK
    <2>2. staging' \in [Name -> Build \cup {None}]
        BY <1>0 DEF StageDone, StagingAfter, TypeOK, EntryInv
    <2>3. /\ stage' \in [Build -> 1..LastStage]
          /\ pc' \in [Build -> HoldsEntry \cup {"none", "unlist", "close", "done", "killed"}]
          /\ result' \in [Build -> {"none", "nil", "error"}]
        BY <1>0 DEF StageDone, TypeOK, LastStage, HoldsEntry
    <2> QED
        BY <1>0, <2>1, <2>2, <2>3 DEF TypeOK, NameInv, StageDone, maps, calls
<1>2. LockInv' /\ InsertedInv' /\ EntryInv'
    BY DEF CoreInv, TypeOK, LockInv, InsertedInv, EntryInv, StageDone, RowUpdate, maps, calls
<1>3. RowInv' /\ LogInv'
    BY DEF CoreInv, TypeOK, LockInv, InsertedInv, RowInv, OneActiveRow, ActiveRowIsDriven,
        HasRunningBuild, LogInv, LogOpenWhileUsed, HoldsEntry, InRun, Active, Lifecycle!Active,
        StageDone, RowUpdate, maps, calls
<1>4. NotifyInv' /\ NotifyTruthful'
    BY DEF CoreInv, TypeOK, NotifyInv, NotifyTruthful, StageDone, RowUpdate, maps
<1> QED
    BY <1>1, <1>2, <1>3, <1>4 DEF CoreInv

(* A failed stage ends the row as Run's result says. *)
LEMMA StageFailsStep == ASSUME CoreInv, NEW b \in Build, StageFails(b) PROVE CoreInv'
<1>0. TypeOK /\ RowUpdate(b, "failed") /\ "failed" \in Status
    BY Written DEF CoreInv, StageFails
<1>1. TypeOK' /\ NameInv'
    BY DEF CoreInv, TypeOK, NameInv, HoldsEntry, Status, Lifecycle!Status, Lifecycle!Terminal,
        StageFails, RowUpdate, maps, calls
<1>2. LockInv' /\ InsertedInv' /\ EntryInv'
    BY <1>0, UpdateDoes DEF CoreInv, LockInv, InsertedInv, EntryInv, HoldsEntry, StageFails,
        maps, calls
<1>3. RowInv' /\ LogInv'
    <2>0. /\ status'[b] \in Active => status[b] \in Active /\ b \in stale'
          /\ \A x \in Build \ {b} : status'[x] = status[x] /\ (x \in stale' <=> x \in stale)
        BY <1>0, UpdateDoes, Written
    <2>1. RowInv'
        BY <1>0, <2>0 DEF CoreInv, TypeOK, RowInv, OneActiveRow, ActiveRowIsDriven,
            HasRunningBuild, StageFails, maps, calls
    <2>2. LogInv'
        BY DEF CoreInv, TypeOK, LogInv, LogOpenWhileUsed, HoldsEntry, InRun, StageFails, maps,
            calls
    <2> QED
        BY <2>1, <2>2
<1>4. NotifyInv' /\ NotifyTruthful'
    BY DEF CoreInv, TypeOK, NotifyInv, NotifyTruthful, StageFails, RowUpdate, maps
<1> QED
    BY <1>1, <1>2, <1>3, <1>4 DEF CoreInv

(* The deferred removal of staging comes after the row has ended. *)
LEMMA UnstageStep == ASSUME CoreInv, NEW b \in Build, Unstage(b) PROVE CoreInv'
<1>1. TypeOK' /\ NameInv'
    BY DEF CoreInv, TypeOK, NameInv, HoldsEntry, Unstage, db, maps, calls
<1>2. LockInv' /\ InsertedInv' /\ EntryInv'
    BY DEF CoreInv, LockInv, InsertedInv, EntryInv, HoldsEntry, Unstage, db, maps, calls
<1>3. RowInv' /\ LogInv'
    BY DEF CoreInv, RowInv, OneActiveRow, ActiveRowIsDriven, HasRunningBuild, LogInv,
        LogOpenWhileUsed, HoldsEntry, InRun, Unstage, db, maps, calls
<1>4. NotifyInv' /\ NotifyTruthful'
    BY DEF CoreInv, NotifyInv, NotifyTruthful, Unstage, db, maps
<1> QED
    BY <1>1, <1>2, <1>3, <1>4 DEF CoreInv

(* A build whose row says cancelled is never announced. *)
LEMMA JudgeStep == ASSUME CoreInv, NEW b \in Build, Judge(b) PROVE CoreInv'
<1>1. TypeOK' /\ NameInv'
    BY DEF CoreInv, TypeOK, NameInv, HoldsEntry, Judge, db, maps, calls
<1>2. LockInv' /\ InsertedInv' /\ EntryInv'
    BY DEF CoreInv, LockInv, InsertedInv, EntryInv, HoldsEntry, Judge, db, maps, calls
<1>3. RowInv' /\ LogInv'
    BY DEF CoreInv, RowInv, OneActiveRow, ActiveRowIsDriven, HasRunningBuild, LogInv,
        LogOpenWhileUsed, HoldsEntry, InRun, Judge, db, maps, calls
<1>4. NotifyInv' /\ NotifyTruthful'
    BY DEF CoreInv, NotifyInv, NotifyTruthful, Judge, SkipNotify, db, maps
<1> QED
    BY <1>1, <1>2, <1>3, <1>4 DEF CoreInv

(* The event follows from what Run returned, as the row did. *)
LEMMA NotifyStep == ASSUME CoreInv, NEW b \in Build, Notify(b) PROVE CoreInv'
<1>1. TypeOK' /\ NameInv'
    BY DEF CoreInv, TypeOK, NameInv, HoldsEntry, Notify, Event, db, maps, calls
<1>2. LockInv' /\ InsertedInv' /\ EntryInv'
    BY DEF CoreInv, LockInv, InsertedInv, EntryInv, HoldsEntry, Notify, db, maps, calls
<1>3. RowInv' /\ LogInv'
    BY DEF CoreInv, RowInv, OneActiveRow, ActiveRowIsDriven, HasRunningBuild, LogInv,
        LogOpenWhileUsed, HoldsEntry, InRun, Notify, db, maps, calls
<1>4. NotifyInv' /\ NotifyTruthful'
    BY DEF CoreInv, TypeOK, NotifyInv, NotifyTruthful, Notify, Event, db, maps
<1> QED
    BY <1>1, <1>2, <1>3, <1>4 DEF CoreInv

(* The entry deleted by product is the goroutine's own. *)
LEMMA ReleaseStep == ASSUME CoreInv, NEW b \in Build, Release(b) PROVE CoreInv'
<1>1. TypeOK' /\ NameInv'
    BY DEF CoreInv, TypeOK, NameInv, Release, db, calls
<1>2. LockInv' /\ InsertedInv' /\ EntryInv'
    BY DEF CoreInv, TypeOK, LockInv, InsertedInv, EntryInv, HoldsEntry, Release, db, calls
<1>3. RowInv' /\ LogInv'
    BY DEF CoreInv, RowInv, OneActiveRow, ActiveRowIsDriven, HasRunningBuild, LogInv,
        LogOpenWhileUsed, InRun, Release, db, calls
<1>4. NotifyInv' /\ NotifyTruthful'
    BY DEF CoreInv, NotifyInv, NotifyTruthful, Release, db
<1> QED
    BY <1>1, <1>2, <1>3, <1>4 DEF CoreInv

(* The writer is unlisted while its log is open. *)
LEMMA UnlistStep == ASSUME CoreInv, NEW b \in Build, Unlist(b) PROVE CoreInv'
<1>1. TypeOK' /\ NameInv'
    BY DEF CoreInv, TypeOK, NameInv, Unlist, db, calls
<1>2. LockInv' /\ InsertedInv' /\ EntryInv'
    BY DEF CoreInv, LockInv, InsertedInv, EntryInv, HoldsEntry, Unlist, db, calls
<1>3. RowInv' /\ LogInv'
    BY DEF CoreInv, RowInv, OneActiveRow, ActiveRowIsDriven, HasRunningBuild, LogInv,
        LogOpenWhileUsed, InRun, Unlist, db, calls
<1>4. NotifyInv' /\ NotifyTruthful'
    BY DEF CoreInv, NotifyInv, NotifyTruthful, Unlist, db
<1> QED
    BY <1>1, <1>2, <1>3, <1>4 DEF CoreInv

(* The log closed is no longer listed. *)
LEMMA CloseLogStep == ASSUME CoreInv, NEW b \in Build, CloseLog(b) PROVE CoreInv'
<1>1. TypeOK' /\ NameInv'
    BY DEF CoreInv, TypeOK, NameInv, BuildStage, LastStage, CloseLog, Forget, db, calls
<1>2. LockInv' /\ InsertedInv' /\ EntryInv'
    BY DEF CoreInv, TypeOK, LockInv, InsertedInv, EntryInv, HoldsEntry, CloseLog, Forget,
        db, calls
<1>3. RowInv' /\ LogInv'
    BY DEF CoreInv, RowInv, OneActiveRow, ActiveRowIsDriven, HasRunningBuild, LogInv,
        LogOpenWhileUsed, HoldsEntry, InRun, CloseLog, db, calls
<1>4. NotifyInv' /\ NotifyTruthful'
    BY DEF CoreInv, TypeOK, NotifyInv, NotifyTruthful, CloseLog, Forget, db
<1> QED
    BY <1>1, <1>2, <1>3, <1>4 DEF CoreInv

(* A kill clears both maps and every goroutine that had an entry. *)
LEMMA CrashRestartStep == ASSUME CoreInv, CrashRestart PROVE CoreInv'
<1>1. TypeOK' /\ NameInv'
    BY DEF CoreInv, TypeOK, NameInv, BuildStage, LastStage, CrashRestart, Forget, db
<1>2. LockInv' /\ InsertedInv' /\ EntryInv'
    BY NoneIsNothing DEF CoreInv, LockInv, InsertedInv, EntryInv, HoldsEntry, Active,
        Lifecycle!Active, CrashRestart, Interrupted, db
<1>3. RowInv' /\ LogInv'
    BY DEF CoreInv, InsertedInv, RowInv, OneActiveRow, ActiveRowIsDriven, LogInv,
        LogOpenWhileUsed, InRun, CrashRestart, Interrupted, db
<1>4. NotifyInv' /\ NotifyTruthful'
    BY DEF CoreInv, TypeOK, NotifyInv, NotifyTruthful, CrashRestart, Interrupted, Forget, db
<1> QED
    BY <1>1, <1>2, <1>3, <1>4 DEF CoreInv

-----------------------------------------------------------------------------

(* Every step keeps CoreInv. *)
LEMMA CoreStep == ASSUME CoreInv, [Next]_vars PROVE CoreInv'
<1>1. CASE ProductStep
    BY <1>1, CreateProductStep, RenameProductStep, DeleteProductStep DEF ProductStep
<1>2. ASSUME NEW c \in Client, ClientStep(c) PROVE CoreInv'
    BY <1>2, TriggerCheckStep, TriggerNoProductStep, TriggerInsertStep, TriggerNoLogStep,
        TriggerLaunchStep, CancelReadStep, CancelFireStep DEF ClientStep
<1>3. ASSUME NEW b \in Build, PipelineStep(b) PROVE CoreInv'
    <2>1. CASE RunStart(b) \/ RunNoStaging(b) \/ Unstage(b) \/ Judge(b) \/ Notify(b)
        BY <2>1, RunStartStep, RunNoStagingStep, UnstageStep, JudgeStep, NotifyStep
    <2>2. CASE StageCancelled(b) \/ StageBegin(b) \/ StageDone(b) \/ StageFails(b)
        BY <2>2, StageCancelledStep, StageBeginStep, StageDoneStep, StageFailsStep
    <2>3. CASE Release(b) \/ Unlist(b) \/ CloseLog(b)
        BY <2>3, ReleaseStep, UnlistStep, CloseLogStep
    <2> QED
        BY <1>3, <2>1, <2>2, <2>3 DEF PipelineStep
<1>4. CASE CrashRestart
    BY <1>4, CrashRestartStep
<1>5. CASE UNCHANGED vars
    <2> USE <1>5 DEF vars, db, maps, calls, flow
    <2>1. TypeOK' /\ NameInv'
        BY DEF CoreInv, TypeOK, NameInv
    <2>2. LockInv' /\ InsertedInv' /\ EntryInv'
        BY DEF CoreInv, LockInv, InsertedInv, EntryInv
    <2>3. RowInv' /\ LogInv'
        BY DEF CoreInv, RowInv, OneActiveRow, ActiveRowIsDriven, HasRunningBuild, LogInv,
            LogOpenWhileUsed
    <2>4. NotifyInv' /\ NotifyTruthful'
        BY DEF CoreInv, NotifyInv, NotifyTruthful
    <2> QED
        BY <2>1, <2>2, <2>3, <2>4 DEF CoreInv
<1> QED
    BY <1>1, <1>2, <1>3, <1>4, <1>5 DEF Next


(* Stages go on one by one, and rows with them. *)
LEMMA StageStep == ASSUME CoreInv, StageInv, [Next]_vars PROVE StageInv'
<1> USE DEF StageInv, Reached, BuildStage, LastStage
<1>t. TypeOK /\ InsertedInv /\ EntryInv
    BY DEF CoreInv
<1>s. ASSUME NEW c \in Client, ClientStep(c) PROVE StageInv'
    <2>1. CASE \E p \in Product : TriggerCheck(c, p)
        BY <2>1 DEF TriggerCheck, db, flow
    <2>2. CASE TriggerNoProduct(c)
        BY <2>2 DEF TriggerNoProduct, db, flow
    <2>3. ASSUME NEW b \in Build, TriggerInsert(c, b) PROVE StageInv'
        BY <2>3, <1>t DEF TriggerInsert, TypeOK, EntryInv
    <2>4. CASE \E b \in Build : CancelRead(c, b)
        BY <2>4 DEF CancelRead, db, flow
    <2>5. CASE TriggerNoLog(c)
        BY <2>5, <1>t DEF TriggerNoLog, RowUpdate, CallReturns, flow, TypeOK, InsertedInv
    <2>6. CASE TriggerLaunch(c)
        BY <2>6, <1>t DEF TriggerLaunch, CallReturns, db, TypeOK, InsertedInv
    <2>7. CASE CancelFire(c)
        BY <2>7 DEF CancelFire, CallReturns, db, flow
    <2> QED
        BY <1>s, <2>1, <2>2, <2>3, <2>4, <2>5, <2>6, <2>7 DEF ClientStep
<1>p. ASSUME NEW b \in Build, PipelineStep(b) PROVE StageInv'
    <2>1. CASE RunStart(b)
        BY <2>1, <1>t DEF RunStart, Reached, Lifecycle!Progress, TypeOK, db
    <2>2. CASE RunNoStaging(b)
        BY <2>2, <1>t DEF RunNoStaging, RowUpdate, TypeOK
    <2>3. CASE StageCancelled(b)
        BY <2>3, <1>t DEF StageCancelled, RowUpdate, TypeOK
    <2>4. CASE StageBegin(b)
        BY <2>4, <1>t DEF StageBegin, RowUpdate, StageStatus, Reached, Lifecycle!Progress, TypeOK
    <2>5. CASE StageDone(b)
        BY <2>5, <1>t DEF StageDone, RowUpdate, Reached, TypeOK
    <2>6. CASE StageFails(b)
        BY <2>6, <1>t DEF StageFails, RowUpdate, TypeOK
    <2>7. CASE Unstage(b)
        BY <2>7, <1>t DEF Unstage, db, TypeOK
    <2>8. CASE Judge(b)
        BY <2>8, <1>t DEF Judge, db, TypeOK
    <2>9. CASE Notify(b)
        BY <2>9, <1>t DEF Notify, db, TypeOK
    <2>10. CASE Release(b)
        BY <2>10, <1>t DEF Release, db, TypeOK
    <2>11. CASE Unlist(b)
        BY <2>11, <1>t DEF Unlist, db, TypeOK
    <2>12. CASE CloseLog(b)
        BY <2>12, <1>t DEF CloseLog, Forget, db, TypeOK
    <2> QED
        BY <1>p, <2>1, <2>2, <2>3, <2>4, <2>5, <2>6, <2>7, <2>8, <2>9, <2>10, <2>11, <2>12
        DEF PipelineStep
<1>1. CASE ProductStep
    BY <1>1, <1>t DEF ProductStep, CreateProduct, RenameProduct, DeleteProduct, flow, TypeOK
<1>2. CASE CrashRestart
    BY <1>2, <1>t DEF CrashRestart, Interrupted, Forget, db, TypeOK
<1>3. CASE UNCHANGED vars
    BY <1>3 DEF vars, db, flow
<1> QED
    BY <1>1, <1>2, <1>3, <1>s, <1>p DEF Next

(* A row that was there stays or is "deleted", and keeps its product. *)
LEMMA UpdateKeeps ==
    ASSUME TypeOK, NEW b \in Build, NEW s \in Status \ {"absent"}, RowUpdate(b, s)
    PROVE  \A x \in Build : status[x] # "absent" => status'[x] # "absent"
BY DEF RowUpdate, TypeOK

(* Rows are never found under another product, nor under none. *)
LEMMA AskStep == ASSUME CoreInv, AskInv, [Next]_vars PROVE AskInv'
<1> USE DEF AskInv
<1>t. TypeOK /\ InsertedInv /\ EntryInv /\ LockInv
    BY DEF CoreInv
<1>w. /\ {"failed", "cancelled", "success"} \subseteq Status \ {"absent"}
      /\ \A i \in 1..LastStage : StageStatus[i] \in Status \ {"absent"}
    BY DEF Status, StageStatus, LastStage, Lifecycle!Status, Lifecycle!Active, Lifecycle!Terminal
<1>s. ASSUME NEW c \in Client, ClientStep(c) PROVE AskInv'
    <2>1. CASE \E p \in Product : TriggerCheck(c, p)
        BY <2>1, <1>t DEF TriggerCheck, db, maps, TypeOK
    <2>2. CASE TriggerNoProduct(c)
        BY <2>2, <1>t DEF TriggerNoProduct, db, maps, TypeOK
    <2>3. ASSUME NEW b \in Build, TriggerInsert(c, b) PROVE AskInv'
        BY <2>3, <1>t, NoneIsNothing DEF TriggerInsert, maps, TypeOK
    <2>4. ASSUME NEW b \in Build, CancelRead(c, b) PROVE AskInv'
        BY <2>4, <1>t DEF CancelRead, db, maps, TypeOK
    <2>5. CASE TriggerNoLog(c)
        BY <2>5, <1>t, <1>w, UpdateKeeps, NoneIsNothing
        DEF TriggerNoLog, CallReturns, maps, TypeOK, InsertedInv
    <2>6. CASE TriggerLaunch(c)
        BY <2>6, <1>t, NoneIsNothing DEF TriggerLaunch, CallReturns, db, TypeOK, InsertedInv
    <2>7. CASE CancelFire(c)
        BY <2>7, <1>t DEF CancelFire, CallReturns, db, TypeOK
    <2> QED
        BY <1>s, <2>1, <2>2, <2>3, <2>4, <2>5, <2>6, <2>7 DEF ClientStep
<1>p. ASSUME NEW b \in Build, PipelineStep(b) PROVE AskInv'
    <2>1. CASE UNCHANGED <<owner, status, running, calls>>
        BY <2>1 DEF calls
    <2>2. ASSUME NEW s \in Status \ {"absent"}, RowUpdate(b, s), UNCHANGED <<owner, running, calls>>
          PROVE  AskInv'
        BY <2>2, <1>t, UpdateKeeps, NoneIsNothing DEF calls, TypeOK
    <2>3. CASE RunStart(b) \/ Unstage(b) \/ Judge(b) \/ Notify(b) \/ Unlist(b) \/ CloseLog(b)
        BY <2>1, <2>3 DEF RunStart, Unstage, Judge, Notify, Unlist, CloseLog, db, maps
    <2>4. CASE RunNoStaging(b) \/ StageCancelled(b) \/ StageFails(b)
        BY <2>2, <2>4, <1>w DEF RunNoStaging, StageCancelled, StageFails, maps
    <2>5. CASE StageBegin(b)
        BY <2>2, <2>5, <1>w, <1>t DEF StageBegin, maps, TypeOK
    <2>6. CASE StageDone(b)
        BY <2>1, <2>2, <2>6, <1>w DEF StageDone, maps
    <2>7. CASE Release(b)
        BY <2>7, <1>t, NoneIsNothing DEF Release, calls, db, TypeOK
    <2> QED
        BY <1>p, <2>3, <2>4, <2>5, <2>6, <2>7 DEF PipelineStep
<1>1. CASE ProductStep
    BY <1>1, <1>t, NoneIsNothing
    DEF ProductStep, CreateProduct, RenameProduct, DeleteProduct, maps, calls, TypeOK
<1>2. CASE CrashRestart
    BY <1>2 DEF CrashRestart, db
<1>3. CASE UNCHANGED vars
    BY <1>3 DEF vars, db, maps, calls
<1> QED
    BY <1>1, <1>2, <1>3, <1>s, <1>p DEF Next

(* A build enters a directory once, under its captured name. *)
LEMMA TakenStep == ASSUME CoreInv, TakenInv, [Next]_vars PROVE TakenInv'
<1> USE DEF TakenInv
<1>t. TypeOK /\ InsertedInv /\ EntryInv
    BY DEF CoreInv
<1>w. /\ {"failed", "cancelled", "success"} \subseteq Status \ {"absent"}
      /\ \A i \in 1..LastStage : StageStatus[i] \in Status \ {"absent"}
    BY DEF Status, StageStatus, LastStage, Lifecycle!Status, Lifecycle!Active, Lifecycle!Terminal
<1>s. ASSUME NEW c \in Client, ClientStep(c) PROVE TakenInv'
    <2>1. CASE UNCHANGED <<status, pc, dir, staging>>
        BY <2>1
    <2>2. CASE (\E p \in Product : TriggerCheck(c, p)) \/ TriggerNoProduct(c)
               \/ (\E b \in Build : CancelRead(c, b)) \/ CancelFire(c)
        BY <2>1, <2>2 DEF TriggerCheck, TriggerNoProduct, CancelRead, CancelFire, db, flow
    <2>3. ASSUME NEW b \in Build, TriggerInsert(c, b) PROVE TakenInv'
        BY <2>3, <1>t DEF TriggerInsert, TypeOK
    <2>4. CASE TriggerNoLog(c)
        BY <2>4, <1>t, <1>w, UpdateKeeps DEF TriggerNoLog, flow, InsertedInv
    <2>5. CASE TriggerLaunch(c)
        BY <2>5, <1>t DEF TriggerLaunch, db, TypeOK, InsertedInv
    <2> QED
        BY <1>s, <2>2, <2>3, <2>4, <2>5 DEF ClientStep
<1>p. ASSUME NEW b \in Build, PipelineStep(b) PROVE TakenInv'
    <2>r. /\ pc[b] \in HoldsEntry => status[b] # "absent" /\ dir[b] \in Name
          /\ pc[b] # "none" => status[b] # "absent"
          /\ pc[b] # "none"
        BY <1>p, <1>t DEF PipelineStep, EntryInv, RunStart, RunNoStaging, StageCancelled,
            StageBegin, StageDone, StageFails, Unstage, Judge, Notify, Release, Unlist, CloseLog
    <2>k. ASSUME \A n \in Name : staging'[n] \in {staging[n], None}
                     \/ (staging'[n] = b /\ dir[b] = n /\ pc[b] \in InRun),
                 NEW q \in HoldsEntry \cup {"unlist", "close"}, q # "start",
                 pc' = [pc EXCEPT ![b] = q], q \in InRun => pc[b] \in InRun,
                 dir' = dir, \A x \in Build : status[x] # "absent" => status'[x] # "absent"
          PROVE  TakenInv'
        <3> SUFFICES ASSUME NEW n \in Name, NEW x \in Build, staging'[n] = x
                     PROVE  /\ pc'[x] \notin {"none", "start"}
                            /\ status'[x] # "absent"
                            /\ pc'[x] \in InRun => dir'[x] = n
            OBVIOUS
        <3>1. CASE staging[n] = x
            BY <3>1, <2>k, <1>t DEF TypeOK, HoldsEntry
        <3>2. CASE x = b /\ dir[b] = n /\ pc[b] \in InRun
            BY <3>2, <2>k, <2>r, <1>t DEF TypeOK, HoldsEntry
        <3> QED
            BY <3>1, <3>2, <2>k, NoneIsNothing
    <2>1. CASE RunStart(b)
        BY <2>1, <2>k, <1>t DEF RunStart, TypeOK, HoldsEntry, InRun, db
    <2>2. CASE RunNoStaging(b)
        <3>1. \A n \in Name : staging'[n] \in {staging[n], None}
            BY <2>2, <1>t DEF RunNoStaging, TypeOK
        <3> QED
            BY <2>2, <2>k, <3>1, <1>t, <1>w, UpdateKeeps DEF RunNoStaging, HoldsEntry, InRun
    <2>3. CASE StageCancelled(b) \/ StageFails(b)
        BY <2>3, <2>k, <1>t, <1>w, UpdateKeeps DEF StageCancelled, StageFails, HoldsEntry, InRun
    <2>4. CASE StageBegin(b)
        BY <2>4, <2>k, <1>t, <1>w, UpdateKeeps DEF StageBegin, HoldsEntry, InRun, TypeOK
    <2>5. CASE StageDone(b)
        <3>1. pc[b] \in InRun /\ dir[b] \in Name
            BY <2>5, <2>r DEF StageDone, HoldsEntry, InRun
        <3>2. \A n \in Name : \/ staging'[n] \in {staging[n], None}
                             \/ (staging'[n] = b /\ dir[b] = n /\ pc[b] \in InRun)
            <4>1. staging' \in {staging, [staging EXCEPT ![dir[b]] = b],
                                [staging EXCEPT ![dir[b]] = None]}
                BY <2>5, <1>t DEF StageDone, StagingAfter, BuildStage, PublishStage, LastStage,
                    TypeOK
            <4> QED
                BY <4>1, <3>1, <1>t DEF TypeOK
        <3>3. \A x \in Build : status[x] # "absent" => status'[x] # "absent"
            BY <2>5, <1>t, <1>w, UpdateKeeps DEF StageDone
        <3> QED
            BY <2>5, <2>k, <3>1, <3>2, <3>3 DEF StageDone, HoldsEntry, InRun
    <2>6. CASE Unstage(b)
        BY <2>6, <2>k, <1>t DEF Unstage, TypeOK, HoldsEntry, InRun, db
    <2>7. CASE Judge(b) \/ Notify(b) \/ Release(b) \/ Unlist(b)
        BY <2>7, <2>k DEF Judge, Notify, Release, Unlist, HoldsEntry, InRun, db
    <2>8. CASE CloseLog(b)
        BY <2>8, <1>t DEF CloseLog, Forget, InRun, TypeOK, db
    <2> QED
        BY <1>p, <2>1, <2>2, <2>3, <2>4, <2>5, <2>6, <2>7, <2>8 DEF PipelineStep
<1>1. CASE ProductStep
    BY <1>1, <1>t DEF ProductStep, CreateProduct, RenameProduct, DeleteProduct, flow, TypeOK
<1>2. CASE CrashRestart
    BY <1>2, <1>t DEF CrashRestart, Interrupted, Forget, InRun, db, TypeOK
<1>3. CASE UNCHANGED vars
    BY <1>3 DEF vars, db, flow
<1> QED
    BY <1>1, <1>2, <1>3, <1>s, <1>p DEF Next

(* An UPDATE to a terminal status ends the row, misses it or hits none. *)
LEMMA UpdateEnds ==
    ASSUME NEW b \in Build, NEW s \in Lifecycle!Terminal, RowUpdate(b, s),
           status[b] \in Active \cup {"deleted"}, UNCHANGED owner,
           s = "success" => status[b] \in {"verifying", "deleted"} \/ b \in stale,
           s = "cancelled" => status[b] # "verifying"
    PROVE  [Lifecycle!Next]_Lifecycle!vars
<1>1. CASE status[b] = "deleted"
    BY <1>1 DEF RowUpdate, Lifecycle!vars
<1>2. CASE status[b] \in Active /\ UNCHANGED status /\ stale' = stale \cup {b}
    BY <1>2 DEF Lifecycle!Next, Lifecycle!Miss, Active
<1>3. CASE status[b] \in Active /\ status' = [status EXCEPT ![b] = s] /\ stale' = stale \ {b}
    <2>1. Lifecycle!Finish(b, s)
        BY <1>3 DEF Lifecycle!Finish, Active, Lifecycle!Active
    <2> QED
        BY <2>1 DEF Lifecycle!Next
<1> QED
    BY <1>1, <1>2, <1>3 DEF RowUpdate

(* Every step moves the rows as BuildLifecycle allows, or not at all. *)
LEMMA LifecycleStep ==
    ASSUME CoreInv, StageInv, [Next]_vars
    PROVE  [Lifecycle!Next]_Lifecycle!vars
<1> USE DEF Lifecycle!vars
<1>t. TypeOK /\ LockInv /\ InsertedInv /\ EntryInv /\ RowInv
    BY DEF CoreInv
<1>s. ASSUME NEW c \in Client, ClientStep(c) PROVE [Lifecycle!Next]_Lifecycle!vars
    <2>1. CASE \E p \in Product : TriggerCheck(c, p)
        BY <2>1 DEF TriggerCheck, db
    <2>2. CASE TriggerNoProduct(c)
        BY <2>2 DEF TriggerNoProduct, db
    <2>3. ASSUME NEW b \in Build, TriggerInsert(c, b)
          PROVE  Lifecycle!Trigger(b, tgt[c]) /\ tgt[c] \in Product
        BY <2>3, <1>t DEF TriggerInsert, Lifecycle!Trigger, LockInv, RowInv, HasRunningBuild, Active
    <2>4. CASE \E b \in Build : CancelRead(c, b)
        BY <2>4 DEF CancelRead, db
    <2>5. CASE TriggerNoLog(c)
        <3>1. /\ RowUpdate(job[c], "failed")
              /\ job[c] \in Build /\ status[job[c]] \in Active \cup {"deleted"}
              /\ UNCHANGED owner
            BY <2>5, <1>t DEF TriggerNoLog, InsertedInv, Active, Lifecycle!Active
        <3> QED
            BY <3>1, UpdateEnds DEF Lifecycle!Terminal
    <2>6. CASE TriggerLaunch(c)
        BY <2>6 DEF TriggerLaunch, db
    <2>7. CASE CancelFire(c)
        BY <2>7 DEF CancelFire, db
    <2> QED
        BY <1>s, <2>1, <2>2, <2>3, <2>4, <2>5, <2>6, <2>7 DEF ClientStep, Lifecycle!Next
<1>p. ASSUME NEW b \in Build, PipelineStep(b) PROVE [Lifecycle!Next]_Lifecycle!vars
    <2>1. CASE RunStart(b) \/ Unstage(b) \/ Judge(b) \/ Notify(b)
              \/ Release(b) \/ Unlist(b) \/ CloseLog(b)
        BY <2>1 DEF RunStart, Unstage, Judge, Notify, Release, Unlist, CloseLog, db
    <2>2. CASE RunNoStaging(b) \/ StageFails(b)
        BY <2>2, <1>t, UpdateEnds DEF RunNoStaging, StageFails, RowInv, Lifecycle!Terminal
    <2>3. CASE StageCancelled(b)
        <3>1. status[b] # "verifying"
            BY SMTT(30), <2>3, <1>t DEF StageCancelled, StageInv, Reached, Lifecycle!Progress, TypeOK,
                LastStage
        <3> QED
            BY <2>3, <3>1, <1>t, UpdateEnds DEF StageCancelled, RowInv, Lifecycle!Terminal
    <2>4. CASE StageBegin(b)
        <3>1. /\ RowUpdate(b, StageStatus[stage[b]]) /\ UNCHANGED owner
              /\ status[b] \in Active \cup {"deleted"}
            BY <2>4, <1>t DEF StageBegin, RowInv
        <3>2. CASE status[b] = "deleted"
            BY <3>1, <3>2 DEF RowUpdate
        <3>m. CASE status[b] # "deleted" /\ UNCHANGED status /\ stale' = stale \cup {b}
            BY <3>1, <3>m DEF Lifecycle!Next, Lifecycle!Miss, Active
        <3>3. CASE status[b] # "deleted" /\ stale' = stale \ {b}
                       /\ status' = [status EXCEPT ![b] = StageStatus[stage[b]]]
            <4>1. PICK i \in 1..stage[b] :
                      status[b] = Lifecycle!Progress[i] /\ (b \notin stale => i = stage[b])
                BY <2>4, <3>3 DEF StageBegin, StageInv, Reached
            <4>2. stage[b] \in 1..4
                BY <1>t DEF TypeOK, LastStage
            <4>3. /\ i \in DOMAIN Lifecycle!Progress /\ stage[b] + 1 \in DOMAIN Lifecycle!Progress
                  /\ i < stage[b] + 1
                  /\ StageStatus[stage[b]] = Lifecycle!Progress[stage[b] + 1]
                BY <4>2 DEF StageStatus, Lifecycle!Progress
            <4>4. Lifecycle!Advance(b)
                BY <3>1, <3>3, <4>1, <4>3 DEF Lifecycle!Advance
            <4> QED
                BY <4>4 DEF Lifecycle!Next
        <3> QED
            BY <3>1, <3>2, <3>m, <3>3 DEF RowUpdate
    <2>5. CASE StageDone(b)
        <3>1. CASE stage[b] < LastStage
            BY <2>5, <3>1, <1>t DEF StageDone, TypeOK
        <3>2. CASE stage[b] = LastStage
            <4>1. status[b] \in {"verifying", "deleted"} \/ b \in stale
                BY <2>5, <3>2 DEF StageDone, StageInv, Reached, Lifecycle!Progress, LastStage
            <4> QED
                BY <2>5, <3>2, <4>1, <1>t, UpdateEnds DEF StageDone, RowInv, Lifecycle!Terminal
        <3> QED
            BY <2>5, <3>1, <3>2 DEF StageDone
    <2> QED
        BY <1>p, <2>1, <2>2, <2>3, <2>4, <2>5 DEF PipelineStep
<1>1. CASE ProductStep
    BY <1>1 DEF ProductStep, CreateProduct, RenameProduct, DeleteProduct, Lifecycle!Next,
        Lifecycle!Delete
<1>2. CASE CrashRestart
    BY <1>2 DEF CrashRestart, db
<1>3. CASE UNCHANGED vars
    BY <1>3 DEF vars, db
<1> QED
    BY <1>1, <1>2, <1>3, <1>s, <1>p DEF Next

-----------------------------------------------------------------------------

(* The invariant every step relies on holds in every reachable state: what a
   request saw under s.mu, and what a goroutine left in the maps, stays true
   until it acts on it.                                                     *)
THEOREM Invariance == Spec => []IInv
<1>1. Init => IInv
    BY InitCore, NoneIsNothing DEF Init, IInv, AskInv, TakenInv, StageInv, BuildStage
<1>2. IInv /\ [Next]_vars => IInv'
    BY CoreStep, AskStep, TakenStep, StageStep DEF IInv
<1> QED
    BY <1>1, <1>2, PTL DEF Spec

(* Every variable of the build service keeps its type. *)
THEOREM TypeCorrect == Spec => []TypeOK
<1>1. IInv => TypeOK
    BY DEF IInv, CoreInv
<1> QED
    BY <1>1, Invariance, PTL

(* TriggerBuild never lets a second pipeline of a product start before the
   first has removed itself from s.running.                                 *)
THEOREM PipelineMutex == Spec => []OnePipelinePerProduct
<1>1. IInv => OnePipelinePerProduct
    BY DEF IInv, CoreInv, EntryInv, OnePipelinePerProduct
<1> QED
    BY <1>1, Invariance, PTL

(* HasRunningBuild and s.mu leave a product at most one row in progress,
   across kills of the server.                                              *)
THEOREM RowMutex == Spec => []OneActiveRow
<1>1. IInv => OneActiveRow
    BY DEF IInv, CoreInv, RowInv
<1> QED
    BY <1>1, Invariance, PTL

(* A row that makes HasRunningBuild refuse is about to be moved on by its
   goroutine or by the request that inserted it, or its server was killed.  *)
THEOREM RowsDriven == Spec => []ActiveRowIsDriven
<1>1. IInv => ActiveRowIsDriven
    BY DEF IInv, CoreInv, RowInv
<1> QED
    BY <1>1, Invariance, PTL

(* Pipelines share directories only after one of their products was renamed
   or deleted: UNIQUE names and one pipeline per product see to it.         *)
THEOREM DirsShared == Spec => []SharedDirNeedsEdit
<1>1. IInv => SharedDirNeedsEdit
    BY DEF IInv, CoreInv, EntryInv, NameInv, SharedDirNeedsEdit, Sharing, StillNamed,
        InRun, HoldsEntry
<1> QED
    BY <1>1, Invariance, PTL

(* The webhook agrees with the row, although it is judged after it. *)
THEOREM NotifiesTruth == Spec => []NotifyTruthful
<1>1. IInv => NotifyTruthful
    BY DEF IInv, CoreInv
<1> QED
    BY <1>1, Invariance, PTL

(* GetLogWriter never answers a writer that is closed. *)
THEOREM LogStaysOpen == Spec => []LogOpenWhileUsed
<1>1. IInv => LogOpenWhileUsed
    BY DEF IInv, CoreInv, LogInv
<1> QED
    BY <1>1, Invariance, PTL

(* CancelBuild finds the build it was asked for, or another of its product:
   the row keeps its product, and an entry belongs to its key.              *)
THEOREM CancelReaches == Spec => CancelReachesBuild
<1>1. ASSUME IInv, [Next]_vars, NEW c \in Client, at[c] = "read", at'[c] = "idle",
             faults' = faults
      PROVE  IF pc[job[c]] \in HoldsEntry
               THEN job[c] \in cancelled' /\ cancelled' \subseteq cancelled \cup {job[c]}
               ELSE \A b \in cancelled' \ cancelled : owner[b] = owner[job[c]]
    <2>0. TypeOK /\ EntryInv /\ LockInv /\ AskInv
        BY <1>1 DEF IInv, CoreInv
    <2>1. CancelFire(c)
        <3>1. ASSUME NEW d \in Client, ClientStep(d) PROVE d = c
            <4>1. \E v \in {"idle", "checked", "inserted", "read"} : at' = [at EXCEPT ![d] = v]
                BY <3>1 DEF ClientStep, TriggerCheck, TriggerNoProduct, TriggerInsert,
                    CancelRead, TriggerNoLog, TriggerLaunch, CancelFire, CallReturns
            <4>2. at \in [Client -> {"idle", "checked", "inserted", "read"}]
                BY <2>0 DEF TypeOK
            <4> QED
                BY <4>1, <4>2, <1>1
        <3>2. ClientStep(c) => CancelFire(c)
            BY <1>1, <2>0 DEF ClientStep, TriggerCheck, TriggerNoProduct, TriggerInsert,
                CancelRead, TriggerNoLog, TriggerLaunch, TypeOK
        <3>3. ~CrashRestart
            BY <1>1, <2>0 DEF CrashRestart, TypeOK
        <3>4. ~ProductStep /\ ~UNCHANGED vars
            BY <1>1 DEF ProductStep, CreateProduct, RenameProduct, DeleteProduct, calls, vars
        <3>5. ASSUME NEW b \in Build PROVE ~PipelineStep(b)
            BY <1>1 DEF PipelineStep, RunStart, RunNoStaging, StageCancelled, StageBegin,
                StageDone, StageFails, Unstage, Judge, Notify, Release, Unlist, CloseLog, calls
        <3> QED
            BY <1>1, <3>1, <3>2, <3>3, <3>4, <3>5 DEF Next
    <2>2. cancelled' = cancelled \cup ({running[tgt[c]]} \ {None})
        BY <2>1 DEF CancelFire
    <2>3. job[c] \in Build /\ tgt[c] = owner[job[c]] /\ tgt[c] \in Product
        BY <1>1, <2>0 DEF AskInv, LockInv
    <2> QED
        BY <2>0, <2>2, <2>3, NoneIsNothing DEF EntryInv, AskInv
<1>2. IInv /\ [Next]_vars =>
        [\A c \in Client : at[c] = "read" /\ at'[c] = "idle" /\ faults' = faults =>
            IF pc[job[c]] \in HoldsEntry
              THEN job[c] \in cancelled' /\ cancelled' \subseteq cancelled \cup {job[c]}
              ELSE \A b \in cancelled' \ cancelled : owner[b] = owner[job[c]]]_vars
    BY <1>1
<1> QED
    BY <1>2, Invariance, PTL DEF Spec, CancelReachesBuild

(* A staging directory is taken from a build that uses it only by another
   that captured the same name, and one of the two has lost that name.      *)
THEOREM StagingTaken == Spec => StagingTakenOnlyByOwner
<1>1. ASSUME IInv, [Next]_vars, NEW n \in Name, NEW b \in Build, staging[n] = b,
             pc[b] \in InRun, staging'[n] # b, pc'[b] = pc[b]
      PROVE  \E b2 \in Build : b2 # b /\ dir[b2] = n /\ pc'[b2] # pc[b2]
                               /\ (~StillNamed(b) \/ ~StillNamed(b2))
    <2>0. TypeOK /\ EntryInv /\ NameInv /\ TakenInv
        BY <1>1 DEF IInv, CoreInv
    <2>1. PICK b2 \in Build : PipelineStep(b2)
        BY <1>1 DEF Next, ProductStep, CreateProduct, RenameProduct, DeleteProduct, ClientStep,
            TriggerCheck, TriggerNoProduct, TriggerInsert, CancelRead, TriggerNoLog,
            TriggerLaunch, CancelFire, CrashRestart, vars
    <2>2. /\ pc[b2] \in InRun /\ pc'[b2] # pc[b2]
          /\ \A m \in Name : m # dir[b2] => staging'[m] = staging[m]
        <3>1. RunStart(b2) \/ RunNoStaging(b2) \/ StageDone(b2) \/ Unstage(b2)
            BY <1>1, <2>1 DEF PipelineStep, StageCancelled, StageBegin, StageFails, Judge,
                Notify, Release, Unlist, CloseLog
        <3>2. CASE RunStart(b2) \/ RunNoStaging(b2) \/ Unstage(b2)
            BY <3>2, <2>0 DEF RunStart, RunNoStaging, Unstage, InRun, TypeOK
        <3>3. CASE StageDone(b2)
            BY <3>3, <2>0 DEF StageDone, StagingAfter, BuildStage, PublishStage, LastStage, InRun,
                TypeOK
        <3> QED
            BY <3>1, <3>2, <3>3
    <2>3. b2 # b /\ dir[b2] = n /\ dir[b] = n
        BY <1>1, <2>0, <2>2 DEF TakenInv
    <2>4. ~StillNamed(b) \/ ~StillNamed(b2)
        BY <1>1, <2>0, <2>2, <2>3 DEF EntryInv, NameInv, StillNamed, InRun, HoldsEntry
    <2> QED
        BY <2>2, <2>3, <2>4
<1>2. IInv /\ [Next]_vars =>
        [\A n \in Name, b \in Build :
            /\ staging[n] = b /\ pc[b] \in InRun /\ staging'[n] # b
            /\ pc'[b] = pc[b]
            => \E b2 \in Build : b2 # b /\ dir[b2] = n /\ pc'[b2] # pc[b2]
                                /\ (~StillNamed(b) \/ ~StillNamed(b2))]_vars
    BY <1>1
<1> QED
    BY <1>2, Invariance, PTL DEF Spec, StagingTakenOnlyByOwner

(* The rows the build service and its pipelines write follow the life cycle
   that the readers of the builds table are promised.                       *)
THEOREM Implementation == Spec => ImplementsLifecycle
<1>1. Init => Lifecycle!Init
    BY DEF Init, Lifecycle!Init
<1>2. IInv /\ [Next]_vars => [Lifecycle!Next]_Lifecycle!vars
    BY LifecycleStep DEF IInv
<1> QED
    BY <1>1, <1>2, Invariance, PTL DEF Spec, ImplementsLifecycle, Lifecycle!Spec
=============================================================================
