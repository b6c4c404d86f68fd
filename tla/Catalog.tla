------------------------------ MODULE Catalog ------------------------------
(***************************************************************************)
(* Products, which name a key and may have a monitor (ProductService and   *)
(* its repositories), together with the keys of GpgKeys and with what      *)
(* builds do with them: TriggerBuild reads the product, then the key row,  *)
(* and much later StageSign asks the keyring for the key.                  *)
(***************************************************************************)
EXTENDS GpgKeys

CONSTANT
    Product   \* products, by their ids, which are never used twice

VARIABLES
    product,    \* the table products: the key that each names, 0 for none
    monitored,  \* products with a row in monitors
    build       \* where the build of each product is, what it read, and whether
                \* the row of its key could not be read

pvars == <<product, monitored, build>>
vars == <<kvars, pvars>>

Name == Id \cup {0}

Unborn == MaxRows + 1   \* no row yet
Gone == MaxRows + 2     \* no row any more

Exists(p) == product[p] \in Name

NoBuild == [at |-> "idle", key |-> 0, fp |-> None, misread |-> FALSE]

Init ==
    /\ KInit
    /\ product = [p \in Product |-> Unborn] /\ monitored = {}
    /\ build = [p \in Product |-> NoBuild]

-----------------------------------------------------------------------------
(* Products *)

(* foreign_keys=on: a product may name an existing row or none. *)
MayName(i) == i \in Rows \cup {0}

(* A valid product is inserted; one from GitHub gets a monitor in a second
   statement, whose failure, or a kill before it, is lost.                  *)
Create(p, i) ==
    /\ product[p] = Unborn /\ MayName(i)
    /\ product' = [product EXCEPT ![p] = i]
    /\ monitored' \in {monitored, monitored \cup {p}}
    /\ UNCHANGED <<kvars, build>>

(* The settings of a monitor can be saved for every product, which then has one. *)
Upsert(p) ==
    /\ Exists(p) /\ monitored' = monitored \cup {p}
    /\ UNCHANGED <<kvars, product, build>>

(* All columns are overwritten with what the client sent. *)
Update(p, i) ==
    /\ Exists(p) /\ MayName(i)
    /\ product' = [product EXCEPT ![p] = i]
    /\ UNCHANGED <<kvars, monitored, build>>

(* ON DELETE CASCADE takes the monitor along. *)
Delete(p) ==
    /\ Exists(p)
    /\ product' = [product EXCEPT ![p] = Gone] /\ monitored' = monitored \ {p}
    /\ UNCHANGED <<kvars, build>>

(* Duplicate reads a row and inserts it under another name.  In between the row
   it read may have been changed, so that the copy may be of any product there
   has been; the INSERT fails if its key is gone by now.                    *)
Duplicate(q, i) ==
    /\ product[q] = Unborn /\ MayName(i)
    /\ product' = [product EXCEPT ![q] = i]
    /\ UNCHANGED <<kvars, monitored, build>>

DropRowAndNames_Dangling(c) ==   \* Mutant: products keep the id of the key
    DropRow(c) /\ UNCHANGED pvars

(* ON DELETE SET NULL *)
DropRowAndNames(c) ==
    /\ DropRow(c)
    /\ product' = [p \in Product |->
          IF product[p] = request[c].id THEN 0 ELSE product[p]]
    /\ UNCHANGED <<monitored, build>>

-----------------------------------------------------------------------------
(* What a build does with the key of its product. *)

Build(p, b) == build' = [build EXCEPT ![p] = b] /\ UNCHANGED <<kvars, product, monitored>>

(* TriggerBuild reads the product ... *)
Trigger(p) ==
    /\ build[p].at = "idle" /\ Exists(p)
    /\ Build(p, [NoBuild EXCEPT !.at = "resolve", !.key = product[p]])

Fingerprint(i) == IF i \in Rows THEN row[i] ELSE None

(* ... and then the row of its key.  Without one, and after any other error of
   GetByID, there is a warning and the build will not be signed.            *)
Resolve(p) ==
    /\ build[p].at = "resolve"
    /\ \/ Build(p, [build[p] EXCEPT !.at = "sign", !.fp = Fingerprint(build[p].key)])
       \/ /\ "resolve" \in Faults /\ build[p].key # 0
          /\ Build(p, [build[p] EXCEPT !.at = "sign", !.misread = TRUE])

(* StageSign needs the key itself, and fails without it. *)
Sign(p) ==
    /\ build[p].at = "sign" /\ build[p].fp \in keyring \cup {None}
    /\ Build(p, [build[p] EXCEPT !.at = "signed"])

(* The build is over, or fails or is cancelled at any point. *)
Finish(p) == build[p].at # "idle" /\ Build(p, NoBuild)

CrashRestart ==
    /\ KCrash
    /\ build' = [p \in Product |-> NoBuild]
    /\ UNCHANGED <<product, monitored>>

Next ==
    \/ KStep /\ UNCHANGED pvars
    \/ \E c \in Client : DropRowAndNames(c)
    \/ \E p \in Product :
          \/ \E i \in Name : Create(p, i) \/ Update(p, i) \/ Duplicate(p, i)
          \/ Upsert(p) \/ Delete(p)
          \/ Trigger(p) \/ Resolve(p) \/ Sign(p) \/ Finish(p)
    \/ CrashRestart

Spec == Init /\ [][Next]_vars

-----------------------------------------------------------------------------
(* Properties *)

(* Every variable has values of its kind; products name rows that exist and
   monitors belong to products that exist.                                  *)
TypeOK ==
    /\ KTypeOK
    /\ product \in [Product -> Name \cup {Unborn, Gone}]
    /\ \A p \in Product : Exists(p) => MayName(product[p])
    /\ \A p \in monitored : Exists(p)
    /\ build \in [Product -> [at : {"idle", "resolve", "sign", "signed"},
                              key : Name, fp : Key \cup {None}, misread : BOOLEAN]]

(* "Resolve GPG key fingerprint": while the key that its product named at the
   trigger is still listed, not being deleted and not mixed up by an earlier
   request, a build has that key to sign with.  It goes without only if its row
   could not be read ("builds will not be signed"), and uses no other.      *)
SignsWhileListed ==
    \A p \in Product :
        LET b == build[p]
        IN  /\ b.at \in {"sign", "signed"} /\ b.key \in Rows
            /\ row[b.key] \notin mixed /\ \A c \in Client : request[c].id # b.key
            => IF b.misread THEN b.fp = None ELSE b.fp = row[b.key] /\ b.fp \in keyring
=============================================================================
