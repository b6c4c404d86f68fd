------------------------------ MODULE GpgKeys ------------------------------
(***************************************************************************)
(* The GPG keyring and the table gpg_keys that lists it: GPGService and    *)
(* GPGKeyRepo.  Import, generation and deletion change the two in separate *)
(* steps, without a lock or a transaction around them, and any two requests*)
(* may meet.  gpg itself is atomic: it changes the keyring or fails.       *)
(* Catalog adds the products that name keys and the builds that use them.  *)
(***************************************************************************)
EXTENDS Naturals, FiniteSets, Sequences, SequencesExt

CONSTANTS
    Key,         \* fingerprints
    Own,         \* those the server may generate; the others come from outside
    Client,      \* concurrent requests
    MaxRows,     \* bound on the ids of gpg_keys, which are never used twice
    Faults,      \* steps, of requests and of builds, that may fail by themselves
    None         \* no key

ASSUME KeyParameters ==
    /\ Own \subseteq Key /\ None \notin Key
    /\ MaxRows \in Nat
    /\ Faults \subseteq {"list", "look", "insert", "drop", "delete", "resolve"}

VARIABLES
    keyring,    \* keys in GNUPGHOME
    row,        \* the table gpg_keys: id -> fingerprint, None where there is no row
    last,       \* last id given out
    dflt,       \* ids whose row has is_default
    generated,  \* keys the server has made
    request,    \* the requests in progress
    mixed       \* history: keys whose last change did not go through alone

kvars == <<keyring, row, last, dflt, generated, request, mixed>>

Id == 1..MaxRows

Rows == {i \in Id : row[i] # None}

Listed(f) == \E i \in Rows : row[i] = f

Idle == [op |-> "none", at |-> "idle", fp |-> None, id |-> 0, clean |-> TRUE]

KInit ==
    /\ keyring = {} /\ row = [i \in Id |-> None] /\ last = 0 /\ dflt = {}
    /\ generated = {} /\ request = [c \in Client |-> Idle]
    /\ mixed = {}

-----------------------------------------------------------------------------
(* Where a request is.  It is clean as long as no request of the other kind *)
(* is after one of its keys; its key is mixed until a clean one succeeds.   *)

At(c, where) == request[c].at = where

Against(op, fs) == {c \in Client : request[c].fp \in fs /\ request[c].op # op}

Begin(c, op, fs, r, unlisted) ==
    LET met == Against(op, fs)
    IN  /\ request[c] = Idle
        /\ request' = [d \in Client |->
              IF d = c THEN [r EXCEPT !.op = op, !.clean = (met = {})]
              ELSE [request[d] EXCEPT !.clean = @ /\ d \notin met]]
        /\ mixed' = mixed \cup unlisted \cup {request[d].fp : d \in met}

Goto(c, where) == request' = [request EXCEPT ![c].at = where] /\ UNCHANGED mixed

Return(c) ==
    /\ request' = [request EXCEPT ![c] = Idle]
    /\ mixed' = IF request[c].clean THEN mixed \ {request[c].fp} ELSE mixed

ReturnError(c) ==
    /\ request' = [request EXCEPT ![c] = Idle]
    /\ mixed' = mixed \cup {request[c].fp}

-----------------------------------------------------------------------------
(* ImportKey and GenerateKey *)

Adding(f) == [Idle EXCEPT !.at = "list", !.fp = f]

(* gpg --import takes in every key of the file and reports them in that order. *)
Reported(file) == Head(file)

(* The rest of the request is about the first key that was reported. *)
Import(c, file) ==
    /\ ToSet(file) \cap Own \subseteq generated
    /\ keyring' = keyring \cup ToSet(file)
    /\ Begin(c, "add", ToSet(file), Adding(Reported(file)), {f \in ToSet(file) \ {Reported(file)} : ~Listed(f)})
    /\ UNCHANGED <<row, last, dflt, generated>>

(* gpg --gen-key makes a key that never was. *)
Generate(c, f) ==
    /\ f \in Own \ generated /\ generated' = generated \cup {f}
    /\ keyring' = keyring \cup {f}
    /\ Begin(c, "add", {f}, Adding(f), {})
    /\ UNCHANGED <<row, last, dflt>>

(* syncKeyFromKeyring: --list-keys fails, at least for a key that is gone. *)
ListKey(c) ==
    /\ At(c, "list")
    /\ \/ request[c].fp \in keyring /\ Goto(c, "look")
       \/ /\ request[c].fp \notin keyring \/ "list" \in Faults
          /\ ReturnError(c)
    /\ UNCHANGED <<keyring, row, last, dflt, generated>>

(* GetByFingerprint: a row that exists is the answer; an error counts as none. *)
LookUp(c) ==
    /\ At(c, "look")
    /\ \/ Listed(request[c].fp) /\ Return(c)
       \/ /\ ~Listed(request[c].fp) \/ "look" \in Faults
          /\ Goto(c, "insert")
    /\ UNCHANGED <<keyring, row, last, dflt, generated>>

InsertRow_NotUnique(c) ==   \* Mutant: the fingerprint is not UNIQUE
    /\ At(c, "insert") /\ last < MaxRows
    /\ last' = last + 1 /\ row' = [row EXCEPT ![last'] = request[c].fp]
    /\ Return(c)
    /\ UNCHANGED <<keyring, dflt, generated>>

(* The INSERT, which the UNIQUE fingerprint refuses if there is a row by now. *)
InsertRow(c) ==
    /\ At(c, "insert")
    /\ \/ /\ ~Listed(request[c].fp)
          /\ last < MaxRows /\ last' = last + 1
          /\ row' = [row EXCEPT ![last'] = request[c].fp]
          /\ Return(c)
       \/ /\ Listed(request[c].fp) \/ "insert" \in Faults
          /\ ReturnError(c) /\ UNCHANGED <<row, last>>
    /\ UNCHANGED <<keyring, dflt, generated>>

-----------------------------------------------------------------------------
(* Delete and SetDefault *)

ReadRow(c, i) ==
    /\ i \in Rows
    /\ Begin(c, "drop", {row[i]}, [Idle EXCEPT !.at = "key", !.fp = row[i], !.id = i], {})
    /\ UNCHANGED <<keyring, row, last, dflt, generated>>

DropKey_PublicOnly(c) ==   \* Mutant: --delete-key, which refuses a key with a secret
    /\ At(c, "key") /\ Goto(c, "row")
    /\ keyring' = keyring \ ({request[c].fp} \ generated)
    /\ UNCHANGED <<row, last, dflt, generated>>

(* --delete-secret-and-public-key; a failure is only a warning. *)
DropKey(c) ==
    /\ At(c, "key")
    /\ \/ keyring' = keyring \ {request[c].fp} /\ Goto(c, "row")
       \/ /\ "drop" \in Faults
          /\ request' = [request EXCEPT ![c].at = "row", ![c].clean = FALSE]
          /\ mixed' = mixed \cup {request[c].fp}
          /\ UNCHANGED keyring
    /\ UNCHANGED <<row, last, dflt, generated>>

DropRow(c) ==
    /\ At(c, "row")
    /\ row' = [row EXCEPT ![request[c].id] = None]
    /\ dflt' = dflt \ {request[c].id}
    /\ Return(c)
    /\ UNCHANGED <<keyring, last, generated>>

(* The DELETE fails: the key is listed although it may have left the keyring. *)
DropRowFails(c) ==
    /\ At(c, "row") /\ "delete" \in Faults
    /\ ReturnError(c)
    /\ UNCHANGED <<keyring, row, last, dflt, generated>>

(* One transaction clears the flag everywhere and sets it in one row, if there
   is such a row.                                                           *)
SetDefault(i) ==
    /\ dflt' = {i} \cap Rows
    /\ UNCHANGED <<keyring, row, last, generated, request, mixed>>

(* The server dies; keyring and table stay as they are. *)
KCrash ==
    /\ request' = [c \in Client |-> Idle]
    /\ mixed' = mixed \cup ({request[c].fp : c \in Client} \ {None})
    /\ UNCHANGED <<keyring, row, last, dflt, generated>>

(* A key file: one key or two. *)
File == {<<f>> : f \in Key} \cup {p \in Key \X Key : p[1] # p[2]}

(* Everything but the deletion of a row, which products take part in. *)
KStep ==
    \/ \E c \in Client :
          \/ \E file \in File : Import(c, file)
          \/ \E f \in Own : Generate(c, f)
          \/ ListKey(c) \/ LookUp(c) \/ InsertRow(c)
          \/ \E i \in Id : ReadRow(c, i)
          \/ DropKey(c) \/ DropRowFails(c)
    \/ \E i \in Id : SetDefault(i)

-----------------------------------------------------------------------------
(* Properties *)

KTypeOK ==
    /\ keyring \subseteq Key
    /\ row \in [Id -> Key \cup {None}] /\ last \in 0..MaxRows
    /\ dflt \subseteq Rows
    /\ generated \subseteq Own
    /\ request \in [Client -> [op : {"none", "add", "drop"},
                               at : {"idle", "list", "look", "insert", "key", "row"},
                               fp : Key \cup {None}, id : Id \cup {0}, clean : BOOLEAN]]
    /\ mixed \subseteq Key

(* Once all requests for a key have returned, it is in the keyring if and
   only if gpg_keys lists it, whatever had happened to it before the last
   request that succeeded, gpg included, and was not met by one of the other
   kind: importing a key again, or deleting it, repairs what a kill, a failure
   of gpg or of the database or an overlap left behind.                     *)
TableIsKeyring ==
    \A f \in Key \ mixed :
        (\A c \in Client : request[c].fp # f) => (f \in keyring <=> Listed(f))
=============================================================================
