----------------------------- MODULE ConfigFile -----------------------------
(***************************************************************************)
(* config.yaml as config.Load reads it and persistAuthSecrets rewrites it, *)
(* line by line and without parsing it.  A file is a sequence of lines: the*)
(* header of a section, an entry with its indentation, or a blank one, such*)
(* as the rest behind the last newline.  Values are numbers, 0 for "".     *)
(***************************************************************************)
EXTENDS Naturals, Sequences, SequencesExt, FiniteSetsExt

CONSTANT
    Word   \* names of sections and keys of entries

Section(n) == [section |-> n, key |-> "", value |-> 0, indent |-> 0]
Entry(k, v, i) == [section |-> "", key |-> k, value |-> v, indent |-> i]
Blank == Entry("", 0, 0)

Line == [section : Word \cup {""}, key : Word \cup {""}, value : Nat, indent : Nat]

(* What persistAuthSecrets writes. *)
Secret == {"password_hash", "jwt_secret", "api_token"}

ASSUME SecretsAreWords == Secret \subseteq Word

-----------------------------------------------------------------------------
(* Reading *)

Headers(file) == {i \in DOMAIN file : file[i].section # ""}
Entries(file) == {i \in DOMAIN file : file[i].key # ""}

(* The section an entry belongs to: the header above it. *)
SectionAt(file, i) ==
    LET above == {j \in Headers(file) : j < i}
    IN  IF above = {} THEN "" ELSE file[Max(above)].section

(* YAML wants the entries of a section in one column. *)
Readable(file) ==
    \A i, j \in Entries(file) :
        SectionAt(file, i) = SectionAt(file, j) => file[i].indent = file[j].indent

Get(file, k) ==
    LET at == {i \in Entries(file) : file[i].key = k /\ SectionAt(file, i) = "auth"}
    IN  IF at = {} THEN 0 ELSE file[Min(at)].value

(* Everything else that the file says. *)
Settings(file) ==
    {<<SectionAt(file, i), file[i].key, file[i].value>> :
        i \in {j \in Entries(file) : file[j].key \notin Secret}}

-----------------------------------------------------------------------------
(* persistAuthSecrets *)

With(file, k) == {i \in Entries(file) : file[i].key = k}

Auth(file) == {i \in Headers(file) : file[i].section = "auth"}

(* lines[:i+2] behind a header that is the last line panics. *)
Panics(file) ==
    /\ \E k \in Secret : With(file, k) = {}
    /\ Auth(file) # {} /\ Min(Auth(file)) = Len(file)

Put_InPlaceOf(file, k, v) ==   \* Mutant: lines[i+3:] is appended instead of lines[i+2:]
    IF With(file, k) # {} THEN [file EXCEPT ![Min(With(file, k))].value = v]
    ELSE IF Auth(file) = {} THEN file
    ELSE LET i == Min(Auth(file)) + 2
         IN  SubSeq(file, 1, i - 1) \o <<Entry(k, v, 2)>> \o SubSeq(file, i + 1, Len(file))

(* The first line with the key, in whatever section, gets the value; without
   one an entry is inserted below the line that follows "auth:", indented by
   two; without that line nothing happens.                                  *)
Put(file, k, v) ==
    IF With(file, k) # {} THEN [file EXCEPT ![Min(With(file, k))].value = v]
    ELSE IF Auth(file) = {} THEN file
    ELSE InsertAt(file, Min(Auth(file)) + 2, Entry(k, v, 2))

Persist(file, cfg) ==
    LET Written(f, k) == Put(f, k, cfg[k])
    IN  Written(Written(Written(file, "password_hash"), "jwt_secret"), "api_token")

-----------------------------------------------------------------------------
(* A file that persistAuthSecrets can work with: it has the secrets already,
   or no other section has entries of their names, and the auth section, the
   first one if there are more, starts with a blank line or an entry and has
   its entries indented by two.                                             *)
Complete(file) == \A k \in Secret : Get(file, k) # 0

Editable(file) ==
    /\ Auth(file) # {} /\ Min(Auth(file)) < Len(file)
    /\ file[Min(Auth(file)) + 1].section = ""
    /\ \A j \in Entries(file) :
          IF SectionAt(file, j) = "auth" THEN file[j].indent = 2 ELSE file[j].key \notin Secret

Workable(file) == Complete(file) \/ Editable(file)
=============================================================================
