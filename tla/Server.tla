------------------------------- MODULE Server -------------------------------
(***************************************************************************)
(* The life of the process: Load with the secrets it makes and saves, Open *)
(* with its migrations, Run until a signal, a failure or a kill, and again *)
(* from the start.  While it serves, LoginGuard is at work, whose memory   *)
(* does not outlive the process; challenges do, for they are signed with a *)
(* secret of the configuration.                                            *)
(***************************************************************************)
EXTENDS ConfigFile, LoginGuard

CONSTANTS
    Given,          \* the files that an operator may have written
    Missing,        \* no file
    MaxGenerated,   \* bound on the processes that make secrets
    MaxMigrations,  \* migrations of the newest program
    Cuts,           \* lines after which a write may fail
    SaveFaults      \* steps of saving and migrating that may fail by themselves

ASSUME Bounds ==
    /\ Given \subseteq Seq(Line) /\ Missing \notin Seq(Line)
    /\ MaxGenerated \in Nat /\ MaxMigrations \in Nat
    /\ Cuts \subseteq Nat /\ SaveFaults \subseteq {"open", "write", "migrate"}

VARIABLES
    phase,      \* where the process is
    file,       \* config.yaml
    read,       \* what it was when the process started
    cfg,        \* the secrets in use, also after the process has ended
    generated,  \* processes that made secrets
    saved,      \* history: what the process made, if anything, is in the file
    shipped,    \* migrations of the program that is installed
    schema,     \* migrations the database went through
    recorded    \* the table schema_migrations

conf == <<file, read, cfg, generated, saved>>
data == <<shipped, schema, recorded>>
svars == <<phase, conf, data>>
vars == <<svars, gvars>>

Init ==
    /\ phase = "down"
    /\ file \in Given \cup {Missing} /\ read = file
    /\ cfg = [k \in Secret |-> 0] /\ generated = 0 /\ saved = FALSE
    /\ shipped \in 1..MaxMigrations /\ schema = <<>> /\ recorded = {}
    /\ GInit

-----------------------------------------------------------------------------
(* Load *)

Loaded(k) == IF file = Missing THEN 0 ELSE Get(file, k)

Lacking == {k \in Secret : Loaded(k) = 0}

(* ensureDefaults: what the file lacks is made, and if anything was, all the
   secrets are to be saved.  A file that cannot be parsed ends the process,
   and so does the panic; without a file there is only a warning.           *)
Start ==
    /\ phase = "down"
    /\ file # Missing => Readable(file) /\ ~(Lacking # {} /\ Panics(file))
    /\ Lacking # {} => generated < MaxGenerated
    /\ generated' = IF Lacking # {} THEN generated + 1 ELSE generated
    /\ cfg' = [k \in Secret |-> IF k \in Lacking THEN generated' ELSE Loaded(k)]
    /\ challenge' = [s \in Solution |->
          IF cfg'["jwt_secret"] = cfg["jwt_secret"] THEN challenge[s] ELSE Never]
    /\ read' = file /\ saved' = (Lacking = {})
    /\ phase' = IF Lacking = {} \/ file = Missing THEN "migrate" ELSE "save"
    /\ UNCHANGED <<file, data, limiter, used, accepted, req>>

(* os.WriteFile truncates the file ... *)
Truncate ==
    /\ phase = "save"
    /\ \/ file' = <<>> /\ phase' = "write"
       \/ "open" \in SaveFaults /\ phase' = "migrate" /\ UNCHANGED file
    /\ UNCHANGED <<read, cfg, generated, saved, data, gvars>>

(* ... and writes it, or a part of it; an error is only a warning. *)
Write ==
    /\ phase = "write"
    /\ LET content == Persist(read, cfg)
       IN  \/ file' = content /\ saved' = TRUE
           \/ /\ "write" \in SaveFaults
              /\ \E n \in Cuts : n < Len(content) /\ file' = SubSeq(content, 1, n)
              /\ UNCHANGED saved
    /\ phase' = "migrate"
    /\ UNCHANGED <<read, cfg, generated, data, gvars>>

-----------------------------------------------------------------------------
(* Migrate *)

Due == {m \in 1..shipped : m \notin recorded}

Apply_OwnCommit ==   \* Mutant: the migration is committed before it is recorded
    /\ phase = "migrate" /\ Due # {}
    /\ schema' = Append(schema, Min(Due))
    /\ \/ recorded' = recorded \cup {Min(Due)} /\ UNCHANGED phase
       \/ phase' = "down" /\ UNCHANGED recorded
    /\ UNCHANGED <<conf, shipped, gvars>>

(* One transaction executes and records the next migration by name. *)
Apply ==
    /\ phase = "migrate" /\ Due # {}
    /\ schema' = Append(schema, Min(Due))
    /\ recorded' = recorded \cup {Min(Due)}
    /\ UNCHANGED <<phase, conf, shipped, gvars>>

(* An error ends the process. *)
MigrateFails ==
    /\ phase = "migrate" /\ "migrate" \in SaveFaults
    /\ phase' = "down"
    /\ UNCHANGED <<conf, data, gvars>>

Migrated ==
    /\ phase = "migrate" /\ Due = {}
    /\ phase' = "serve"
    /\ UNCHANGED <<conf, data, gvars>>

-----------------------------------------------------------------------------
(* Run *)

(* The handlers, those of accepted requests also while the server stops. *)
Handle ==
    /\ phase \in {"serve", "stopping"}
    /\ \/ \E c \in Client :
             \/ Refuse(c)
             \/ \E s \in Solution : Challenge(c, s)
             \/ \E r \in Request, p \in Payload : Login(r, c, p)
       \/ \E r \in Request : Solve(r) \/ Use(r) \/ Password(r)
    /\ UNCHANGED svars

CleanUp ==
    /\ phase = "serve"
    /\ CleanEntries \/ CleanUsed
    /\ UNCHANGED svars

TimePasses == Tick /\ UNCHANGED svars

(* A signal: the cleaning stops and no connection is accepted. *)
Stop ==
    /\ phase = "serve"
    /\ phase' = "stopping"
    /\ UNCHANGED <<conf, data, gvars>>

(* Shutdown has waited for the requests, or long enough; or a kill, whenever
   it comes.                                                                *)
Exit ==
    /\ phase # "down"
    /\ phase' = "down" /\ NothingKnown
    /\ UNCHANGED <<conf, data, challenge>>

(* Another version is installed. *)
Install ==
    /\ phase = "down"
    /\ shipped' \in 1..MaxMigrations
    /\ UNCHANGED <<phase, conf, schema, recorded, gvars>>

Next ==
    \/ Start \/ Truncate \/ Write
    \/ Apply \/ MigrateFails \/ Migrated
    \/ Handle \/ CleanUp \/ TimePasses
    \/ Stop \/ Exit \/ Install

Spec == Init /\ [][Next]_vars

-----------------------------------------------------------------------------
(* Properties *)

(* Every variable has values of its kind. *)
TypeOK ==
    /\ GTypeOK
    /\ phase \in {"down", "save", "write", "migrate", "serve", "stopping"}
    /\ \A k \in Secret : cfg[k] \in Nat
    /\ generated \in 0..MaxGenerated /\ saved \in BOOLEAN
    /\ shipped \in 1..MaxMigrations
    /\ recorded \subseteq 1..MaxMigrations

(* "Persist generated secrets to config file so they survive restarts": what
   the next process will read is what this one uses, password, signing key
   and token, and nothing else the operator wrote has changed, unless saving
   was cut off or failed, or the file was not one it could work with.       *)
SecretsSurvive ==
    saved /\ read # Missing /\ Workable(read) =>
        /\ Readable(file)
        /\ \A k \in Secret : Get(file, k) = cfg[k] /\ cfg[k] # 0
        /\ Settings(file) = Settings(read)

(* The database has been through every migration at most once and in order,
   through failures, kills and changes of version, and the server serves
   only when none is due.                                                   *)
MigratedOnce ==
    /\ \A i \in DOMAIN schema : schema[i] = i
    /\ recorded = DOMAIN schema
    /\ phase \in {"serve", "stopping"} => 1..shipped \subseteq recorded
=============================================================================
