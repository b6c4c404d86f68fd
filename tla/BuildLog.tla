------------------------------ MODULE BuildLog ------------------------------
(***************************************************************************)
(* The log of one build: pipeline.LogWriter, which appends to the log file *)
(* and broadcasts to subscribers, its registration by the build service,   *)
(* and the WebSocket connections of handler.BuildLog that replay the file, *)
(* look the writer up and subscribe to it, while the build goes on.        *)
(*                                                                         *)
(* The log is a sequence of writes, numbered in order; a WebSocket message *)
(* is one write, or the whole file.  Everything done under lw.mu is one    *)
(* step.                                                                   *)
(***************************************************************************)
EXTENDS Naturals, Sequences, SequencesExt

CONSTANTS
    Conn,       \* WebSocket connections
    MaxWrites,  \* bound on the writes of the build
    Cap,        \* capacity of a subscriber's channel (256 in the code)
    DiskFull    \* whether a write to the log file may fail

ASSUME Parameters == MaxWrites \in Nat /\ Cap \in Nat \ {0} /\ DiskFull \in BOOLEAN

VARIABLES
    build,    \* "none", "inserted" (row), "created" (log file), "listed" (in
              \* s.logWriters), "unlisted", "closed"; "failed" without a log file
    written,  \* writes so far
    file,     \* the writes the log file holds
    subs,     \* lw.subscribers
    chan,     \* what is buffered in the channel of each connection
    shut,     \* connections whose channel is closed
    panics,   \* a channel was closed twice, or written to once closed
    at,       \* where the handler of each connection is
    got,      \* writes sent to the client, in order
    fin,      \* connections that were told "Build finished"
    since,    \* history: writes made before each connection subscribed
    slow      \* history: connections that had a full channel at some write

writer == <<build, written, file, subs, shut, panics>>
conns  == <<at, got, fin, since>>
vars   == <<writer, conns, chan, slow>>

Init ==
    /\ build = "none" /\ written = 0 /\ file = <<>>
    /\ subs = {} /\ shut = {} /\ panics = FALSE
    /\ chan = [c \in Conn |-> <<>>]
    /\ at = [c \in Conn |-> "idle"]
    /\ got = [c \in Conn |-> <<>>]
    /\ fin = {} /\ slow = {}
    /\ since = [c \in Conn |-> 0]

-----------------------------------------------------------------------------
(* The build service and the pipeline. *)

Becomes(from, to) == build = from /\ build' = to

Quietly == UNCHANGED <<written, file, subs, shut, panics, conns, chan, slow>>

(* TriggerBuild inserts the row, which names the log file, creates the file
   and registers the writer, or fails to create it.                         *)
InsertRow == Becomes("none", "inserted") /\ Quietly
NoLogFile == Becomes("inserted", "failed") /\ Quietly
CreateFile == Becomes("inserted", "created") /\ Quietly
Register == Becomes("created", "listed") /\ Quietly

Push_Unbounded(c, w) == Append(chan[c], w)   \* Mutant: no capacity

(* The select with a default: a full channel does not take the message. *)
Push(c, w) == IF Len(chan[c]) < Cap THEN Append(chan[c], w) ELSE chan[c]

(* LogWriter.Write: to the file, then to every subscriber. *)
Write ==
    /\ build = "listed" /\ written < MaxWrites
    /\ written' = written + 1
    /\ \/ file' = Append(file, written')
       \/ DiskFull /\ UNCHANGED file
    /\ chan' = [c \in Conn |-> IF c \in subs THEN Push(c, written') ELSE chan[c]]
    /\ slow' = slow \cup {c \in subs : Len(chan[c]) >= Cap}
    /\ panics' = (panics \/ subs \cap shut # {})
    /\ UNCHANGED <<build, subs, shut, conns>>

(* The deferred delete(s.logWriters, buildID) ... *)
Unlist == Becomes("listed", "unlisted") /\ Quietly

(* ... then LogWriter.Close: every channel is closed and forgotten. *)
Close_KeepsMap ==   \* Mutant: the delete from the map is forgotten
    /\ Becomes("unlisted", "closed")
    /\ shut' = shut \cup subs
    /\ panics' = (panics \/ subs \cap shut # {})
    /\ UNCHANGED <<written, file, subs, conns, chan, slow>>

Close_ForgetsChannels ==   \* Mutant: the channels are not closed
    /\ Becomes("unlisted", "closed")
    /\ subs' = {}
    /\ UNCHANGED <<written, file, shut, panics, conns, chan, slow>>

Close ==
    /\ Becomes("unlisted", "closed")
    /\ shut' = shut \cup subs
    /\ subs' = {}
    /\ panics' = (panics \/ subs \cap shut # {})
    /\ UNCHANGED <<written, file, conns, chan, slow>>

-----------------------------------------------------------------------------
(* The handler of connection c. *)

Goto(c, where) == at' = [at EXCEPT ![c] = where]

(* GetByID finds the row. *)
Accept(c) ==
    /\ at[c] = "idle" /\ build # "none"
    /\ Goto(c, "accepted")
    /\ UNCHANGED <<writer, got, fin, since, chan, slow>>

(* os.ReadFile: what the log file holds is sent as one message. *)
Replay(c) ==
    /\ at[c] = "accepted"
    /\ got' = [got EXCEPT ![c] = file]
    /\ Goto(c, "replayed")
    /\ UNCHANGED <<writer, fin, since, chan, slow>>

(* GetLogWriter finds a writer, or none: the client is told at once. *)
Lookup(c) ==
    /\ at[c] = "replayed"
    /\ IF build = "listed"
         THEN Goto(c, "found") /\ UNCHANGED fin
         ELSE Goto(c, "ended") /\ fin' = fin \cup {c}
    /\ UNCHANGED <<writer, got, since, chan, slow>>

(* LogWriter.Subscribe, open or closed. *)
Subscribe_Refills(c) ==   \* Mutant: the channel starts with the file
    /\ at[c] = "found"
    /\ subs' = subs \cup {c}
    /\ chan' = [chan EXCEPT ![c] = file]
    /\ since' = [since EXCEPT ![c] = written]
    /\ Goto(c, "subscribed")
    /\ UNCHANGED <<build, written, file, shut, panics, got, fin, slow>>

Subscribe(c) ==
    /\ at[c] = "found"
    /\ subs' = subs \cup {c}
    /\ since' = [since EXCEPT ![c] = written]
    /\ Goto(c, "subscribed")
    /\ UNCHANGED <<build, written, file, shut, panics, got, fin, chan, slow>>

(* A message is taken from the channel and sent. *)
Deliver(c) ==
    /\ at[c] = "subscribed" /\ chan[c] # <<>>
    /\ got' = [got EXCEPT ![c] = Append(@, Head(chan[c]))]
    /\ chan' = [chan EXCEPT ![c] = Tail(@)]
    /\ UNCHANGED <<writer, at, fin, since, slow>>

(* The client is gone: the write fails, or the context is done. *)
Hangup(c) ==
    /\ at[c] = "subscribed"
    /\ Goto(c, "leaving")
    /\ UNCHANGED <<writer, got, fin, since, chan, slow>>

SeeClosed_Early(c) ==   \* Mutant: buffered messages are not awaited
    /\ at[c] = "subscribed" /\ c \in shut
    /\ fin' = fin \cup {c}
    /\ Goto(c, "leaving")
    /\ UNCHANGED <<writer, got, since, chan, slow>>

(* A closed channel is seen once it is empty. *)
SeeClosed(c) ==
    /\ at[c] = "subscribed" /\ c \in shut /\ chan[c] = <<>>
    /\ fin' = fin \cup {c}
    /\ Goto(c, "leaving")
    /\ UNCHANGED <<writer, got, since, chan, slow>>

(* The deferred Unsubscribe. *)
Unsubscribe(c) ==
    /\ at[c] = "leaving"
    /\ IF c \in subs
         THEN /\ panics' = (panics \/ c \in shut)
              /\ shut' = shut \cup {c}
              /\ subs' = subs \ {c}
         ELSE UNCHANGED <<panics, shut, subs>>
    /\ Goto(c, "ended")
    /\ UNCHANGED <<build, written, file, got, fin, since, chan, slow>>

-----------------------------------------------------------------------------

Build == InsertRow \/ NoLogFile \/ CreateFile \/ Register \/ Write \/ Unlist \/ Close

(* What a handler does without its client. *)
Serve(c) ==
    \/ Replay(c) \/ Lookup(c) \/ Subscribe(c) \/ Deliver(c) \/ SeeClosed(c)
    \/ Unsubscribe(c)

Next ==
    \/ Build
    \/ \E c \in Conn : Accept(c) \/ Serve(c) \/ Hangup(c)

Spec == Init /\ [][Next]_vars

(* The goroutine of a finished build runs its deferred clean-up, handlers
   are scheduled and clients read what is sent to them; nobody has to hang
   up.                                                                      *)
FairSpec ==
    /\ Spec
    /\ WF_vars(Register \/ Close)
    /\ \A c \in Conn : WF_vars(Serve(c))

-----------------------------------------------------------------------------
(* Properties *)

Writes == 1..MaxWrites

(* Every variable has values of its kind. *)
TypeOK ==
    /\ build \in {"none", "inserted", "failed", "created", "listed", "unlisted", "closed"}
    /\ written \in 0..MaxWrites
    /\ file \in Seq(Writes)
    /\ subs \subseteq Conn /\ shut \subseteq Conn
    /\ panics \in BOOLEAN
    /\ chan \in [Conn -> Seq(Writes)] /\ \A c \in Conn : Len(chan[c]) <= Cap
    /\ at \in [Conn -> {"idle", "accepted", "replayed", "found", "subscribed",
                        "leaving", "ended"}]
    /\ got \in [Conn -> Seq(Writes)]
    /\ fin \subseteq Conn /\ slow \subseteq Conn
    /\ since \in [Conn -> 0..MaxWrites]

(* Close by the build and Unsubscribe by the handler race for the channel:
   it is closed once, and never written to afterwards.                      *)
NoPanic == ~panics

(* The file replayed first and the live messages after it never show a line
   twice or out of order, whenever the client came.                         *)
InOrder ==
    \A c \in Conn : LET seen == got[c] \o chan[c]
                    IN  \A i, j \in DOMAIN seen : i < j => seen[i] < seen[j]

(* "Drop if subscriber is slow" is the only loss after Subscribe: a client
   told that the build finished got every later line unless its channel had
   been full.                                                               *)
TailComplete ==
    \A c \in fin \ slow : at[c] \in {"leaving", "ended"} /\ c \in shut =>
        {w \in Writes : since[c] < w /\ w <= written} \subseteq ToSet(got[c])

(* A client subscribed to a build in progress is told when it finishes, or
   hung up before.                                                          *)
SubscriberReleased ==
    \A c \in Conn : (c \in subs /\ build = "unlisted") ~> at[c] = "ended"
=============================================================================
