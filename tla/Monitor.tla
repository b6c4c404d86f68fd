------------------------------ MODULE Monitor ------------------------------
(***************************************************************************)
(* service.MonitorService for one product: the background loop and the     *)
(* CheckNow requests that compare the latest GitHub release with the row   *)
(* of the monitors table and ask the build service for a build, while the  *)
(* row is edited, releases appear and are withdrawn, requests and database *)
(* writes fail and the server is killed.                                   *)
(*                                                                         *)
(* Releases are numbered in the order they appear; 0 is the empty version: *)
(* of a row that was never checked, or of an answer without a tag name.    *)
(***************************************************************************)
EXTENDS Naturals

CONSTANTS
    Loop,         \* the goroutine of MonitorService.loop
    Request,      \* concurrent POST /api/monitors/:product_id/check
    MaxRelease    \* bound on the releases

ASSUME Parameters == Loop \notin Request /\ MaxRelease \in Nat

Checker == Request \cup {Loop}
Release == 1..MaxRelease
Version == 0..MaxRelease

NoRow == [version |-> 0, auto |-> FALSE]

VARIABLES
    enabled, auto,  \* monitors.enabled, monitors.auto_build
    known,          \* monitors.last_known_version
    due,            \* last_checked_at is NULL or older than check_interval
    latest,         \* the latest release on GitHub, or 0
    top,            \* the newest there ever was
    at,             \* where each check is
    row,            \* the row each check read: version and auto_build
    fetched,        \* the release each check got
    wants,          \* that it will ask for a build of it
    built,          \* history: releases the monitor started a build of
    missed,         \* history: a build that was needed was not started
    amiss           \* history: an older release may be built, see BuildsOnlyNew

rowvars  == <<enabled, auto, known, due>>
releases == <<latest, top>>
locals   == <<at, row, fetched, wants>>
builds   == <<built, missed>>
vars     == <<rowvars, releases, locals, builds, amiss>>

Init ==
    /\ enabled \in BOOLEAN /\ auto \in BOOLEAN
    /\ known = 0 /\ due = TRUE
    /\ latest = 0 /\ top = 0
    /\ at = [c \in Checker |-> "idle"]
    /\ row = [c \in Checker |-> NoRow]
    /\ fetched = [c \in Checker |-> 0]
    /\ wants = [c \in Checker |-> FALSE]
    /\ built = {} /\ missed = FALSE
    /\ amiss = FALSE

-----------------------------------------------------------------------------
(* The world around the monitor. *)

NewRelease ==
    /\ top < MaxRelease
    /\ top' = top + 1 /\ latest' = top'
    /\ UNCHANGED <<rowvars, locals, builds, amiss>>

(* The latest release is withdrawn, or an earlier one is back. *)
Withdraw ==
    /\ latest' \in (0..top) \ {latest}
    /\ amiss' = TRUE
    /\ UNCHANGED <<rowvars, top, locals, builds>>

(* time.Since(last_checked_at) reaches check_interval. *)
IntervalPasses ==
    /\ ~due /\ due' = TRUE
    /\ UNCHANGED <<enabled, auto, known, releases, locals, builds, amiss>>

(* MonitorRepo.Update: one statement per field that is set. *)
SetEnabled ==
    /\ enabled' = ~enabled
    /\ UNCHANGED <<auto, known, due, releases, locals, builds, amiss>>

SetAutoBuild ==
    /\ auto' = ~auto
    /\ UNCHANGED <<enabled, known, due, releases, locals, builds, amiss>>

-----------------------------------------------------------------------------
(* A check. *)

Goto(c, where) == at' = [at EXCEPT ![c] = where]

Returns(c) ==
    /\ Goto(c, "idle")
    /\ row' = [row EXCEPT ![c] = NoRow]
    /\ fetched' = [fetched EXCEPT ![c] = 0]
    /\ wants' = [wants EXCEPT ![c] = FALSE]

Starts(c) ==
    /\ Goto(c, "check")
    /\ amiss' = (amiss \/ \E d \in Checker : at[d] # "idle")

(* checkAll finds the row among the enabled ones, and due. *)
Pick ==
    /\ at[Loop] = "idle" /\ enabled /\ due
    /\ Starts(Loop)
    /\ UNCHANGED <<rowvars, releases, row, fetched, wants, builds>>

(* CheckNow is requested, enabled or not. *)
Ask(c) ==
    /\ c \in Request /\ at[c] = "idle"
    /\ Starts(c)
    /\ UNCHANGED <<rowvars, releases, row, fetched, wants, builds>>

(* CheckNow reads the row, or returns if it cannot ... *)
ReadRow(c) ==
    /\ at[c] = "check"
    /\ row' = [row EXCEPT ![c] = [version |-> known, auto |-> auto]]
    /\ Goto(c, "fetch")
    /\ UNCHANGED <<rowvars, releases, fetched, wants, builds, amiss>>

ReadFails(c) ==
    /\ at[c] = "check"
    /\ Returns(c)
    /\ UNCHANGED <<rowvars, releases, builds, amiss>>

(* Mutant: version and error message are swapped; MaxRelease + 1 stands for
   the message.                                                             *)
FetchFails_Swapped(c) ==
    /\ at[c] = "fetch"
    /\ known' = MaxRelease + 1 /\ due' = FALSE
    /\ Returns(c)
    /\ UNCHANGED <<enabled, auto, releases, builds, amiss>>

(* ... asks GitHub; an error is recorded with the version it had read, unless
   the UPDATE fails, too, which nobody learns of, ...                       *)
FetchFails(c) ==
    /\ at[c] = "fetch"
    /\ \/ known' = row[c].version /\ due' = FALSE
       \/ UNCHANGED <<known, due>>
    /\ Returns(c)
    /\ UNCHANGED <<enabled, auto, releases, builds, amiss>>

NeedsBuild_Always(c, v) == row[c].auto /\ v # 0   \* Mutant: the version is not compared

(* Mutant: the first version that is found is only recorded. *)
NeedsBuild_NotFirst(c, v) ==
    v # row[c].version /\ row[c].auto /\ v # 0 /\ row[c].version # 0

NeedsBuild(c, v) == v # row[c].version /\ row[c].auto /\ v # 0

(* ... or gets an answer.  Whether to build follows from it and what was read:
   nothing that happens later, before the code compares the two, changes
   that.                                                                    *)
Answered(c, v) ==
    /\ fetched' = [fetched EXCEPT ![c] = v]
    /\ wants' = [wants EXCEPT ![c] = NeedsBuild(c, v)]
    /\ row' = [row EXCEPT ![c] = NoRow]
    /\ Goto(c, "record")
    /\ UNCHANGED <<rowvars, releases, builds>>

Fetch(c) ==
    /\ at[c] = "fetch" /\ latest # 0
    /\ Answered(c, latest)
    /\ UNCHANGED amiss

(* The answer has no tag name, or a mere "v". *)
FetchEmpty(c) ==
    /\ at[c] = "fetch"
    /\ Answered(c, 0)
    /\ amiss' = TRUE

(* The check ends alone with the newest release the latest and on record. *)
Settled(c) == known' = top /\ latest = top /\ \A d \in Checker \ {c} : at[d] = "idle"

Ends(c, wrong) == amiss' = (wrong /\ ~Settled(c)) /\ Returns(c)

(* If there is nothing to build the check ends. *)
Recorded(c, wrong) ==
    /\ \/ ~wants[c] /\ Ends(c, wrong)
       \/ /\ wants[c] /\ amiss' = wrong
          /\ Goto(c, "build")
          /\ UNCHANGED <<row, fetched, wants>>
    /\ UNCHANGED <<enabled, auto, releases, builds>>

Record_Old(c) ==   \* Mutant: nothing but the time is written
    /\ at[c] = "record"
    /\ due' = FALSE /\ UNCHANGED known
    /\ Recorded(c, amiss)

(* ... writes the version it got over whatever the row has by now, ... *)
Record(c) ==
    /\ at[c] = "record"
    /\ known' = fetched[c] /\ due' = FALSE
    /\ Recorded(c, amiss)

(* ... or fails to, and goes on all the same: the error is dropped, ... *)
RecordFails(c) ==
    /\ at[c] = "record"
    /\ UNCHANGED <<known, due>>
    /\ Recorded(c, TRUE)

(* ... and asks for a build, which starts, or is refused, or fails: the error
   is ignored.                                                              *)
Build(c) ==
    /\ at[c] = "build"
    /\ \/ built' = built \cup {fetched[c]} /\ UNCHANGED missed
       \/ missed' = TRUE /\ UNCHANGED built
    /\ UNCHANGED <<rowvars, releases>>
    /\ Ends(c, amiss)

Check(c) == ReadRow(c) \/ Fetch(c) \/ Record(c) \/ Build(c)

Trouble(c) == ReadFails(c) \/ FetchFails(c) \/ FetchEmpty(c) \/ RecordFails(c)

(* The server dies and starts again: the row stays, checks are lost. *)
CrashRestart ==
    /\ missed' = (missed \/ \E c \in Checker : at[c] = "build")
    /\ at' = [c \in Checker |-> "idle"]
    /\ row' = [c \in Checker |-> NoRow]
    /\ fetched' = [c \in Checker |-> 0]
    /\ wants' = [c \in Checker |-> FALSE]
    /\ UNCHANGED <<rowvars, releases, built, amiss>>

Next ==
    \/ NewRelease \/ Withdraw \/ IntervalPasses \/ SetEnabled \/ SetAutoBuild
    \/ Pick
    \/ \E c \in Checker : Ask(c) \/ Check(c) \/ Trouble(c)
    \/ CrashRestart

Spec == Init /\ [][Next]_vars

(* The ticker ticks, time passes, neither the database nor GitHub fails for
   ever, and one day the server stays up.                                   *)
FairSpec ==
    /\ Spec
    /\ WF_vars(IntervalPasses) /\ WF_vars(Pick)
    /\ \A c \in Checker : WF_vars(ReadRow(c) \/ Record(c) \/ Build(c))
    /\ SF_vars(\E c \in Checker : ReadRow(c))
    /\ SF_vars(\E c \in Checker : Fetch(c))
    /\ SF_vars(\E c \in Checker : fetched[c] # 0 /\ Record(c))
    /\ <>[][~CrashRestart]_vars

-----------------------------------------------------------------------------
(* Properties *)

(* Every variable has values of its kind. *)
TypeOK ==
    /\ enabled \in BOOLEAN /\ auto \in BOOLEAN
    /\ known \in Version /\ due \in BOOLEAN
    /\ latest \in Version /\ top \in Version
    /\ at \in [Checker -> {"idle", "check", "fetch", "record", "build"}]
    /\ row \in [Checker -> [version : Version, auto : BOOLEAN]]
    /\ fetched \in [Checker -> Version]
    /\ wants \in [Checker -> BOOLEAN]
    /\ built \subseteq Release
    /\ missed \in BOOLEAN /\ amiss \in BOOLEAN

(* "If new version and auto-build enabled": what a check asks to build is newer
   than all the monitor built before, through failed requests, edits of the row and
   kills, if nothing went amiss since a check last ended alone with the newest
   release on record: no two checks ran at once, no UPDATE of a release
   failed, no release was withdrawn, no answer came without a version.
   Whatever went amiss before such a check is repaired by it.               *)
BuildsOnlyNew ==
    \A c \in Checker : at[c] = "build" => amiss \/ \A v \in built : v < fetched[c]

(* A monitor that stays enabled records the release that stays the latest,
   whatever requests do to the row meanwhile and fails in between.          *)
LatestRecorded ==
    \A v \in Release : <>[](enabled /\ latest = v) => []<>(known = v)

(* "Detects new versions, optionally triggers a build": with auto-build on
   for good, the release that stays the latest is built, whatever went amiss,
   unless a check that needed a build did not start it: it was refused or
   failed, or the server was killed before.                                 *)
LatestBuilt ==
    [](auto /\ enabled /\ ~missed) =>
        \A v \in Release : <>[](latest = v) => <>(v \in built)
=============================================================================
