---------------------------- MODULE MonitorProofs ----------------------------
(***************************************************************************)
(* Proofs about Monitor for any number of requests, releases and kills.    *)
(***************************************************************************)
EXTENDS Monitor, TLAPS

(* The Boolean variables, and the others. *)
Flags ==
    /\ enabled \in BOOLEAN /\ auto \in BOOLEAN /\ due \in BOOLEAN
    /\ missed \in BOOLEAN /\ amiss \in BOOLEAN

Data ==
    /\ known \in Version /\ latest \in Version /\ top \in Version
    /\ at \in [Checker -> {"idle", "check", "fetch", "record", "build"}]
    /\ row \in [Checker -> [version : Version, auto : BOOLEAN]]
    /\ fetched \in [Checker -> Version]
    /\ wants \in [Checker -> BOOLEAN]
    /\ built \subseteq Release

(* The two halves are the type invariant. *)
LEMMA Halves == TypeOK <=> Flags /\ Data
    BY Zenon DEF TypeOK, Flags, Data

(* Every step keeps the Boolean variables Boolean. *)
LEMMA FlagsStep == Flags /\ [Next]_vars => Flags'
<1> SUFFICES ASSUME Flags, [Next]_vars PROVE Flags'
    OBVIOUS
<1>1. CASE NewRelease \/ Withdraw \/ IntervalPasses \/ SetEnabled \/ SetAutoBuild \/ Pick
    BY <1>1, Zenon DEF Flags, NewRelease, Withdraw, IntervalPasses, SetEnabled, SetAutoBuild,
           Pick, Starts, builds, rowvars
<1>2. ASSUME NEW c \in Checker, Ask(c) \/ Check(c)
      PROVE  Flags'
    BY <1>2, Zenon DEF Flags, Ask, Starts, Check, ReadRow, Fetch, Answered, Record, Recorded, Build,
           Ends, builds, rowvars
<1>3. ASSUME NEW c \in Checker, Trouble(c)
      PROVE  Flags'
    BY <1>3, Zenon DEF Flags, Trouble, ReadFails, FetchFails, FetchEmpty, Answered, RecordFails,
           Recorded, Ends, builds, rowvars
<1>4. CASE CrashRestart \/ UNCHANGED vars
    BY <1>4, Zenon DEF Flags, CrashRestart, vars, builds, rowvars
<1> QED
    BY <1>1, <1>2, <1>3, <1>4, Zenon DEF Next

(* What goes on around the monitor moves only the releases: the newest by
   one, or the latest one back or forth, which counts as amiss.             *)
Around == NewRelease \/ Withdraw \/ IntervalPasses \/ SetEnabled \/ SetAutoBuild

(* Those steps leave the locals, the row and the builds alone. *)
LEMMA AroundDoes ==
    Around => /\ known' = known /\ built' = built
              /\ at' = at /\ row' = row /\ fetched' = fetched /\ wants' = wants
              /\ \/ latest' = latest /\ top' = top /\ amiss' = amiss
                 \/ top < MaxRelease /\ top' = top + 1 /\ latest' = top' /\ amiss' = amiss
                 \/ latest' \in 0..top /\ top' = top /\ amiss'
BY DEF Around, NewRelease, Withdraw, IntervalPasses, SetEnabled, SetAutoBuild, rowvars, releases,
       locals, builds

(* An answer is kept with the decision to build it, and the row is not. *)
LEMMA AnsweredDoes ==
    ASSUME NEW c \in Checker, NEW v, Answered(c, v)
    PROVE  /\ at' = [at EXCEPT ![c] = "record"]
           /\ row' = [row EXCEPT ![c] = NoRow]
           /\ fetched' = [fetched EXCEPT ![c] = v]
           /\ wants' = [wants EXCEPT ![c] = NeedsBuild(c, v)]
           /\ known' = known /\ latest' = latest /\ top' = top /\ built' = built
BY Zenon DEF Answered, Goto, rowvars, releases, builds

(* A check that ends forgets all it carried. *)
Over(c) ==
    /\ at' = [at EXCEPT ![c] = "idle"]
    /\ row' = [row EXCEPT ![c] = NoRow]
    /\ fetched' = [fetched EXCEPT ![c] = 0]
    /\ wants' = [wants EXCEPT ![c] = FALSE]

(* Only a check that settles puts right what was amiss. *)
LEMMA EndsDoes ==
    ASSUME NEW c \in Checker, NEW wrong \in BOOLEAN, Ends(c, wrong)
    PROVE  Over(c) /\ (wrong => amiss' \/ Settled(c))
BY Zenon DEF Ends, Returns, Goto, Over

(* Once its version is recorded, or was not, a check ends or asks for a build. *)
LEMMA RecordedDoes ==
    ASSUME NEW c \in Checker, NEW wrong \in BOOLEAN, Recorded(c, wrong)
    PROVE  /\ latest' = latest /\ top' = top /\ built' = built
           /\ \/ Over(c) /\ (wrong => amiss' \/ Settled(c))
              \/ /\ wants[c] /\ amiss' = wrong
                 /\ at' = [at EXCEPT ![c] = "build"]
                 /\ row' = row /\ fetched' = fetched /\ wants' = wants
<1>1. CASE Ends(c, wrong)
    BY <1>1, EndsDoes, Zenon DEF Recorded, releases, builds
<1>2. CASE ~Ends(c, wrong)
    BY <1>2, Zenon DEF Recorded, Goto, releases, builds
<1> QED
    BY <1>1, <1>2

(* The version that was fetched is written before. *)
LEMMA RecordDoes ==
    ASSUME NEW c \in Checker, Flags, Record(c)
    PROVE  at[c] = "record" /\ known' = fetched[c] /\ Recorded(c, amiss) /\ amiss \in BOOLEAN
BY Zenon DEF Record, Flags

(* If it could not be written, that is amiss, and the row is what it was. *)
LEMMA RecordFailsDoes ==
    ASSUME NEW c \in Checker, RecordFails(c)
    PROVE  at[c] = "record" /\ known' = known /\ Recorded(c, TRUE) /\ TRUE \in BOOLEAN
BY Zenon DEF RecordFails

(* A request for a build ends the check, whatever came of it. *)
LEMMA BuildDoes ==
    ASSUME NEW c \in Checker, Flags, Build(c)
    PROVE  /\ at[c] = "build" /\ Over(c)
           /\ amiss => amiss' \/ Settled(c)
           /\ known' = known /\ latest' = latest /\ top' = top
           /\ built' = built \/ built' = built \cup {fetched[c]}
<1>1. amiss \in BOOLEAN /\ Ends(c, amiss)
    BY Zenon DEF Build, Flags
<1> QED
    BY <1>1, EndsDoes, Zenon DEF Build, rowvars, releases

(* A check that gives up writes back what it read, or nothing. *)
LEMMA GivesUp ==
    ASSUME NEW c \in Checker, ReadFails(c) \/ FetchFails(c)
    PROVE  /\ latest' = latest /\ top' = top /\ built' = built /\ amiss' = amiss
           /\ at[c] \in {"check", "fetch"} /\ Over(c)
           /\ known' = known \/ (at[c] = "fetch" /\ known' = row[c].version)
BY Zenon DEF ReadFails, FetchFails, Returns, Goto, Over, rowvars, releases, builds

(* A check asks only for a version that there is. *)
Wanted(c) ==
    /\ at[c] = "build" => wants[c]
    /\ wants[c] => fetched[c] # 0

(* Every step keeps the other variables in their types. *)
LEMMA DataStep ==
    ASSUME Flags, Data, \A c \in Checker : Wanted(c), [Next]_vars
    PROVE  Data' /\ \A c \in Checker : Wanted(c)'
<1> USE Parameters DEF Data, Version, Release, NoRow, Wanted
<1>1. CASE Around
    <2>1. latest' \in 0..MaxRelease /\ top' \in 0..MaxRelease
        BY <1>1, AroundDoes
    <2>2. /\ known' = known /\ built' = built
          /\ at' = at /\ row' = row /\ fetched' = fetched /\ wants' = wants
        BY <1>1, AroundDoes, Zenon
    <2> QED
        BY <2>1, <2>2
<1>2. CASE Pick
    BY <1>2 DEF Pick, Starts, Goto, Checker, rowvars, releases, builds
<1>3. ASSUME NEW c \in Checker, Ask(c)
      PROVE  Data' /\ \A d \in Checker : Wanted(d)'
    BY <1>3 DEF Ask, Starts, Goto, rowvars, releases, builds
<1>4. ASSUME NEW c \in Checker, ReadRow(c)
      PROVE  Data' /\ \A d \in Checker : Wanted(d)'
    BY <1>4 DEF ReadRow, Goto, rowvars, releases, builds, Flags
<1>5. ASSUME NEW c \in Checker, Fetch(c) \/ FetchEmpty(c)
      PROVE  Data' /\ \A d \in Checker : Wanted(d)'
    <2>1. PICK v \in Version : Answered(c, v)
        BY <1>5 DEF Fetch, FetchEmpty
    <2>2. /\ NeedsBuild(c, v) \in BOOLEAN
          /\ NeedsBuild(c, v) => v # 0
        BY Zenon DEF NeedsBuild, Flags
    <2>3. PICK b \in BOOLEAN : wants' = [wants EXCEPT ![c] = b] /\ (b => v # 0)
        BY <2>1, <2>2, AnsweredDoes, Zenon
    <2>4. /\ at' = [at EXCEPT ![c] = "record"]
          /\ row' = [row EXCEPT ![c] = NoRow]
          /\ fetched' = [fetched EXCEPT ![c] = v]
          /\ known' = known /\ latest' = latest /\ top' = top /\ built' = built
        BY <2>1, AnsweredDoes, Zenon
    <2> QED
        BY <2>1, <2>3, <2>4
<1>6. ASSUME NEW c \in Checker, NEW wrong \in BOOLEAN, Recorded(c, wrong),
             known' = known \/ known' = fetched[c]
      PROVE  Data' /\ \A d \in Checker : Wanted(d)'
    <2>1. latest' = latest /\ top' = top /\ built' = built
        BY <1>6, RecordedDoes
    <2>2. CASE Over(c)
        BY <1>6, <2>1, <2>2 DEF Over
    <2>3. CASE /\ wants[c]
               /\ at' = [at EXCEPT ![c] = "build"]
               /\ row' = row /\ fetched' = fetched /\ wants' = wants
        BY <1>6, <2>1, <2>3
    <2> QED
        BY <1>6, <2>2, <2>3, RecordedDoes
<1>7. ASSUME NEW c \in Checker, Build(c)
      PROVE  Data' /\ \A d \in Checker : Wanted(d)'
    <2>1. fetched[c] \in 1..MaxRelease
        BY <1>7, BuildDoes
    <2>2. /\ built' = built \/ built' = built \cup {fetched[c]}
          /\ Over(c)
          /\ known' = known /\ latest' = latest /\ top' = top
        BY <1>7, BuildDoes
    <2>3. built' \subseteq 1..MaxRelease
        BY <2>1, <2>2
    <2> QED
        BY <2>2, <2>3 DEF Over
<1>8. ASSUME NEW c \in Checker, ReadFails(c) \/ FetchFails(c)
      PROVE  Data' /\ \A d \in Checker : Wanted(d)'
    <2>1. /\ latest' = latest /\ top' = top /\ built' = built /\ Over(c)
          /\ known' = known \/ known' = row[c].version
        BY <1>8, GivesUp
    <2>2. row[c].version \in Version
        OBVIOUS
    <2> QED
        BY <2>1, <2>2 DEF Over
<1>9. CASE CrashRestart
    BY <1>9 DEF CrashRestart, rowvars, releases
<1>10. CASE UNCHANGED vars
    BY <1>10 DEF vars, rowvars, releases, locals, builds
<1>11. ASSUME NEW c \in Checker, Record(c) \/ RecordFails(c)
       PROVE  Data' /\ \A d \in Checker : Wanted(d)'
    BY <1>6, <1>11, RecordDoes, RecordFailsDoes, Zenon
<1> QED
    BY <1>1, <1>2, <1>3, <1>4, <1>5, <1>7, <1>8, <1>9, <1>10, <1>11, Zenon
       DEF Next, Check, Trouble, Around

(* The columns of the row, and what the checks carry, always have values of
   their kind.                                                              *)
THEOREM MonitorTypes == Spec => []TypeOK
<1> DEFINE Inv == Flags /\ Data /\ \A c \in Checker : Wanted(c)
<1>1. Init => Inv
    <2>1. Init => Flags
        BY Zenon DEF Init, Flags
    <2>2. Init => Data /\ \A c \in Checker : Wanted(c)
        BY Parameters DEF Init, Data, Version, Release, NoRow, Wanted
    <2> QED
        BY <2>1, <2>2
<1>2. Inv /\ [Next]_vars => Inv'
    BY FlagsStep, DataStep
<1>3. Inv => TypeOK
    BY Halves
<1> QED
    BY <1>1, <1>2, <1>3, PTL DEF Spec

-----------------------------------------------------------------------------
(* Nothing is newer than the newest release. *)
Below ==
    /\ latest <= top
    /\ \A c \in Checker : fetched[c] <= top
    /\ \A v \in built : v <= top

(* What a check relies on at each of its steps while nothing is amiss: the
   version it read is still the one of the row when it compares the two, and
   nothing built is newer than the row.                                     *)
Reliance(c) ==
    /\ at[c] = "fetch" => row[c].version = known
    /\ at[c] = "record" => known <= fetched[c] /\ (wants[c] => known # fetched[c])
    /\ at[c] = "build" => known = fetched[c] /\ \A v \in built : v < fetched[c]

Alone ==
    /\ latest = top /\ known <= top
    /\ \A c, d \in Checker : at[c] # "idle" /\ at[d] # "idle" => c = d
    /\ \A v \in built : v <= known
    /\ \A c \in Checker : Reliance(c)

(* Every step keeps everything at or below the newest release. *)
LEMMA BelowStep ==
    ASSUME Flags, Data, Below, [Next]_vars
    PROVE  Below'
<1> USE Parameters DEF Data, Below, Version, Release
<1>1. CASE Around
    <2>1. latest' <= top' /\ top <= top' /\ top' \in Nat
        BY <1>1, AroundDoes
    <2>2. built' = built /\ fetched' = fetched
        BY <1>1, AroundDoes, Zenon
    <2> QED
        BY <2>1, <2>2
<1>2. CASE Pick \/ (\E c \in Checker : Ask(c) \/ ReadRow(c)) \/ UNCHANGED vars
    <2>1. UNCHANGED <<latest, top, fetched, built>>
        BY <1>2 DEF Pick, Ask, ReadRow, vars, releases, locals, builds
    <2> QED
        BY <2>1
<1>3. ASSUME NEW c \in Checker, Fetch(c) \/ FetchEmpty(c) PROVE Below'
    <2>1. PICK v \in Version : Answered(c, v) /\ v <= top
        BY <1>3 DEF Fetch, FetchEmpty
    <2>2. /\ latest' = latest /\ top' = top /\ built' = built
          /\ fetched' = [fetched EXCEPT ![c] = v]
        BY <2>1, AnsweredDoes
    <2> QED
        BY <2>1, <2>2
<1>4. ASSUME NEW c \in Checker, Build(c) PROVE Below'
    <2>1. /\ latest' = latest /\ top' = top /\ Over(c)
          /\ built' = built \/ built' = built \cup {fetched[c]}
        BY <1>4, BuildDoes
    <2>2. \A d \in Checker : fetched'[d] = fetched[d] \/ fetched'[d] = 0
        BY <2>1 DEF Over
    <2>3. \A d \in Checker : fetched'[d] <= top
        BY <2>2
    <2>4. \A v \in built' : v <= top
        <3>1. fetched[c] <= top /\ \A v \in built : v <= top
            OBVIOUS
        <3> QED
            BY <2>1, <3>1, Zenon
    <2> QED
        BY <2>1, <2>3, <2>4
<1>5. ASSUME NEW c \in Checker,
             ReadFails(c) \/ FetchFails(c) \/ (\E wrong \in BOOLEAN : Recorded(c, wrong))
      PROVE  Below'
    <2>1. /\ latest' = latest /\ top' = top /\ built' = built
          /\ fetched' = fetched \/ fetched' = [fetched EXCEPT ![c] = 0]
        <3>1. CASE ReadFails(c) \/ FetchFails(c)
            BY <3>1, GivesUp, Zenon DEF Over
        <3>2. ASSUME NEW wrong \in BOOLEAN, Recorded(c, wrong)
              PROVE  /\ latest' = latest /\ top' = top /\ built' = built
                     /\ fetched' = fetched \/ fetched' = [fetched EXCEPT ![c] = 0]
            BY <3>2, RecordedDoes DEF Over
        <3> QED
            BY <1>5, <3>1, <3>2, Zenon
    <2> QED
        BY <2>1
<1>6. ASSUME NEW c \in Checker, Record(c) \/ RecordFails(c) PROVE Below'
    BY <1>5, <1>6, RecordDoes, RecordFailsDoes, Zenon
<1>7. CASE CrashRestart
    BY <1>7 DEF CrashRestart, releases
<1> QED
    BY <1>1, <1>2, <1>3, <1>4, <1>5, <1>6, <1>7, Zenon DEF Next, Check, Trouble, Around

(* A check that settles puts everything right again: nobody else is under
   way, and the newest release is on record.                                *)
LEMMA SettledAlone ==
    ASSUME Data, Below', NEW c \in Checker, Settled(c), Over(c), latest' = latest, top' = top
    PROVE  Alone'
<1>1. \A d \in Checker : at'[d] = "idle"
    BY DEF Data, Settled, Over
<1>2. top \in Nat
    BY Parameters DEF Data, Version
<1> QED
    BY <1>1, <1>2 DEF Settled, Below, Alone, Reliance

(* Every step keeps what the checks rely on, or brings it back, unless it
   leaves something amiss.                                                  *)
LEMMA AloneStep ==
    ASSUME Flags, Data, Below, amiss \/ Alone, [Next]_vars, ~amiss'
    PROVE  Alone'
<1> USE Parameters DEF Data, Version, Release, NoRow, Reliance, Alone
<1>1. Below'
    BY BelowStep
<1>2. CASE Around
    <2>1. /\ \/ latest' = latest /\ top' = top
             \/ top' = top + 1 /\ latest' = top'
          /\ amiss' = amiss
        BY <1>2, AroundDoes
    <2>2. /\ known' = known /\ built' = built
          /\ at' = at /\ row' = row /\ fetched' = fetched /\ wants' = wants
        BY <1>2, AroundDoes, Zenon
    <2>3. latest' = top' /\ known <= top'
        BY <2>1
    <2> QED
        BY <2>1, <2>2, <2>3
<1>3. ASSUME NEW c \in Checker, Starts(c), UNCHANGED <<rowvars, releases, row, fetched, wants, builds>>
      PROVE  Alone'
    <2>1. ~amiss /\ \A d \in Checker : at[d] = "idle"
        BY <1>3 DEF Starts
    <2> QED
        BY <1>3, <2>1 DEF Starts, Goto, rowvars, releases, builds
<1>4. ASSUME NEW c \in Checker, ReadRow(c) PROVE Alone'
    BY <1>4 DEF ReadRow, Goto, rowvars, releases, builds
<1>5. ASSUME NEW c \in Checker, Fetch(c) PROVE Alone'
    <2>1. /\ at[c] = "fetch" /\ ~amiss /\ row[c].version = known /\ latest = top
          /\ Answered(c, latest)
        BY <1>5 DEF Fetch
    <2>2. /\ at' = [at EXCEPT ![c] = "record"]
          /\ fetched' = [fetched EXCEPT ![c] = latest]
          /\ wants' = [wants EXCEPT ![c] = NeedsBuild(c, latest)]
          /\ known' = known /\ latest' = latest /\ top' = top /\ built' = built
        BY <2>1, AnsweredDoes
    <2>3. \A d \in Checker : d # c => at'[d] = "idle"
        BY <2>1, <2>2
    <2>4. wants'[c] => known # latest
        <3>1. wants'[c] => NeedsBuild(c, latest)
            BY <2>2, Zenon
        <3> QED
            BY <2>1, <3>1, Zenon DEF NeedsBuild
    <2> QED
        BY <2>1, <2>2, <2>3, <2>4
<1>6. ASSUME NEW c \in Checker, Record(c) PROVE Alone'
    <2>1. at[c] = "record" /\ known' = fetched[c] /\ Recorded(c, amiss) /\ amiss \in BOOLEAN
        BY <1>6, RecordDoes
    <2>2. latest' = latest /\ top' = top /\ built' = built
        BY <2>1, RecordedDoes
    <2>3. CASE Settled(c) /\ Over(c)
        BY <1>1, <2>2, <2>3, SettledAlone
    <2>4. CASE ~amiss /\ Over(c)
        <3>1. \A d \in Checker : at'[d] = "idle"
            BY <2>1, <2>4 DEF Over
        <3>2. latest = top /\ fetched[c] <= top /\ \A v \in built : v <= fetched[c]
            BY <2>1, <2>4 DEF Below
        <3> QED
            BY <2>1, <2>2, <3>1, <3>2
    <2>5. CASE /\ ~amiss /\ wants[c]
               /\ at' = [at EXCEPT ![c] = "build"]
               /\ row' = row /\ fetched' = fetched /\ wants' = wants
        <3>1. \A d \in Checker : d # c => at'[d] = "idle"
            BY <2>1, <2>5
        <3>2. fetched[c] <= top /\ \A v \in built : v < fetched[c]
            BY <2>1, <2>5 DEF Below
        <3> QED
            BY <2>1, <2>2, <2>5, <3>1, <3>2
    <2> QED
        BY <2>1, <2>3, <2>4, <2>5, RecordedDoes
<1>7. ASSUME NEW c \in Checker, RecordFails(c) PROVE Alone'
    <2>1. Settled(c) /\ Over(c) /\ latest' = latest /\ top' = top
        BY <1>7, RecordFailsDoes, RecordedDoes, Zenon
    <2> QED
        BY <1>1, <2>1, SettledAlone
<1>8. ASSUME NEW c \in Checker, Build(c) PROVE Alone'
    <2>1. /\ at[c] = "build" /\ Over(c)
          /\ known' = known /\ latest' = latest /\ top' = top
          /\ built' = built \/ built' = built \cup {fetched[c]}
          /\ ~amiss \/ Settled(c)
        BY <1>8, BuildDoes
    <2>2. CASE Settled(c)
        BY <1>1, <2>1, <2>2, SettledAlone
    <2>3. CASE ~amiss
        <3>1. \A d \in Checker : at'[d] = "idle"
            BY <2>1, <2>3 DEF Over
        <3>2. known = fetched[c] /\ \A v \in built : v <= known
            BY <2>1, <2>3
        <3>3. \A v \in built' : v <= known
            <4>1. fetched[c] <= known
                BY <3>2
            <4> QED
                BY <2>1, <3>2, <4>1, Zenon
        <3> QED
            BY <2>1, <2>3, <3>1, <3>3
    <2> QED
        BY <2>1, <2>2, <2>3
<1>9. ASSUME NEW c \in Checker, ReadFails(c) \/ FetchFails(c) PROVE Alone'
    <2>1. /\ at[c] \in {"check", "fetch"} /\ Over(c) /\ ~amiss
          /\ known' = known
          /\ latest' = latest /\ top' = top /\ built' = built
        BY <1>9, GivesUp
    <2>2. \A d \in Checker : at'[d] = "idle"
        BY <2>1 DEF Over
    <2> QED
        BY <2>1, <2>2
<1>10. CASE CrashRestart
    BY <1>10 DEF CrashRestart, rowvars, releases
<1>11. CASE UNCHANGED vars
    BY <1>11 DEF vars, rowvars, releases, locals, builds
<1>12. ASSUME Pick PROVE Alone'
    BY <1>3, <1>12 DEF Pick, Checker
<1>13. ASSUME NEW c \in Checker, Ask(c) PROVE Alone'
    BY <1>3, <1>13 DEF Ask
<1>14. ASSUME NEW c \in Checker, FetchEmpty(c) PROVE FALSE
    BY <1>14 DEF FetchEmpty
<1> QED
    BY <1>2, <1>4, <1>5, <1>6, <1>7, <1>8, <1>9, <1>10, <1>11, <1>12, <1>13, <1>14, Zenon
       DEF Next, Check, Trouble, Around

MonitorInv ==
    /\ Flags /\ Data /\ Below
    /\ \A c \in Checker : Wanted(c)
    /\ amiss \/ Alone

(* The background loop and the requests of CheckNow never ask for a release
   twice nor for an older one after a newer one while nothing is amiss: the
   version read at the start of a check is still the one of the row when it
   is compared, and all that was built is on record.  What went amiss (an
   overlap, a failed UPDATE, a withdrawn release, an empty version) is put
   right by the next check that ends alone with the newest release on record. *)
THEOREM MonitorBuildsOnlyNew == Spec => []BuildsOnlyNew
<1>1. Init => MonitorInv
    <2>1. Init => Below /\ Alone
        BY DEF Init, Below, Alone, Reliance
    <2>2. Init => Flags
        BY Zenon DEF Init, Flags
    <2>3. Init => Data /\ \A c \in Checker : Wanted(c)
        BY Parameters DEF Init, Data, Version, Release, NoRow, Wanted
    <2> QED
        BY <2>1, <2>2, <2>3 DEF MonitorInv
<1>2. MonitorInv /\ [Next]_vars => MonitorInv'
    <2> SUFFICES ASSUME MonitorInv, [Next]_vars PROVE MonitorInv'
        OBVIOUS
    <2>1. Flags'
        BY FlagsStep DEF MonitorInv
    <2>2. Data' /\ \A c \in Checker : Wanted(c)'
        BY DataStep DEF MonitorInv
    <2>3. Below' /\ (amiss' \/ Alone')
        BY BelowStep, AloneStep DEF MonitorInv
    <2> QED
        BY <2>1, <2>2, <2>3 DEF MonitorInv
<1>3. MonitorInv => BuildsOnlyNew
    BY DEF MonitorInv, Alone, Reliance, BuildsOnlyNew
<1> QED
    BY <1>1, <1>2, <1>3, PTL DEF Spec
=============================================================================
