----------------------------- MODULE LoginGuard -----------------------------
(***************************************************************************)
(* What stands before the password check: RateLimiter, ChallengeService    *)
(* and the handlers Challenge and Login that use them.  The limiter and    *)
(* the table of used payloads have a mutex each; a request takes them one  *)
(* after the other, so that requests overlap between any two of its steps. *)
(* A payload is the text that a client sends: base64 of JSON, in which the *)
(* same solution can be written down in many ways.                         *)
(*                                                                         *)
(* Time passes in ticks of half a second, and only ages are kept.  An age  *)
(* stops growing when nothing in the code tells it from a greater one.     *)
(***************************************************************************)
EXTENDS Integers, FiniteSets

CONSTANTS
    Client,        \* addresses
    Request,       \* logins in progress
    Solution,      \* solved challenges
    Payload,       \* texts that clients send
    Decode,        \* the solution that VerifySolution reads in each of them
    Threshold,     \* failures that block an address (5 in the code)
    Block,         \* ticks of a block (15 minutes)
    EntryTTL,      \* ticks that failures are remembered (30 minutes)
    ChallengeTTL,  \* ticks that a challenge is valid (5 minutes)
    Slack,         \* ticks a solution is remembered beyond that (1 minute)
    Bad,           \* a solution of no challenge of this server, or none at all
    Empty,         \* no payload
    Nobody         \* no address

ASSUME Times ==
    /\ Threshold \in Nat \ {0} /\ Block \in Nat \ {0}
    /\ EntryTTL \in Nat /\ EntryTTL >= Block
    /\ ChallengeTTL \in Nat /\ Slack \in Nat
    /\ Bad \notin Solution /\ Nobody \notin Client /\ IsFiniteSet(Request)
    /\ Empty \notin Payload /\ Decode \in [Payload -> Solution \cup {Bad}]

VARIABLES
    failures,   \* entries[ip].failures, 0 without an entry
    since,      \* age of entries[ip].lastFail
    challenge,  \* age of the challenge of each solution, Never before it is made
    used,       \* age of used[payload], Never if it is not there
    req,        \* where each login is
    told,       \* history: ticks left of what the address was told to wait,
                \* Never if it was told nothing since its last failure
    accepted    \* history: how often this process accepted each payload

limiter == <<failures, since, told>>
service == <<challenge, used, accepted>>
gvars == <<limiter, service, req>>

Never == -1

Older(age, last) == IF age = Never \/ age > last THEN age ELSE age + 1

NoLogin == [at |-> "idle", client |-> Nobody, payload |-> Empty, held |-> 0]

(* The memory of the process is gone. *)
NothingKnown ==
    /\ failures' = [c \in Client |-> 0] /\ since' = [c \in Client |-> 0]
    /\ told' = [c \in Client |-> Never]
    /\ used' = [p \in Payload |-> Never] /\ accepted' = [p \in Payload |-> 0]
    /\ req' = [r \in Request |-> NoLogin]

GInit ==
    /\ failures = [c \in Client |-> 0] /\ since = [c \in Client |-> 0]
    /\ told = [c \in Client |-> Never]
    /\ used = [p \in Payload |-> Never] /\ accepted = [p \in Payload |-> 0]
    /\ challenge = [s \in Solution |-> Never]
    /\ req = [r \in Request |-> NoLogin]

-----------------------------------------------------------------------------
(* RateLimiter *)

Backoff(n) == 2 * 2^(n - 1)

(* Failures are remembered for longer than they delay the next attempt. *)
ASSUME BackoffRemembered == \A n \in 1..(Threshold - 1) : Backoff(n) <= EntryTTL

(* Ticks until the address is let in again. *)
Remaining(c) ==
    LET span == IF failures[c] = 0 THEN 0
                ELSE IF failures[c] >= Threshold THEN Block ELSE Backoff(failures[c])
    IN  IF since[c] < span THEN span - since[c] ELSE 0

Blocked(c) == failures[c] >= Threshold /\ Remaining(c) > 0

Seconds_Down(ticks) == ticks \div 2   \* Mutant: the rest is truncated

Seconds(ticks) == (ticks + 1) \div 2   \* math.Ceil

(* Check lets the address in and forgets a block that is over ... *)
LetIn(c) ==
    /\ failures' = IF failures[c] >= Threshold THEN [failures EXCEPT ![c] = 0] ELSE failures
    /\ since' = IF failures[c] >= Threshold THEN [since EXCEPT ![c] = 0] ELSE since
    /\ UNCHANGED told

(* ... or tells it to wait.  The earliest time that it was told counts. *)
Refuse(c) ==
    /\ Seconds(Remaining(c)) > 0 \/ Blocked(c)
    /\ LET ticks == 2 * Seconds(Remaining(c))
       IN  told' = [told EXCEPT ![c] = IF @ = Never \/ ticks < @ THEN ticks ELSE @]
    /\ UNCHANGED <<failures, since, service, req>>

RecordFailure(c) ==
    /\ failures' = [failures EXCEPT ![c] = @ + 1]
    /\ since' = [since EXCEPT ![c] = 0]
    /\ told' = [told EXCEPT ![c] = Never]

Forget(c) == failures[c] # 0 /\ since[c] > EntryTTL

CleanEntries ==
    /\ \E c \in Client : Forget(c)
    /\ failures' = [c \in Client |-> IF Forget(c) THEN 0 ELSE failures[c]]
    /\ since' = [c \in Client |-> IF Forget(c) THEN 0 ELSE since[c]]
    /\ UNCHANGED <<told, service, req>>

-----------------------------------------------------------------------------
(* ChallengeService and the handlers *)

Texts(s) == {p \in Payload : Decode[p] = s}

(* A challenge is made and solved.  Names of solutions are used again when
   nothing can be done any more with the old one.                           *)
Challenge(c, s) ==
    /\ ~Blocked(c) /\ LetIn(c)
    /\ challenge[s] = Never \/ challenge[s] > ChallengeTTL
    /\ \A p \in Texts(s) : used[p] = Never /\ \A r \in Request : req[r].payload # p
    /\ challenge' = [challenge EXCEPT ![s] = 0]
    /\ accepted' = [p \in Payload |-> IF p \in Texts(s) THEN 0 ELSE accepted[p]]
    /\ UNCHANGED <<used, req>>

Login_WhenBlocked(r, c, p) ==   \* Mutant: only the back-off is looked at
    /\ req[r].at = "idle"
    /\ Seconds(Remaining(c)) = 0 \/ Blocked(c)
    /\ req' = [req EXCEPT ![r] = [NoLogin EXCEPT !.at = "passed", !.client = c, !.payload = p]]
    /\ UNCHANGED <<limiter, service>>

(* A login with the payload p, or a body that is refused as it stands. *)
Login(r, c, p) ==
    /\ req[r].at = "idle"
    /\ Seconds(Remaining(c)) = 0 /\ ~Blocked(c) /\ LetIn(c)
    /\ \/ req' = [req EXCEPT ![r] = [NoLogin EXCEPT !.at = "passed", !.client = c, !.payload = p]]
       \/ UNCHANGED req
    /\ UNCHANGED service

Answer(r) == req' = [req EXCEPT ![r] = NoLogin]

Fail(r) == RecordFailure(req[r].client) /\ Answer(r) /\ UNCHANGED service

(* altcha.VerifySolution: the signature and the time. *)
Genuine(s) == s # Bad /\ challenge[s] \in 0..ChallengeTTL

Solve(r) ==
    /\ req[r].at = "passed"
    /\ IF Genuine(Decode[req[r].payload])
         THEN /\ req' = [req EXCEPT ![r].at = "solved"]
              /\ UNCHANGED <<limiter, service>>
         ELSE Fail(r)

(* Under usedMu: a text that is known is refused. *)
Use(r) ==
    /\ req[r].at = "solved"
    /\ LET p == req[r].payload
       IN  IF used[p] # Never
             THEN Fail(r)
             ELSE /\ used' = [used EXCEPT ![p] = 0]
                  /\ accepted' = [accepted EXCEPT ![p] = @ + 1]
                  /\ req' = [req EXCEPT ![r].at = "verified", ![r].held = 0]
                  /\ UNCHANGED <<limiter, challenge>>

(* The password is wrong; or right, and then a token is made: Reset, unless
   that fails, which is an error but no failure of the address.             *)
Password(r) ==
    /\ req[r].at = "verified"
    /\ \/ Fail(r)
       \/ /\ failures' = [failures EXCEPT ![req[r].client] = 0]
          /\ since' = [since EXCEPT ![req[r].client] = 0]
          /\ Answer(r)
          /\ UNCHANGED <<told, service>>
       \/ Answer(r) /\ UNCHANGED <<limiter, service>>

CleanUsed_WithChallenge ==   \* Mutant: payloads are forgotten after challengeTTL
    /\ \E p \in Payload : used[p] > ChallengeTTL
    /\ used' = [p \in Payload |-> IF used[p] > ChallengeTTL THEN Never ELSE used[p]]
    /\ UNCHANGED <<limiter, challenge, accepted, req>>

CleanUsed ==
    /\ \E p \in Payload : used[p] > ChallengeTTL + Slack
    /\ used' = [p \in Payload |-> IF used[p] > ChallengeTTL + Slack THEN Never ELSE used[p]]
    /\ UNCHANGED <<limiter, challenge, accepted, req>>

(* Half a second.  Between VerifySolution and usedMu a login loses less time
   than a payload is remembered for longer than its challenge is valid.     *)
Tick ==
    /\ \A r \in Request : req[r].at = "solved" => req[r].held < Slack
    /\ since' = [c \in Client |-> IF failures[c] = 0 THEN 0 ELSE Older(since[c], EntryTTL)]
    /\ told' = [c \in Client |-> IF told[c] > 0 THEN told[c] - 1 ELSE told[c]]
    /\ challenge' = [s \in Solution |-> Older(challenge[s], ChallengeTTL)]
    /\ used' = [p \in Payload |-> Older(used[p], ChallengeTTL + Slack)]
    /\ req' = [r \in Request |->
          IF req[r].at = "solved" THEN [req[r] EXCEPT !.held = @ + 1] ELSE req[r]]
    /\ UNCHANGED <<failures, accepted>>

-----------------------------------------------------------------------------
(* Properties *)

(* Requests that passed the check together may all fail: an address has at
   most that many failures beyond those that block it.                      *)
GTypeOK ==
    /\ failures \in [Client -> 0..(Threshold + Cardinality(Request) - 1)]
    /\ since \in [Client -> 0..(EntryTTL + 1)]
    /\ challenge \in [Solution -> Never..(ChallengeTTL + 1)]
    /\ used \in [Payload -> Never..(ChallengeTTL + Slack + 1)]
    /\ req \in [Request -> [at : {"idle", "passed", "solved", "verified"},
                            client : Client \cup {Nobody},
                            payload : Payload \cup {Empty}, held : 0..Slack]]
    /\ \A c \in Client : told[c] \in Int /\ told[c] >= Never
    /\ accepted \in [Payload -> Nat]

(* "please wait %d seconds before trying again": an address that was told to
   wait is let in when that time is over, unless it failed again; trying
   again meanwhile changes nothing.                                         *)
WaitIsEnough ==
    \A c \in Client : told[c] = 0 => Seconds(Remaining(c)) = 0 /\ ~Blocked(c)

(* "reject if this payload was already used": a process accepts a payload
   once, although it forgets payloads and checks the time of their challenge
   before it looks whether they are known.                                  *)
PayloadOnce == \A p \in Payload : accepted[p] <= 1
=============================================================================
