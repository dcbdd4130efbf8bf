------------------------------- MODULE Waitlist -------------------------------
(***************************************************************************)
(* The public waiting list (services/waitlist.py, api/routes/waitlist.py)  *)
(* and the limiters in front of it and of the discovery of accounts        *)
(* (services/waitlist_rate_limit.py, services/auth_rate_limit.py).         *)
(*                                                                         *)
(* A limiter is one object of the one API process and never awaits while   *)
(* it holds its lock, so a check is one step.  Two of its rules count the  *)
(* attempts of a client, over a minute and over an hour, the third those   *)
(* for an address.  A referral code stands for the entry it was given to.  *)
(***************************************************************************)
EXTENDS Naturals, Sequences, FiniteSetsExt

CONSTANTS
  Clients, Signups,  \* network addresses, and the e-mail addresses that are entered
  Requests,          \* requests in progress
  Minute, Hour,      \* windows of the rules, in ticks of the clock
  PerMinute, PerHour, PerAddress,  \* settings.waitlist_*_limit_*, settings.auth_eligibility_*
  LastTick,          \* bound on the clock
  NoSignup

\* The windows are a minute and an hour; of a limit the code takes max(1, limit).
ASSUME WaitlistAssumption ==
  /\ LastTick \in Nat /\ Minute \in Nat \ {0} /\ Hour \in Nat \ {0}
  /\ PerMinute \in Nat \ {0} /\ PerHour \in Nat \ {0} /\ PerAddress \in Nat \ {0}

VARIABLES
  endpoint,  \* the one looked at, "join" or "eligibility": they share no limiter
  tick,      \* monotonic()
  attempts,  \* per rule and key: the times it has counted
  admitted,  \* per rule and key: the times of all that was let through, however old
  queue,     \* waitlist_entries in the order they were committed, each with its referrer
  request    \* a join: the address, and the referrer it has found

waitlistVars == <<endpoint, tick, attempts, admitted, queue, request>>

Rules   == {"minute", "hour", "address"}
Keys    == Clients \cup Signups
Queued  == {queue[i].email : i \in DOMAIN queue}
Quiet   == [at |-> "idle", email |-> NoSignup, by |-> NoSignup]

RuleLimit(rule) ==
  CASE rule = "minute" -> PerMinute [] rule = "hour" -> PerHour [] rule = "address" -> PerAddress

-----------------------------------------------------------------------------
(***************************************************************************)
(* Faults.  Each operator is the definition of the same shape below with   *)
(* one plausible slip in it; no action uses them.                          *)
(***************************************************************************)

\* The limit of a rule is the last attempt it still lets through.
OneMore(rule, counted) == Len(counted) <= RuleLimit(rule)

-----------------------------------------------------------------------------
(***************************************************************************)
(* WaitlistRateLimiter.check, AuthEligibilityRateLimiter.check             *)
(***************************************************************************)
Window(rule) == IF rule = "minute" THEN Minute ELSE Hour

KeyOf(rule, client, email) == IF rule = "address" THEN email ELSE client

\* Attempts at or before the cutoff are forgotten; the first that is younger stops it.
Counted(times, rule) ==
  LET young == {i \in DOMAIN times : times[i] + Window(rule) > tick}
  IN  IF young = {} THEN <<>> ELSE SubSeq(times, Min(young), Len(times))

Leaves(rule, counted) == Len(counted) < RuleLimit(rule)

Allows(client, email) ==
  \A rule \in Rules :
    Leaves(rule, Counted(attempts[rule][KeyOf(rule, client, email)], rule))

\* Every rule has forgotten what is old; all of them count the attempt, or none.
Count(client, email) ==
  attempts' = [rule \in Rules |-> [attempts[rule] EXCEPT ![KeyOf(rule, client, email)] =
                                    Append(Counted(@, rule), tick)]]

-----------------------------------------------------------------------------
WaitlistInit ==
  /\ endpoint \in {"join", "eligibility"}
  /\ tick = 0
  /\ attempts = [rule \in Rules |-> [k \in Keys |-> <<>>]]
  /\ admitted = attempts
  /\ queue = <<>>
  /\ request = [r \in Requests |-> Quiet]

Tick ==
  /\ tick < LastTick /\ tick' = tick + 1
  /\ UNCHANGED <<endpoint, attempts, admitted, queue, request>>

\* An attempt is let through; one that is refused counts for nothing.
Admit(client, email) ==
  /\ Allows(client, email)
  /\ Count(client, email)
  /\ admitted' = [rule \in Rules |-> [admitted[rule] EXCEPT ![KeyOf(rule, client, email)] =
                                     Append(@, tick)]]

\* auth_eligibility: the check is all that it changes.
CheckEligibility(client, email) ==
  /\ endpoint = "eligibility"
  /\ Admit(client, email)
  /\ UNCHANGED <<endpoint, tick, queue, request>>

\* join_waitlist, when the address is queued already ...
JoinAgain(client, email) ==
  /\ endpoint = "join" /\ email \in Queued
  /\ Admit(client, email)
  /\ UNCHANGED <<endpoint, tick, queue, request>>

\* ... and up to the referrer when it is not.
BeginJoin(r, client, email, code) ==
  /\ endpoint = "join" /\ request[r].at = "idle" /\ email \notin Queued
  /\ Admit(client, email)
  /\ request' = [request EXCEPT ![r] =
       [at |-> "found", email |-> email, by |-> IF code \in Queued THEN code ELSE NoSignup]]
  /\ UNCHANGED <<endpoint, tick, queue>>

\* The savepoint and the commit.
CommitJoin(r) ==
  /\ request[r].at = "found" /\ request[r].email \notin Queued
  /\ queue' = Append(queue, [email |-> request[r].email, by |-> request[r].by])
  /\ request' = [request EXCEPT ![r] = Quiet]
  /\ UNCHANGED <<endpoint, tick, attempts, admitted>>

\* The address was queued in the meantime, or no code could be found for it.
GiveUpJoin(r) ==
  /\ request[r].at = "found"
  /\ request' = [request EXCEPT ![r] = Quiet]
  /\ UNCHANGED <<endpoint, tick, attempts, admitted, queue>>

WaitlistNext ==
  \/ Tick
  \/ \E client \in Clients, email \in Signups :
       \/ CheckEligibility(client, email) \/ JoinAgain(client, email)
       \/ \E r \in Requests, code \in Signups \cup {NoSignup} : BeginJoin(r, client, email, code)
  \/ \E r \in Requests : CommitJoin(r) \/ GiveUpJoin(r)

-----------------------------------------------------------------------------
\* The clock, the counters, the queue and the requests.
WaitlistTypeOK ==
  /\ endpoint \in {"join", "eligibility"} /\ tick \in 0..LastTick
  /\ attempts \in [Rules -> [Keys -> Seq(0..LastTick)]]
  /\ admitted \in [Rules -> [Keys -> Seq(0..LastTick)]]
  /\ queue \in Seq([email : Signups, by : Signups \cup {NoSignup}])
  /\ request \in [Requests -> [at : {"idle", "found"}, email : Signups \cup {NoSignup},
                              by : Signups \cup {NoSignup}]]

\* In no window of a rule is more let through for a key than it allows, whichever rules
\*   refused what was asked in between: the attempt that is a limit later is a window later.
LimitsHold ==
  \A rule \in Rules, k \in Keys : \A i \in DOMAIN admitted[rule][k] :
    i > RuleLimit(rule) =>
      admitted[rule][k][i - RuleLimit(rule)] + Window(rule) <= admitted[rule][k][i]

\* An address is queued once, however many requests for it overlap, and by one that was
\*   queued before it: nobody has referred himself, directly or through others.
QueuedInOrder ==
  \A i \in DOMAIN queue :
    /\ \A j \in DOMAIN queue : queue[i].email = queue[j].email => i = j
    /\ queue[i].by # NoSignup => \E j \in 1..(i - 1) : queue[j].email = queue[i].by

\* The limiters of both endpoints, and join_waitlist behind one of them.
WaitlistIsFair == LimitsHold /\ QueuedInOrder
==============================================================================
