----------------------------- MODULE HistoryClient ----------------------------
(*****************************************************************************)
(* The requests of the history bootstrap (intelligence/history_bootstrap.py):*)
(* worker threads share one limiter, which hands out send times an interval  *)
(* apart and is pushed back by every "too many requests"; each request is    *)
(* tried a few times, and refused credentials end the run.  Sleeps may end   *)
(* late.                                                                     *)
(*****************************************************************************)
EXTENDS Integers, FiniteSets

CONSTANTS
    Workers,
    Total,          \* bound: requests of the run
    Interval,       \* 1 / rate
    MaxAttempts,    \* MAX_ATTEMPTS
    RetryAfter,     \* the waits a 429 may ask for (_retry_after)
    Pauses,         \* a thread's own pauses after a failed attempt, 1 to 30 s
    LastTime,       \* bound: the clock
    None

VARIABLES
    now,
    next_at,    \* the limiter's next send time, _next
    worker,     \* per thread: what it does, until when, in which attempt
    left,       \* requests no thread has taken
    run,        \* "start", "download", "blocked"
    posts,      \* history: requests sent
    cooled,     \* history: the end of the last cooldown
    early       \* history: the threads whose send time was given before it began

\* The rate and the waits a server asks for are whole units of time, and not negative.
TimesAssumption ==
    /\ Interval \in Nat /\ RetryAfter \subseteq Nat /\ Pauses \subseteq Nat /\ MaxAttempts \in Nat \ {0}
    /\ Total \in Nat /\ LastTime \in Nat /\ IsFiniteSet(Workers)

vars == <<now, next_at, worker, left, run, posts, cooled, early>>

Idle == [pc |-> "idle", at |-> 0, attempt |-> 0]
Init ==
    /\ now = 0 /\ next_at = 0 /\ left = Total /\ run = "start" /\ posts = 0 /\ cooled = 0 /\ early = {}
    /\ worker = [k \in Workers |-> Idle]

\* credentials(): the token of the environment, or one generated from PIN and TOTP, which
\* only the operator may allow; preflight(): an active data plan, without using a send time.
Credentials == {"token", "totp", "none"}
credentials(env, allow_generate) == env = "token" \/ (env = "totp" /\ allow_generate)
preflight(env, allow_generate, plan) ==
    /\ run = "start"
    /\ run' = IF credentials(env, allow_generate) /\ plan = "active" THEN "download" ELSE "blocked"
    /\ UNCHANGED <<now, next_at, worker, left, posts, cooled, early>>

\* acquire(): the next send time, whoever asks; an attempt that follows another asks again.
Later(a, b) == IF a < b THEN b ELSE a
Slot == Later(now, next_at)
acquire(k) ==
    /\ \/ run = "download" /\ worker[k].pc = "idle" /\ left > 0 /\ left' = left - 1
       \/ worker[k].pc = "again" /\ now >= worker[k].at /\ UNCHANGED left
    /\ worker' = [worker EXCEPT ![k].pc = "slot", ![k].at = Slot]
    /\ next_at' = Slot + Interval /\ early' = early \ {k}
    /\ UNCHANGED <<now, run, posts, cooled>>
Send(k) ==
    /\ worker[k].pc = "slot" /\ now >= worker[k].at
    /\ worker' = [worker EXCEPT ![k].pc = "sent", ![k].attempt = @ + 1]
    /\ posts' = posts + 1
    /\ UNCHANGED <<now, next_at, left, run, cooled, early>>

\* post(): a body, no data or an error of the request end it.
Answered(k) ==
    /\ worker[k].pc = "sent" /\ worker' = [worker EXCEPT ![k] = Idle]
    /\ UNCHANGED <<now, next_at, left, run, posts, cooled, early>>
Again(k, at) == IF worker[k].attempt = MaxAttempts THEN Idle
                ELSE [pc |-> "again", at |-> at, attempt |-> worker[k].attempt]
\* A timeout, a server error: after a pause of its own.
Failed(k, pause) ==
    /\ worker[k].pc = "sent"
    /\ worker' = [worker EXCEPT ![k] = Again(k, now + pause)]
    /\ UNCHANGED <<now, next_at, left, run, posts, cooled, early>>
cool_down(seconds) == Later(next_at, now + seconds)
RateLimited(k, seconds) ==
    /\ worker[k].pc = "sent"
    /\ next_at' = cool_down(seconds) /\ cooled' = Later(cooled, now + seconds)
    /\ worker' = [worker EXCEPT ![k] = Again(k, now)]
    /\ early' = early \cup {j \in Workers : worker[j].pc = "slot"}
    /\ UNCHANGED <<now, left, run, posts>>
\* Refused credentials: no other request is taken; what a thread has begun it goes on trying.
Unauthorised(k) ==
    /\ worker[k].pc = "sent" /\ worker' = [worker EXCEPT ![k] = Idle] /\ run' = "blocked"
    /\ UNCHANGED <<now, next_at, left, posts, cooled, early>>

Tick == now < LastTime /\ now' = now + 1 /\ UNCHANGED <<next_at, worker, left, run, posts, cooled, early>>

Next ==
    \/ Tick
    \/ \E env \in Credentials, allow_generate \in BOOLEAN, plan \in {"active", "other"} : preflight(env, allow_generate, plan)
    \/ \E k \in Workers : \/ acquire(k) \/ Send(k) \/ Answered(k) \/ Unauthorised(k)
                          \/ \E pause \in Pauses : Failed(k, pause)
                          \/ \E seconds \in RetryAfter : RateLimited(k, seconds)
Spec == Init /\ [][Next]_vars

-----------------------------------------------------------------------------
TypeOK ==
    /\ now \in 0..LastTime /\ left \in 0..Total /\ run \in {"start", "download", "blocked"}
    /\ \A k \in Workers : worker[k].pc \in {"idle", "slot", "sent", "again"} /\ worker[k].attempt \in 0..MaxAttempts

\* "At most rate requests per second across all workers": whatever the threads retry and
\* however late they wake, the requests sent by a moment fit the rate since the start.
RateKept == Interval * (posts - 1) <= now

\* The cooldown is shared: a request whose send time was given after a 429 is not sent
\* before that cooldown, or a longer one before it, is over.
CooldownShared ==
    \A k \in Workers : worker[k].pc = "slot" /\ k \notin early => worker[k].at >= cooled

=============================================================================
