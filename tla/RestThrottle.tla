----------------------------- MODULE RestThrottle -----------------------------
(***************************************************************************)
(* dhan_api.DhanAPI: every REST request of the process goes through one    *)
(* throttle.  A request waits inside _rate_lock until its own minimum      *)
(* interval since the last request has passed and Dhan's cooldown is over. *)
(* A 429 answer starts a cooldown and the request is tried again, up to    *)
(* ten times; so is one that times out or meets a server error.            *)
(***************************************************************************)
EXTENDS Integers

CONSTANTS
    Threads,        \* pollers and loaders
    Intervals,      \* the minimum intervals they use
    Longest,        \* of them
    RetryAfter,     \* the cooldowns a 429 may ask for
    Attempts,       \* the ten attempts of _post
    Free            \* nobody holds the lock

\* What the code gives these constants; the instances assume it.
ThrottleAssumption ==
    /\ Intervals \subseteq Nat /\ Longest \in Intervals /\ \A i \in Intervals : i <= Longest
    /\ RetryAfter \subseteq Nat \ {0} /\ Attempts \in Nat \ {0} /\ Free \notin Threads

VARIABLES
    since,      \* time since _last_post_at
    cooldown,   \* time left until _cooldown_until
    lock,       \* holder of _rate_lock
    req         \* each thread's request

vars == <<since, cooldown, lock, req>>

Idle == [pc |-> "idle", min |-> 0, attempt |-> 0, left |-> 0]
Larger(a, b) == IF a >= b THEN a ELSE b

\* a _post with its minimum interval
Call(t) ==
    /\ req[t].pc = "idle"
    /\ \E i \in Intervals : req' = [req EXCEPT ![t] = [Idle EXCEPT !.pc = "throttle", !.min = i]]
    /\ UNCHANGED <<since, cooldown, lock>>

\* _throttle_post: the wait is slept with the lock held
_throttle_post(t) ==
    /\ req[t].pc = "throttle" /\ lock = Free
    /\ lock' = t
    /\ req' = [req EXCEPT ![t].pc = "sleeping", ![t].left = Larger(req[t].min - since, cooldown)]
    /\ UNCHANGED <<since, cooldown>>

Posts(t) ==
    /\ req[t].pc = "sleeping" /\ req[t].left = 0
    /\ since' = 0 /\ lock' = Free
    /\ req' = [req EXCEPT ![t].pc = "posted"]
    /\ UNCHANGED cooldown

\* an answer, or an error that is not tried again
Answered(t) ==
    /\ req[t].pc = "posted"
    /\ req' = [req EXCEPT ![t] = Idle]
    /\ UNCHANGED <<since, cooldown, lock>>

\* the next attempt after a pause, if there is one
Again(r, pause) ==
    IF r.attempt < Attempts - 1
    THEN [r EXCEPT !.pc = "backoff", !.attempt = r.attempt + 1, !.left = pause] ELSE Idle

\* a server error, a timeout or a lost connection: again after 1, 2, 4 and then 8 seconds
Backoff(a) == CASE a = 0 -> 1 [] a = 1 -> 2 [] a = 2 -> 4 [] OTHER -> 8
Failed(t) ==
    /\ req[t].pc = "posted"
    /\ req' = [req EXCEPT ![t] = Again(req[t], Backoff(req[t].attempt))]
    /\ UNCHANGED <<since, cooldown, lock>>

\* HTTP 429: _set_rate_cooldown, which needs the lock
Limited(t) ==
    /\ req[t].pc = "posted"
    /\ \E s \in RetryAfter : req' = [req EXCEPT ![t].pc = "limited", ![t].left = s]
    /\ UNCHANGED <<since, cooldown, lock>>

\* Mutant of _set_rate_cooldown: the cooldown is set without the lock.
_set_rate_cooldown_Unlocked(t) ==
    /\ req[t].pc = "limited"
    /\ cooldown' = Larger(cooldown, req[t].left)
    /\ req' = [req EXCEPT ![t] = Again(req[t], req[t].left)]
    /\ UNCHANGED <<since, lock>>

_set_rate_cooldown(t) ==
    /\ req[t].pc = "limited" /\ lock = Free
    /\ cooldown' = Larger(cooldown, req[t].left)
    /\ req' = [req EXCEPT ![t] = Again(req[t], req[t].left)]
    /\ UNCHANGED <<since, lock>>

\* the sleep of an attempt is over
Retries(t) ==
    /\ req[t].pc = "backoff" /\ req[t].left = 0
    /\ req' = [req EXCEPT ![t].pc = "throttle"]
    /\ UNCHANGED <<since, cooldown, lock>>

Less(n) == IF n = 0 THEN 0 ELSE n - 1
Tick ==
    /\ since' = IF since < Longest THEN since + 1 ELSE since
    /\ cooldown' = Less(cooldown)
    /\ req' = [t \in Threads |-> IF req[t].pc \in {"sleeping", "backoff"}
                                 THEN [req[t] EXCEPT !.left = Less(@)] ELSE req[t]]
    /\ UNCHANGED lock

Init == since = Longest /\ cooldown = 0 /\ lock = Free /\ req = [t \in Threads |-> Idle]

Request(t) ==
    \/ Call(t) \/ _throttle_post(t) \/ Posts(t) \/ Answered(t) \/ Failed(t) \/ Limited(t)
    \/ _set_rate_cooldown(t) \/ Retries(t)
Next == Tick \/ \E t \in Threads : Request(t)

Spec == Init /\ [][Next]_vars

-----------------------------------------------------------------------------
TypeOK ==
    /\ since \in 0..Longest /\ cooldown \in Nat /\ lock \in Threads \cup {Free}
    /\ \A t \in Threads :
           /\ req[t].pc \in {"idle", "throttle", "sleeping", "posted", "backoff", "limited"}
           /\ req[t].min \in Intervals \cup {0} /\ req[t].attempt \in 0..(Attempts - 1)
           /\ req[t].left \in Nat

\* Whatever other requests were answered, refused or retried while it waited, a request
\* leaves only when its interval since the last one has passed and no cooldown that any
\* thread has set is running (DhanAPI._throttle_post, _set_rate_cooldown).
PostsSpaced ==
    [][\A t \in Threads : req[t].pc = "sleeping" /\ req'[t].pc = "posted"
                              => since >= req[t].min /\ cooldown = 0]_vars
=============================================================================
