----------------------------- MODULE RateLimiter -----------------------------
(***************************************************************************)
(* intelligence.keys.RateLimiter: a token bucket of one key.  A thread     *)
(* reads the clock before it takes the lock, so calls reach the bucket     *)
(* with clock readings in any order.  Tokens count in units of 1/Unit.     *)
(***************************************************************************)
EXTENDS Integers, FiniteSetsExt

CONSTANTS
    Threads,
    Burst,          \* burst, in tokens
    Unit,           \* what one request costs
    Rate,           \* what a second adds
    LastSecond,     \* the clock of the model
    None

VARIABLES
    now,
    read,       \* of each thread: the clock reading it is waiting to use, or None
    bucket,     \* <<tokens, last>> or None
    allowed     \* calls allowed so far

\* What the code gives these constants; the instances assume it.
LimiterAssumption ==
    LastSecond \in Nat /\ Burst \in Nat /\ Unit \in Nat /\ Rate \in Nat /\ None \notin Int \X Int

vars == <<now, read, bucket, allowed>>

Tick == now < LastSecond /\ now' = now + 1 /\ UNCHANGED <<read, bucket, allowed>>

\* now = self._clock(), before the lock
ReadClock(t) ==
    /\ read[t] = None /\ read' = [read EXCEPT ![t] = now] /\ UNCHANGED <<now, bucket, allowed>>

\* Mutant of Refilled: the time since the last call counts only when it is positive.
Refilled_Forward(m) ==
    IF bucket = None THEN Burst * Unit
    ELSE Min({Burst * Unit, bucket[1] + (IF m > bucket[2] THEN m - bucket[2] ELSE 0) * Rate})
\* tokens of the bucket at clock reading m
Refilled(m) ==
    IF bucket = None THEN Burst * Unit
    ELSE Min({Burst * Unit, bucket[1] + (m - bucket[2]) * Rate})

\* check, under the lock
check(t) ==
    /\ read[t] # None
    /\ LET m == read[t]  tokens == Refilled(m)
       IN  IF tokens >= Unit
           THEN bucket' = <<tokens - Unit, m>> /\ allowed' = allowed + 1
           ELSE bucket' = <<tokens, m>> /\ UNCHANGED allowed
    /\ read' = [read EXCEPT ![t] = None] /\ UNCHANGED now

Init ==
    /\ now = 0 /\ read = [t \in Threads |-> None] /\ bucket = None
    /\ allowed = 0
Next == Tick \/ \E t \in Threads : ReadClock(t) \/ check(t)
Spec == Init /\ [][Next]_vars

-----------------------------------------------------------------------------
TypeOK ==
    /\ now \in 0..LastSecond /\ read \in [Threads -> 0..LastSecond \cup {None}]
    /\ allowed \in Nat /\ (bucket # None => bucket \in Int \X (0..LastSecond))

\* In the time since the first call no more than the burst and what that time adds is
\* allowed, in whatever order the threads' clock readings reach the bucket.
RateHeld == allowed * Unit <= Burst * Unit + now * Rate
=============================================================================
