----------------------------- MODULE DhanTokens -----------------------------
(***************************************************************************)
(* The one Dhan access token of the account: the process that generates it *)
(* (dhan_auth, config.refresh_access_token), the callers that refresh it   *)
(* after a rejected request (auth_retry.AuthRetryGuard), the session loop  *)
(* that renews it ahead of the open (SessionManager._keep_token_ready) and *)
(* the session's own way round the coordinated refresh                     *)
(* (SessionManager._refresh_auth_once), and the nodes that fetch the token over the private network             *)
(* (token_share, live_core.auth.TokenSource).                              *)
(*                                                                         *)
(* Dhan accepts one token of the account at a time: a new generation makes *)
(* every other dead, and so does its expiry.  A token is an id; one nobody *)
(* holds may be handed out again.  Time is counted in units; an age is     *)
(* capped where no comparison tells more.                                  *)
(***************************************************************************)
EXTENDS Integers, FiniteSets

CONSTANTS
    Callers,        \* threads that refresh through dhan_auth, each with its own cooldown
    Keeper,         \* of them the session loop; the others are AuthRetryGuards
    Loaders,        \* threads that refresh through _refresh_auth_once
    NodeThreads,    \* of a node: "poll", "guard"
    Nodes,          \* Live Core nodes that follow the authority
    None,           \* Python's None
    Ids,            \* bound: tokens that can be held at the same time
    Grace,          \* _AUTH_SUCCESS_GRACE_SECONDS
    SessionGap,     \* the 60 seconds of _refresh_auth_once and TOKEN_RETRY_SECONDS
    RateLimit,      \* seconds between generations Dhan allows, and retry_after
    Timeout,        \* of a request for a token
    MaxFaults       \* bound: expiries, lost answers and restarts

\* What the code gives these constants; the instances assume it.
TokenAssumption ==
    /\ Grace \in Nat \ {0} /\ SessionGap \in Nat /\ RateLimit \in Nat /\ MaxFaults \in Nat
    /\ Grace <= SessionGap /\ SessionGap <= RateLimit
    /\ Timeout \in Nat /\ Timeout < RateLimit
    /\ Callers \cap Loaders = {}

Threads == Callers \cup Loaders

\* a node asks for the token from two threads: the one that polls for a renewal and
\* replaces the sockets, and a guard whose request was rejected
Requests == Nodes \X NodeThreads

VARIABLES
    live, genAge, \* at Dhan: the token it accepts, and the time since the last generation
    tok,        \* settings.access_token of the authority
    cool, okAge,  \* time left of _AUTH_REFRESH_COOLDOWN_UNTIL, age of _AUTH_LAST_SUCCESS_AT
    lock,       \* holder of _AUTH_REFRESH_LOCK
    gcool,      \* time left of each guard's _retry_at, of the loop's _token_retry_at
    slock, sAge,  \* _auth_refresh_lock and age of _last_auth_refresh_epoch
    pc, got,    \* each thread, and the token an answer brings it
    busy,       \* time since its request was rejected
    seen,       \* sAge as a loader read it before it waited for the lock
    ntok, npc, ngot, \* each node: settings.access_token, its requests, their answers
    sock,       \* the token each node's sockets were opened with
    faults

account == <<live, genAge, faults>>
authority == <<tok, cool, okAge, lock, gcool, slock, sAge>>
threads == <<pc, got, busy, seen>>
nodes == <<ntok, npc, ngot, sock>>
vars == <<account, authority, threads, nodes>>

Least(a, b) == IF a <= b THEN a ELSE b
Less(a) == IF a = 0 THEN 0 ELSE a - 1

-----------------------------------------------------------------------------
(* Dhan: external *)

Held == {live, tok} \cup {got[t] : t \in Threads} \cup {ntok[n] : n \in Nodes}
            \cup {ngot[k] : k \in Requests} \cup {sock[n] : n \in Nodes}
NewToken == CHOOSE i \in Ids : i \notin Held

Expires ==
    /\ live # None /\ faults < MaxFaults
    /\ faults' = faults + 1 /\ live' = None
    /\ UNCHANGED <<genAge, authority, threads, nodes>>

-----------------------------------------------------------------------------
(* A call through the guard: auth_retry.AuthRetryGuard.call *)

Move(t, p) == /\ pc' = [pc EXCEPT ![t] = p]
              /\ busy' = [busy EXCEPT ![t] = IF p = "idle" THEN 0 ELSE @]
Cools(t, d) == gcool' = [gcool EXCEPT ![t] = d]

\* the operation, with a token Dhan does not accept, is an authentication failure;
\* while its guard cools down a caller does not get so far
Refused(t) ==
    /\ t \in Callers \ {Keeper} /\ pc[t] = "idle" /\ gcool[t] = 0
    /\ tok # live \/ tok = None
    /\ Move(t, "refused")
    /\ UNCHANGED <<account, authority, got, seen, nodes>>

\* outside market hours the loop replaces a missing token, and before the open one that
\* would expire before the close: it is still accepted when it is replaced
_keep_token_ready ==
    /\ Keeper \in Callers /\ pc[Keeper] = "idle" /\ gcool[Keeper] = 0
    /\ \/ tok = None /\ UNCHANGED faults
       \/ tok # None /\ faults < MaxFaults /\ faults' = faults + 1
    /\ Move(Keeper, "refused")
    /\ UNCHANGED <<live, genAge, authority, got, seen, nodes>>

-----------------------------------------------------------------------------
(* dhan_auth.refresh_access_token with force *)

\* under _AUTH_REFRESH_LOCK: cooling down, just refreshed by another caller, or asked
Coordinated(t) ==
    /\ t \in Callers /\ pc[t] = "refused" /\ lock = None
    /\ \/ /\ cool > 0
          /\ Move(t, "idle") /\ Cools(t, cool) /\ UNCHANGED lock
       \/ /\ cool = 0 /\ okAge < Grace /\ tok # None
          /\ Move(t, "idle") /\ Cools(t, 0) /\ UNCHANGED lock
       \/ /\ cool = 0 /\ ~(okAge < Grace /\ tok # None)
          /\ Move(t, "asking") /\ lock' = t /\ UNCHANGED gcool
    /\ UNCHANGED <<account, tok, cool, okAge, slock, sAge, got, seen, nodes>>

\* Dhan grants a token to whoever asks when the last is old enough
Granted(t) ==
    /\ pc[t] = "asking" /\ genAge >= RateLimit
    /\ Move(t, "granted")
    /\ live' = NewToken /\ got' = [got EXCEPT ![t] = NewToken] /\ genAge' = 0
    /\ UNCHANGED <<faults, authority, seen, nodes>>

\* the token is installed for the whole process, and the operation runs once more
Installs(t) ==
    /\ t \in Callers /\ pc[t] = "granted"
    /\ tok' = got[t] /\ got' = [got EXCEPT ![t] = None]
    /\ okAge' = 0 /\ Cools(t, 0) /\ lock' = None
    /\ Move(t, "idle")
    /\ UNCHANGED <<account, cool, slock, sAge, seen, nodes>>

\* DhanTokenRateLimited: the process and the guard cool down
Limited(t) ==
    /\ t \in Callers /\ pc[t] = "asking" /\ genAge < RateLimit
    /\ cool' = RateLimit /\ Cools(t, RateLimit) /\ lock' = None
    /\ Move(t, "idle")
    /\ UNCHANGED <<account, tok, okAge, slock, sAge, got, seen, nodes>>

\* the request fails, before Dhan generates a token or after: any other error.  A guard
\* does not cool down, the loop waits a minute.
RequestFails(t) ==
    /\ pc[t] = "asking" /\ faults < MaxFaults /\ faults' = faults + 1
    /\ \/ UNCHANGED <<live, genAge>>
       \/ genAge >= RateLimit /\ live' = NewToken /\ genAge' = 0
    /\ gcool' = IF t = Keeper THEN [gcool EXCEPT ![t] = SessionGap] ELSE gcool
    /\ IF t \in Callers THEN lock' = None /\ UNCHANGED slock
                          ELSE slock' = None /\ UNCHANGED lock
    /\ Move(t, "idle")
    /\ UNCHANGED <<tok, cool, okAge, sAge, got, seen, nodes>>

-----------------------------------------------------------------------------
(* SessionManager._refresh_auth_once: its own lock, no shared cooldown *)

LoaderRefused(t) ==
    /\ t \in Loaders /\ pc[t] = "idle"
    /\ tok # live \/ tok = None
    /\ Move(t, "refused") /\ seen' = [seen EXCEPT ![t] = sAge]
    /\ UNCHANGED <<account, authority, got, nodes>>

\* the time was read before the lock: a refresh since then, or less than 60 seconds
\* before it, makes this one unnecessary
RefreshOnce(t) ==
    /\ t \in Loaders /\ pc[t] = "refused" /\ slock = None
    /\ IF sAge < seen[t] \/ seen[t] < SessionGap
       THEN Move(t, "idle") /\ UNCHANGED slock
       ELSE Move(t, "asking") /\ slock' = t
    /\ seen' = [seen EXCEPT ![t] = 0]
    /\ UNCHANGED <<account, tok, cool, okAge, lock, gcool, sAge, got, nodes>>

LoaderInstalls(t) ==
    /\ t \in Loaders /\ pc[t] = "granted"
    /\ tok' = got[t] /\ got' = [got EXCEPT ![t] = None]
    /\ sAge' = 0 /\ slock' = None
    /\ Move(t, "idle")
    /\ UNCHANGED <<account, cool, okAge, lock, gcool, seen, nodes>>

\* rate limited: nothing remembers it
LoaderLimited(t) ==
    /\ t \in Loaders /\ pc[t] = "asking" /\ genAge < RateLimit
    /\ slock' = None
    /\ Move(t, "idle")
    /\ UNCHANGED <<account, tok, cool, okAge, lock, gcool, sAge, got, seen, nodes>>

-----------------------------------------------------------------------------
(* live_core.auth.TokenSource and token_share *)

\* the guard fetches only after Dhan rejected the node's token; the poll always may
Fetch(k) ==
    /\ npc[k] = "idle"
    /\ k[2] = "guard" => ntok[k[1]] # live \/ ntok[k[1]] = None
    /\ npc' = [npc EXCEPT ![k] = "asked"]
    /\ UNCHANGED <<account, authority, threads, ntok, ngot, sock>>

\* GET /internal/dhan-token: the token the authority holds now, or 503 without one
token_share(k) ==
    /\ npc[k] = "asked"
    /\ npc' = [npc EXCEPT ![k] = IF tok = None THEN "idle" ELSE "answered"]
    /\ ngot' = [ngot EXCEPT ![k] = tok]
    /\ UNCHANGED <<account, authority, threads, ntok, sock>>

FetchFails(k) ==
    /\ npc[k] = "asked" /\ faults < MaxFaults /\ faults' = faults + 1
    /\ npc' = [npc EXCEPT ![k] = "idle"]
    /\ UNCHANGED <<live, genAge, authority, threads, ntok, ngot, sock>>

\* apply(): the node's settings take the answer; only the poll, and only when it
\* changed something, has the sockets opened again
apply(k) ==
    LET n == k[1]
        changed == ngot[k] # ntok[n]
    IN  /\ npc[k] = "answered"
        /\ ntok' = [ntok EXCEPT ![n] = ngot[k]]
        /\ ngot' = [ngot EXCEPT ![k] = None]
        /\ npc' = [npc EXCEPT ![k] = "idle"]
        /\ sock' = IF k[2] = "poll" /\ changed THEN [sock EXCEPT ![n] = None] ELSE sock
        /\ UNCHANGED <<account, authority, threads>>

\* a socket is opened with the token of the moment
Reopens(n) ==
    /\ sock[n] = None /\ ntok[n] # None
    /\ sock' = [sock EXCEPT ![n] = ntok[n]]
    /\ UNCHANGED <<account, authority, threads, ntok, npc, ngot>>

-----------------------------------------------------------------------------
Cap == RateLimit + 1

\* from the rejected request to the installed token no thread takes longer than its
\* timeouts (30 and 20 seconds) allow
Prompt == \A t \in Threads : pc[t] # "idle" => busy[t] < Timeout

Tick ==
    /\ Prompt
    /\ busy' = [t \in Threads |-> IF pc[t] = "idle" THEN 0 ELSE busy[t] + 1]
    /\ genAge' = Least(genAge + 1, Cap) /\ okAge' = Least(okAge + 1, Cap)
    /\ sAge' = Least(sAge + 1, Cap)
    /\ cool' = Less(cool) /\ gcool' = [t \in Callers |-> Less(gcool[t])]
    /\ UNCHANGED <<live, faults, tok, lock, slock, pc, got, seen, nodes>>

Init ==
    /\ live \in {None, CHOOSE i \in Ids : TRUE}
    /\ tok \in {None, CHOOSE i \in Ids : TRUE}              \* TOTP_PENDING, or a token from the environment
    /\ genAge = Cap /\ cool = 0 /\ okAge = Cap /\ sAge = Cap
    /\ lock = None /\ gcool = [t \in Callers |-> 0] /\ slock = None
    /\ pc = [t \in Threads |-> "idle"] /\ got = [t \in Threads |-> None]
    /\ seen = [t \in Threads |-> 0] /\ busy = [t \in Threads |-> 0]
    /\ ntok = [n \in Nodes |-> None] /\ npc = [k \in Requests |-> "idle"]
    /\ ngot = [k \in Requests |-> None] /\ sock = [n \in Nodes |-> None]
    /\ faults = 0

Continue(t) ==
    \/ Coordinated(t) \/ Installs(t) \/ Limited(t)
    \/ RefreshOnce(t) \/ LoaderInstalls(t) \/ LoaderLimited(t)
    \/ Granted(t) \/ RequestFails(t)
Node(k) == Fetch(k) \/ token_share(k) \/ FetchFails(k) \/ apply(k)

Next ==
    \/ Tick \/ Expires \/ _keep_token_ready
    \/ \E t \in Threads : Refused(t) \/ LoaderRefused(t) \/ Continue(t)
    \/ \E k \in Requests : Node(k)
    \/ \E n \in Nodes : Reopens(n)

\* Pollers call for ever, requests are answered or time out, time passes.  The loop and
\* the history loaders need not come again: their refreshes help only by luck.
Fairness ==
    /\ WF_vars(Tick)
    /\ \A t \in Callers : WF_vars(Refused(t))
    /\ \A t \in Threads : WF_vars(Continue(t))
    /\ \A k \in Requests : WF_vars(Node(k))
    /\ \A n \in Nodes : WF_vars(Reopens(n))

Spec == Init /\ [][Next]_vars
FairSpec == Spec /\ Fairness

-----------------------------------------------------------------------------
Token == Ids \cup {None}
TypeOK ==
    /\ live \in Token /\ genAge \in 0..Cap /\ tok \in Token
    /\ cool \in 0..RateLimit /\ okAge \in 0..Cap /\ sAge \in 0..Cap
    /\ lock \in Threads \cup {None} /\ gcool \in [Callers -> 0..RateLimit]
    /\ slock \in Threads \cup {None}
    /\ pc \in [Threads -> {"idle", "refused", "asking", "granted"}]
    /\ busy \in [Threads -> 0..Timeout]
    /\ got \in [Threads -> Token] /\ seen \in [Threads -> 0..Cap]
    /\ ntok \in [Nodes -> Token] /\ npc \in [Requests -> {"idle", "asked", "answered"}]
    /\ ngot \in [Requests -> Token] /\ sock \in [Nodes -> Token] /\ faults \in 0..MaxFaults

\* Once Dhan has refused to generate, no coordinated caller asks it again before the
\* cooldown it asked for is over, not even one that was already waiting
\* (dhan_auth.refresh_access_token).
CooldownHonoured ==
    [][\A t \in Callers : cool > 0 /\ pc[t] = "refused" => pc'[t] # "asking"]_vars

\* A token is installed while it is the one Dhan accepts, although two refresh paths
\* that do not know of each other install it: a late answer never puts back a token
\* that a later generation has killed.
InstallsLive == [][tok' # tok => tok' = live \/ live = None]_vars

\* Whatever was lost, refused or raced, the authority ends up holding the token Dhan
\* accepts, one of the refresh paths always gets through, and so does every node that only
\* follows it.
TokensLive == live # None /\ tok = live /\ \A n \in Nodes : ntok[n] = live
=============================================================================
