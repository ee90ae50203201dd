----------------------------- MODULE MinuteStream -----------------------------
(***************************************************************************)
(* The minute stream: microstructure.MicrostructureRecorder in the feed    *)
(* process appends one block per closed minute to two files, and           *)
(* intelligence.live.LiveRunner, another process, follows them and steps   *)
(* its engine through the minutes.                                         *)
(*                                                                         *)
(* The feed thread accounts packets without a lock: it reads the clock,    *)
(* takes the bucket of that minute and adds to it; the flush thread        *)
(* removes a bucket Grace after its minute closed.  The feed process may   *)
(* be stopped, killed and started again.  Packets stand for the content of *)
(* a minute: those of a bucket for its features, all of the minute for its *)
(* 1m bar.                                                                 *)
(***************************************************************************)
EXTENDS Integers, Sequences, FiniteSetsExt, SequencesExt

CONSTANTS
    MinuteLen,      \* units of time in a minute
    Grace,          \* GRACE_SECONDS, in units
    MaxPending,     \* MAX_PENDING_MINUTES
    LastMinute,     \* minutes 0 .. LastMinute are observed
    MaxPackets,     \* of one minute
    MaxFaults,      \* flushes without disk space, write errors, stops and kills
    None

\* What the code gives these constants; the instances assume it.
StreamAssumption ==
    /\ MinuteLen \in Nat \ {0} /\ Grace \in Nat /\ LastMinute \in Nat /\ MaxPackets \in Nat /\ MaxFaults \in Nat
    /\ None \notin Int \cup [min : Nat, packets : Nat]

Minutes == 0..LastMinute
End == (LastMinute + 2) * MinuteLen + Grace

VARIABLES
    now,
    up,         \* of the feed process: "up", "closing" (stop() flushes), "down"
    count,      \* packets of each minute that the feed has taken into its candles
    bucket,     \* _buckets: packets accounted in each minute, or None
    taken,      \* the feed thread's minute between the clock and the addition, and when;
                \* whether its bucket is still in _buckets
    flush,      \* the flush thread: the minute it holds and its packets, or None
    micro,      \* blocks of micro_1m.csv: <<minute, packets>>
    bars,       \* blocks of bars_1m.csv: [min, bar, whole], whole when the end marker is written
    dropped,    \* packets of dropped minutes, write errors, kills
    faults,
    seen,       \* LiveRunner._seen: length of the stream
    stat,       \* the length follow_archive has stat()ed, or None
    asOf,       \* last minute its engine stepped, -1 before
    archived,   \* the finished day is compacted
    cut         \* history: minutes that stop() flushed before they closed

feedVars == <<now, up, count, bucket, taken, flush, micro, bars, dropped, faults, archived, cut>>
readVars == <<seen, stat, asOf>>
vars == <<feedVars, readVars>>

Minute(t) == t \div MinuteLen

\* time passes; the feed thread does not sleep through Grace between two statements
Tick ==
    /\ now < End /\ now' = now + 1
    /\ taken # None => now < taken.at + Grace
    /\ UNCHANGED <<up, count, bucket, taken, flush, micro, bars, dropped, faults, archived, cut, readVars>>

\* _observe begins: the clock, and the bucket of its minute
Observe ==
    /\ up # "down" /\ taken = None /\ Minute(now) \in Minutes /\ count[Minute(now)] < MaxPackets
    /\ taken' = [min |-> Minute(now), at |-> now, kept |-> TRUE]
    /\ bucket' = [bucket EXCEPT ![Minute(now)] = IF @ = None THEN 0 ELSE @]
    /\ UNCHANGED <<now, up, count, flush, micro, bars, dropped, faults, archived, cut, readVars>>

\* and adds the packet to the bucket it took, whether or not that is still in _buckets;
\* the candle of the minute grows too
Account ==
    /\ taken # None /\ taken' = None
    /\ count' = [count EXCEPT ![taken.min] = @ + 1]
    /\ bucket' = IF taken.kept THEN [bucket EXCEPT ![taken.min] = @ + 1] ELSE bucket
    /\ UNCHANGED <<now, up, flush, micro, bars, dropped, faults, archived, cut, readVars>>

\* the minute closed GRACE_SECONDS ago
Closed(m) == (m + 1) * MinuteLen + Grace <= now

\* stop() flushes with a clock two minutes ahead: every minute is ready
Ready == {m \in Minutes : bucket[m] # None /\ (Closed(m) \/ up = "closing")}

\* the drop counters of a minute that is not written
Lost(m) == [dropped EXCEPT ![m] = @ + bucket[m]]

\* flush: the next ready bucket leaves _buckets; too old, or without disk space, it is dropped
FlushPop ==
    /\ up # "down" /\ flush = None /\ Ready # {}
    /\ LET m == Min(Ready)
           old == m * MinuteLen < now - (MaxPending + 1) * MinuteLen
       IN  /\ bucket' = [bucket EXCEPT ![m] = None]
           /\ cut' = IF Closed(m) THEN cut ELSE cut \cup {m}
           /\ taken' = IF taken # None /\ taken.min = m THEN [taken EXCEPT !.kept = FALSE] ELSE taken
           /\ \/ /\ ~old
                 /\ flush' = [min |-> m, packets |-> bucket[m]]
                 /\ UNCHANGED <<dropped, faults>>
              \/ /\ old \/ faults < MaxFaults         \* _space_ok
                 /\ faults' = IF old THEN faults ELSE faults + 1
                 /\ dropped' = Lost(m) /\ UNCHANGED flush
    /\ UNCHANGED <<now, up, count, micro, bars, archived, readVars>>

\* state_bars_for_minute: the stock's last completed candle or its forming one
BarOf(m) ==
    LET traded == {k \in Minutes : count[k] > 0}
        recent == {k \in traded : Cardinality({j \in traded : j > k}) < 2}
    IN  IF m \in recent THEN count[m] ELSE None

\* _write_minute: a block of features, then a block of bars, each in one write
WriteMinute ==
    /\ up # "down" /\ flush # None /\ flush' = None
    /\ micro' = Append(micro, <<flush.min, flush.packets>>)
    /\ bars' = Append(bars, [min |-> flush.min, bar |-> BarOf(flush.min), whole |-> TRUE])
    /\ UNCHANGED <<now, up, count, bucket, taken, dropped, faults, archived, cut, readVars>>

\* the write raises: the minute is lost and counted
WriteError ==
    /\ up # "down" /\ flush # None /\ flush' = None
    /\ faults < MaxFaults /\ faults' = faults + 1
    /\ dropped' = [dropped EXCEPT ![flush.min] = @ + flush.packets]
    /\ UNCHANGED <<now, up, count, bucket, taken, micro, bars, archived, cut, readVars>>

\* app.shutdown: recorder.stop joins the thread and flushes what has accumulated; the
\* feed is stopped later
Stop ==
    /\ up = "up" /\ flush = None /\ faults < MaxFaults /\ faults' = faults + 1
    /\ up' = "closing"
    /\ UNCHANGED <<now, count, bucket, taken, flush, micro, bars, dropped, archived, cut, readVars>>

Pending(m) ==
    (IF bucket[m] = None THEN 0 ELSE bucket[m])
        + (IF flush # None /\ flush.min = m THEN flush.packets ELSE 0)

\* the process ends, after stop() or killed at any point: a block under way is cut
Ends ==
    /\ up # "down"
    /\ \/ up = "closing" /\ flush = None /\ Ready = {} /\ UNCHANGED <<faults, bars>>
       \/ /\ faults < MaxFaults /\ faults' = faults + 1
          /\ \/ UNCHANGED bars
             \/ /\ flush # None
                /\ bars' = Append(bars, [min |-> flush.min, bar |-> BarOf(flush.min), whole |-> FALSE])
    /\ up' = "down" /\ flush' = None /\ taken' = None
    /\ bucket' = [m \in Minutes |-> None]
    /\ dropped' = [m \in Minutes |-> dropped[m] + Pending(m)]
    /\ UNCHANGED <<now, count, micro, archived, cut, readVars>>

\* the service manager starts it again; backfill brings back the candles
Restart ==
    /\ up = "down" /\ up' = "up"
    /\ UNCHANGED <<now, count, bucket, taken, flush, micro, bars, dropped, faults, archived, cut, readVars>>

\* housekeeping: the stream of an earlier day is compressed into the archive
Compact ==
    /\ up = "up" /\ now = End /\ ~archived /\ micro # <<>>
    /\ archived' = TRUE
    /\ UNCHANGED <<now, up, count, bucket, taken, flush, micro, bars, dropped, faults, cut, readVars>>

\* follow_archive: stat() of the stream, compared with what was seen
Stat ==
    /\ stat = None /\ Len(bars) # seen
    /\ stat' = Len(bars)
    /\ UNCHANGED <<feedVars, seen, asOf>>

Wholes == {i \in DOMAIN bars : bars[i].whole}
\* stream_day: the last minute with an end marker
\* Mutant of Covered: the minute after the last block.
Covered_Next == IF Wholes = {} THEN -1 ELSE Max({bars[i].min : i \in Wholes}) + 1
Covered == IF Wholes = {} THEN -1 ELSE Max({bars[i].min : i \in Wholes})

\* the engine steps through every minute it has not processed, up to the closed ones covered
StepTo(limit) == asOf' = IF limit > asOf THEN limit ELSE asOf

\* Mutant of Follow: the stream is stat()ed after it is read.
Follow_StatAfter ==
    /\ stat # None /\ stat' = None
    /\ StepTo(Max({-1} \cup {bars[i].min : i \in 1..stat}))
    /\ seen' = Len(bars)
    /\ UNCHANGED feedVars

\* follow_archive goes on: reads the stream, steps, and remembers the stat()
Follow ==
    /\ stat # None /\ stat' = None
    /\ StepTo(IF Covered < Minute(now) THEN Covered ELSE Minute(now) - 1)
    /\ seen' = stat
    /\ UNCHANGED feedVars

Init ==
    /\ now = 0 /\ up = "up" /\ count = [m \in Minutes |-> 0] /\ bucket = [m \in Minutes |-> None]
    /\ taken = None /\ flush = None /\ micro = <<>> /\ bars = <<>>
    /\ dropped = [m \in Minutes |-> 0] /\ faults = 0 /\ archived = FALSE /\ cut = {}
    /\ seen = 0 /\ stat = None /\ asOf = -1

Recorder == FlushPop \/ WriteMinute \/ WriteError
Reader == Stat \/ Follow
Next ==
    \/ Tick \/ Observe \/ Account \/ Recorder \/ Stop \/ Ends \/ Restart \/ Compact \/ Reader

\* Time passes, both threads of the feed process and the runner go on.
Fairness ==
    /\ WF_vars(Tick) /\ WF_vars(Account) /\ WF_vars(Recorder) /\ WF_vars(Reader)

Spec == Init /\ [][Next]_vars
FairSpec == Spec /\ Fairness

-----------------------------------------------------------------------------
TypeOK ==
    /\ now \in 0..End /\ up \in {"up", "closing", "down"}
    /\ count \in [Minutes -> 0..MaxPackets] /\ bucket \in [Minutes -> (0..MaxPackets) \cup {None}]
    /\ taken = None \/ taken \in [min : Minutes, at : 0..End, kept : BOOLEAN]
    /\ flush = None \/ flush \in [min : Minutes, packets : 0..MaxPackets]
    /\ micro \in Seq(Minutes \X Nat) /\ dropped \in [Minutes -> Nat] /\ faults \in 0..MaxFaults
    /\ seen \in Nat /\ stat \in Nat \cup {None} /\ asOf \in Minutes \cup {-1} /\ archived \in BOOLEAN
    /\ cut \subseteq Minutes

Written(m) == FoldLeft(LAMBDA sum, b : IF b[1] = m THEN sum + b[2] ELSE sum, 0, micro)

\* Every packet the feed accounted is in a bucket, in a block or counted as lost, and in
\* only one of them: the two threads share the buckets without a lock, and the grace
\* period is all that keeps a packet out of a bucket that has been written.  A minute
\* that stop() flushed while the feed was in it is excepted.
PacketsConserved == \A m \in Minutes \ cut : count[m] = Written(m) + Pending(m) + dropped[m]

\* A bar in the stream that was written after its minute closed is the minute's final bar.
BarsFinal ==
    \A i \in DOMAIN bars : bars[i].min \notin cut /\ bars[i].bar # None => bars[i].bar = count[bars[i].min]

\* The runner steps every minute that a whole block covers, also when the block is
\* appended while it reads the file; one that stop() flushed before it closed waits for
\* the next block.
Stepped == \A m \in Minutes : (\E i \in Wholes : bars[i].min = m) => asOf >= m \/ m \in cut
EveryMinuteStepped == []<>Stepped
=============================================================================
