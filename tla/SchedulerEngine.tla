--------------------------- MODULE SchedulerEngine ---------------------------
(***************************************************************************)
(* Engine.Run of the HH scheduler (apps/ingest/internal/scheduler): a      *)
(* select over the cancelled context, the timer and the outcome of the     *)
(* batch, which runs in a goroutine of its own.  One case of the select is *)
(* one step, because nothing else reads what its body writes; time passes, *)
(* the batch ends and the context is cancelled between any two of them.    *)
(* A batch that finds the advisory lock taken ends as "locked".            *)
(***************************************************************************)
EXTENDS Integers, Sequences

CONSTANTS
    Interval, BackoffInitial, BackoffMax,   \* in units of time
    JitterPercent,
    FailureLimit    \* bound of the model on failures in a row

\* Config.Validate
ASSUME ConfigAssumption ==
    /\ Interval \in Nat \ {0} /\ BackoffInitial \in Nat \ {0} /\ BackoffMax \in Nat
    /\ BackoffMax >= BackoffInitial /\ JitterPercent \in 0..100 /\ FailureLimit \in Nat

\* ErrLockUnavailable is a batch that another process keeps out.
Outcome == {"success", "locked", "failed"}

VARIABLES
    place,      \* "select", "waiting" in the shutdown; what Run returned: "nil", "deadline"
    left,       \* time until the timer fires; 0, its tick is in the channel
    active,
    batches,    \* goroutines that run a batch
    done,       \* the channel of outcomes, with room for one
    failures,
    stopping,   \* the context is cancelled
    rest        \* history: what is left of the delay that the last outcome called for

vars == <<place, left, active, batches, done, failures, stopping, rest>>

\* What backoff makes of a delay with its jitter
Jittered(d) == ((d * (100 - JitterPercent)) \div 100)..((d * (100 + JitterPercent)) \div 100)

LongestBackoff == (BackoffMax * (100 + JitterPercent)) \div 100

TypeOK ==
    /\ place \in {"select", "waiting", "nil", "deadline"}
    /\ left \in Nat /\ rest \in Nat /\ (rest <= Interval \/ rest <= LongestBackoff)
    /\ active \in BOOLEAN /\ batches \in Nat /\ done \in Seq(Outcome) /\ Len(done) <= 1
    /\ failures \in 0..FailureLimit /\ stopping \in BOOLEAN

-----------------------------------------------------------------------------
(* The delay after n failures in a row *)

\* One turn of the loop of backoff, which cannot overflow
Grow(d) ==
    IF d >= BackoffMax THEN d ELSE IF d > BackoffMax \div 2 THEN BackoffMax ELSE 2 * d

Backoff(n) ==
    LET delay[i \in 1..n] == IF i = 1 THEN BackoffInitial ELSE Grow(delay[i - 1])
    IN  delay[n]

-----------------------------------------------------------------------------
(* The engine *)

\* Mutant: the flag is not looked at.
StartAnyway == active' = TRUE /\ batches' = batches + 1

\* start: a batch that is active is not overlapped.
Start ==
    IF active THEN UNCHANGED <<active, batches>> ELSE active' = TRUE /\ batches' = batches + 1

\* Mutant: a timer that has fired keeps its tick.
ResetKeepingTick(d) == left' = IF left = 0 THEN 0 ELSE d

\* realTimer.Reset takes a tick that was not received out of the channel.
Reset(d) == left' = d

\* RunOnStart starts a batch before the loop.
Init ==
    /\ place = "select" /\ left = Interval
    /\ active \in BOOLEAN /\ batches = IF active THEN 1 ELSE 0
    /\ done = <<>> /\ failures = 0 /\ stopping = FALSE /\ rest = 0

Tick ==
    /\ place = "select" /\ left = 0
    /\ Start
    /\ left' = Interval
    /\ UNCHANGED <<place, done, failures, stopping, rest>>

\* The outcome of the batch sets the next delay.
Receive ==
    /\ place = "select" /\ done # <<>>
    /\ active' = FALSE /\ done' = Tail(done)
    /\ failures' = IF Head(done) = "failed" THEN failures + 1 ELSE 0
    /\ rest' \in IF Head(done) = "failed" THEN Jittered(Backoff(failures + 1)) ELSE {Interval}
    /\ Reset(rest')
    /\ UNCHANGED <<place, batches, stopping>>

\* ctx.Done: Run returns, or waits for the batch that it has cancelled.
Leave ==
    /\ place = "select" /\ stopping
    /\ place' = IF active THEN "waiting" ELSE "nil"
    /\ UNCHANGED <<left, active, batches, done, failures, stopping, rest>>

Finish ==
    /\ place = "waiting" /\ done # <<>>
    /\ place' = "nil" /\ active' = FALSE /\ done' = Tail(done)
    /\ UNCHANGED <<left, batches, failures, stopping, rest>>

\* ShutdownTimeout
GiveUp ==
    /\ place = "waiting"
    /\ place' = "deadline"
    /\ UNCHANGED <<left, active, batches, done, failures, stopping, rest>>

-----------------------------------------------------------------------------
(* What happens to it *)

\* The goroutine of a batch sends its outcome; a full channel would hold it up.
BatchEnds(o) ==
    /\ batches > 0 /\ done = <<>>
    /\ o = "failed" => failures < FailureLimit
    /\ batches' = batches - 1 /\ done' = Append(done, o)
    /\ UNCHANGED <<place, left, active, failures, stopping, rest>>

TimePasses ==
    /\ place = "select" /\ left > 0
    /\ left' = left - 1 /\ rest' = IF rest > 0 THEN rest - 1 ELSE 0
    /\ UNCHANGED <<place, active, batches, done, failures, stopping>>

\* SIGTERM
StopSignal ==
    /\ ~stopping
    /\ stopping' = TRUE
    /\ UNCHANGED <<place, left, active, batches, done, failures, rest>>

-----------------------------------------------------------------------------
(* Specification *)

Next ==
    \/ Tick \/ Receive \/ Leave \/ Finish \/ GiveUp
    \/ TimePasses \/ StopSignal
    \/ \E o \in Outcome : BatchEnds(o)

Spec == Init /\ [][Next]_vars

-----------------------------------------------------------------------------
(* Properties *)

\* Never two batches in one process, whatever the order of a tick, an end and a stop; and
\* the flag says whether there is one, or an outcome that nobody has received.
NoOverlap ==
    /\ batches + Len(done) <= 1
    /\ active <=> batches + Len(done) = 1

\* Run reports a clean stop only when its batch has ended.
CleanStopAfterBatch == place = "nil" => batches = 0 /\ done = <<>>

\* A tick that had fired before the batch ended does not cut the delay short.
DelayRespected == [][batches' > batches => rest = 0]_vars

\* Reference for backoff: BackoffInitial, doubled for every failure after the first.
Doubled(n) ==
    LET delay[i \in 1..n] == IF i = 1 THEN BackoffInitial ELSE 2 * delay[i - 1]
    IN  delay[n]

\* The n-th failure in a row waits that long, at most BackoffMax, give or take the jitter.
Smaller(a, b) == IF a <= b THEN a ELSE b
BackoffDoubles ==
    [][failures' > failures =>
           rest' \in Jittered(Smaller(BackoffMax, Doubled(failures')))]_vars
=============================================================================
