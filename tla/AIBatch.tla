------------------------------- MODULE AIBatch -------------------------------
(***************************************************************************)
(* One call of DeepSeek.CompleteBatchDetailed (libs/go-common/assistant,   *)
(* batch.go and deepseek.go): the items are packed into requests, requests *)
(* run in waves of goroutines whose number adapts to the answers, a        *)
(* request is retried, and a batch that fails or is answered in part is    *)
(* halved until single items are left.                                     *)
(*                                                                         *)
(* An HTTP request is two steps, sending and the answer; delays are left   *)
(* out.  The answer of the provider is any set of decided items or any     *)
(* category of error; an ID list decides every item of its request.        *)
(* Slices of the request keep its order, so a batch is a set of items.     *)
(***************************************************************************)
EXTENDS Integers, Sequences, FiniteSets, Functions

CONSTANTS
    N,                  \* items of the request, numbered in their order
    Cost,               \* token estimates of an item
    InputTokenBudget,   \* less the tokens of the preferences
    MaxBatchSize,
    MaxConcurrency,
    MaxAttempts,
    Category            \* errors that happen

Item  == 1..N
Batch == SUBSET Item

AnyCategory == {"rate_limit", "timeout", "server", "network", "invalid_response",
                "context_limit", "content_filter", "auth", "quota", "invalid_request"}

\* What NewDeepSeek leaves of its configuration
ASSUME AIConstants ==
    /\ N \in Nat /\ Cost \subseteq Nat /\ InputTokenBudget \in Nat
    /\ MaxBatchSize \in Nat \ {0} /\ MaxConcurrency \in Nat \ {0} /\ MaxAttempts \in Nat \ {0}
    /\ Category \subseteq AnyCategory

VARIABLES
    packed,         \* Seq(Batch): the requests, and ...
    cost,           \* ... the estimates they were packed by
    offset,         \* requests done in earlier waves
    concurrency, successfulWaves,
    wave,           \* goroutines of the current wave, <<>> between waves
    outputs, errors,\* items of BatchResult.Outputs and .Errors
    canceled,       \* the context is cancelled or past its deadline
    phase           \* "running"; what the call returned: "done" or "failed"

vars == <<packed, cost, offset, concurrency, successfulWaves, wave, outputs, errors, canceled, phase>>

\* todo is the stack of completeBatchRecursive; attempts, of the request on its top;
\* busy, that it is with the provider; category, of Stats; requests, a history.
Goroutine == [todo: Seq(Batch), attempt: 0..MaxAttempts, busy: BOOLEAN,
              outputs: SUBSET Item, errors: SUBSET Item, category: Category \cup {"none"},
              failed: BOOLEAN, requests: Nat]

TypeOK ==
    /\ packed \in Seq(Batch) /\ cost \in [Item -> Cost] /\ offset \in 0..Len(packed)
    /\ concurrency \in 1..MaxConcurrency /\ successfulWaves \in Nat
    /\ wave \in Seq(Goroutine) /\ Len(wave) <= concurrency
    /\ outputs \subseteq Item /\ errors \subseteq Item
    /\ canceled \in BOOLEAN /\ phase \in {"running", "done", "failed"}

-----------------------------------------------------------------------------
(* Packing *)

\* Mutant: a new batch starts with the tokens of the last one.
PackItemKeepsUsed(acc, x) ==
    IF /\ acc.current # {}
       /\ Cardinality(acc.current) >= MaxBatchSize \/ acc.used + cost[x] > InputTokenBudget
    THEN [result |-> Append(acc.result, acc.current), current |-> {x}, used |-> acc.used + cost[x]]
    ELSE [acc EXCEPT !.current = @ \cup {x}, !.used = @ + cost[x]]

\* One turn of the loop of PackBatchItems
PackItem(acc, x) ==
    IF /\ acc.current # {}
       /\ Cardinality(acc.current) >= MaxBatchSize \/ acc.used + cost[x] > InputTokenBudget
    THEN [result |-> Append(acc.result, acc.current), current |-> {x}, used |-> cost[x]]
    ELSE [acc EXCEPT !.current = @ \cup {x}, !.used = @ + cost[x]]

\* Its variables after the first n items
PackLoop[n \in 0..N] ==
    IF n = 0 THEN [result |-> <<>>, current |-> {}, used |-> 0] ELSE PackItem(PackLoop[n - 1], n)

PackBatchItems ==
    LET last == PackLoop[N]
    IN  IF last.current = {} THEN last.result ELSE Append(last.result, last.current)

Init ==
    /\ cost \in [Item -> Cost] /\ packed = PackBatchItems
    /\ offset = 0 /\ concurrency = MaxConcurrency /\ successfulWaves = 0 /\ wave = <<>>
    /\ outputs = {} /\ errors = {} /\ canceled = FALSE /\ phase = "running"

-----------------------------------------------------------------------------
(* One goroutine *)

\* retryableProviderCategory
Retryable(c, attempt) ==
    \/ c \in {"rate_limit", "server", "network", "timeout"}
    \/ c = "invalid_response" /\ attempt = 1

\* Mutant: the limit is tested before the attempt is counted.
AgainLate(c, attempt) == attempt <= MaxAttempts /\ Retryable(c, attempt)

Again(c, attempt) == attempt < MaxAttempts /\ Retryable(c, attempt)

\* The items of a batch from place a to place b of its order
Places(s, a, b) == {x \in s : Cardinality({y \in s : y <= x}) \in a..b}

\* Mutant: the first half keeps the item in the middle twice.
HalvesOverlap(s) ==
    LET n == Cardinality(s) IN
    CASE n = 0 -> <<>>
      [] n = 1 -> <<s>>
      [] n > 1 -> <<Places(s, 1, n \div 2 + 1), Places(s, n \div 2 + 1, n)>>

\* Mutant: the item in the middle falls between the halves.
HalvesLosing(s) ==
    LET n == Cardinality(s) IN
    IF n <= 2 THEN [k \in 1..n |-> Places(s, k, k)]
    ELSE <<Places(s, 1, n \div 2), Places(s, n \div 2 + 2, n)>>

\* What completeBatchRecursive does next with the unresolved items: both halves
Halves(s) ==
    LET n   == Cardinality(s)
        mid == (n + 1) \div 2 IN
    CASE n = 0 -> <<>>
      [] n = 1 -> <<s>>
      [] n > 1 -> <<Places(s, 1, mid), Places(s, mid + 1, n)>>

Finished(g) == g.failed \/ g.todo = <<>>

Become(i, g) ==
    /\ wave' = [wave EXCEPT ![i] = g]
    /\ UNCHANGED <<packed, cost, offset, concurrency, successfulWaves, outputs, errors, canceled,
                   phase>>

\* waitForSlot or the backoff, and the request; a cancelled context ends the goroutine.
Send(i) ==
    LET g == wave[i] IN
    /\ ~Finished(g) /\ ~g.busy
    /\ Become(i, IF canceled THEN [g EXCEPT !.failed = TRUE]
                 ELSE [g EXCEPT !.busy = TRUE, !.attempt = @ + 1, !.requests = @ + 1])

\* completeBatchOnce or completeOnce succeeds and decides some items: all of an ID list,
\* those named in a list of decisions, the one of a single request.
Answer(i, decided) ==
    LET g    == wave[i]
        rest == Head(g.todo) \ decided IN
    /\ ~Finished(g) /\ g.busy
    /\ decided \subseteq Head(g.todo) /\ (Cardinality(Head(g.todo)) = 1 => decided # {})
    /\ Become(i, [g EXCEPT !.busy = FALSE, !.attempt = 0, !.outputs = @ \cup decided,
                           !.failed = canceled /\ rest # {},
                           !.todo = Halves(rest) \o Tail(@)])

\* It fails: tried again, given up (a single item) or halved.
Error(i, c) ==
    LET g == wave[i]
        s == Head(g.todo)
        e == [g EXCEPT !.busy = FALSE, !.category = c] IN
    /\ ~Finished(g) /\ g.busy
    /\ Become(i, CASE canceled             -> [e EXCEPT !.failed = TRUE]
                   [] ~canceled /\ Again(c, g.attempt) -> e
                   [] ~canceled /\ ~Again(c, g.attempt) /\ Cardinality(s) = 1 ->
                        [e EXCEPT !.attempt = 0, !.errors = @ \cup s, !.todo = Tail(@)]
                   [] ~canceled /\ ~Again(c, g.attempt) /\ Cardinality(s) > 1 ->
                        [e EXCEPT !.attempt = 0, !.todo = Halves(s) \o Tail(@)])

-----------------------------------------------------------------------------
(* The waves *)

StartWave ==
    LET size == IF concurrency < Len(packed) - offset THEN concurrency ELSE Len(packed) - offset IN
    /\ phase = "running" /\ wave = <<>> /\ offset < Len(packed)
    /\ IF canceled
       THEN phase' = "failed" /\ UNCHANGED wave
       ELSE /\ wave' = [i \in 1..size |->
                 [todo |-> <<packed[offset + i]>>, attempt |-> 0, busy |-> FALSE, outputs |-> {},
                  errors |-> {}, category |-> "none", failed |-> FALSE, requests |-> 0]]
            /\ UNCHANGED phase
    /\ UNCHANGED <<packed, cost, offset, concurrency, successfulWaves, outputs, errors, canceled>>

Adverse == \E i \in DOMAIN wave : wave[i].category \in
                {"rate_limit", "timeout", "context_limit", "invalid_response"}

\* Mutant: half of one is nothing.
SlowerToNothing == concurrency \div 2

Slower == IF concurrency \div 2 < 1 THEN 1 ELSE concurrency \div 2

\* wg.Wait: the results are merged in their order, up to the first error.
EndWave ==
    LET bad    == {i \in DOMAIN wave : wave[i].failed}
        merged == {i \in DOMAIN wave : \A j \in bad : i < j}
        faster == successfulWaves + 1 >= 3 /\ concurrency < MaxConcurrency IN
    /\ wave # <<>> /\ \A i \in DOMAIN wave : Finished(wave[i])
    /\ outputs' = outputs \cup UNION {wave[i].outputs : i \in merged}
    /\ errors' = errors \cup UNION {wave[i].errors : i \in merged}
    /\ wave' = <<>>
    /\ IF bad # {}
       THEN phase' = "failed" /\ UNCHANGED <<offset, concurrency, successfulWaves>>
       ELSE /\ offset' = offset + Len(wave)
            /\ concurrency' = IF Adverse THEN Slower
                              ELSE IF faster THEN concurrency + 1 ELSE concurrency
            /\ successfulWaves' = IF Adverse \/ faster THEN 0 ELSE successfulWaves + 1
            /\ UNCHANGED phase
    /\ UNCHANGED <<packed, cost, canceled>>

Return ==
    /\ phase = "running" /\ wave = <<>> /\ offset = Len(packed)
    /\ phase' = "done"
    /\ UNCHANGED <<packed, cost, offset, concurrency, successfulWaves, wave, outputs, errors, canceled>>

\* ASSISTANT_RUN_TIMEOUT or a signal
Cancel ==
    /\ phase = "running" /\ ~canceled
    /\ canceled' = TRUE
    /\ UNCHANGED <<packed, cost, offset, concurrency, successfulWaves, wave, outputs, errors, phase>>

-----------------------------------------------------------------------------
(* Specification *)

GoroutineStep(i) ==
    /\ i \in DOMAIN wave
    /\ \/ Send(i)
       \/ \E decided \in SUBSET Item : Answer(i, decided)
       \/ \E c \in Category : Error(i, c)

CallStep == StartWave \/ EndWave \/ Return

Next == Cancel \/ CallStep \/ \E i \in 1..MaxConcurrency : GoroutineStep(i)

Spec == Init /\ [][Next]_vars

\* Goroutines are scheduled and the HTTP client has a timeout; nothing says what the
\* provider answers.
FairSpec == Spec /\ WF_vars(CallStep) /\ \A i \in 1..MaxConcurrency : WF_vars(GoroutineStep(i))

-----------------------------------------------------------------------------
(* Properties *)

\* Reference for PackBatchItems: the batches hold the items in their order, each within
\* the limits unless it is a single item too large for them, and none could have taken
\* the first item of the next.
Tokens(s) == UNION {{x} \X (1..cost[x]) : x \in s}
Fits(s) ==
    /\ Cardinality(s) <= MaxBatchSize
    /\ Cardinality(s) = 1 \/ Cardinality(Tokens(s)) <= InputTokenBudget

PackedByTheLimits ==
    /\ UNION Range(packed) = Item
    /\ \A k, l \in DOMAIN packed : k < l => \A x \in packed[k], y \in packed[l] : x < y
    /\ \A k \in DOMAIN packed : packed[k] # {} /\ Fits(packed[k])
    /\ \A k \in 1..(Len(packed) - 1) : \A x \in packed[k + 1] :
         (\A y \in packed[k + 1] : x <= y) => ~Fits(packed[k] \cup {x})

\* Halving, partial answers and retries never lose an item or ask for one that has its
\* answer: what a goroutine was given is answered, given up or still to be asked, once.
Asked(g) == UNION Range(g.todo)

EachItemInOnePlace ==
    \A i \in DOMAIN wave :
        LET g == wave[i] IN
        /\ packed[offset + i] = Asked(g) \cup g.outputs \cup g.errors
        /\ Asked(g) \cap (g.outputs \cup g.errors) = {} /\ g.outputs \cap g.errors = {}
        /\ \A k, l \in DOMAIN g.todo : g.todo[k] \cap g.todo[l] # {} => k = l

\* A call that returns without an error has decided each item: an output or a category,
\* not both.  A job without either would be taken for an invalid response.
EveryItemDecided ==
    phase = "done" => outputs \cup errors = Item /\ outputs \cap errors = {}

\* A provider that only fails costs a bounded number of requests: halving n items makes
\* at most 2n - 1 batches, each with its attempts.
RequestsBounded ==
    \A i \in DOMAIN wave : wave[i].requests <= MaxAttempts * (2 * Cardinality(packed[offset + i]) - 1)

\* Whatever the provider answers, the call returns.
CallReturns == <>(phase # "running")
=============================================================================
