--------------------------- MODULE TransactionRetry ---------------------------
(***************************************************************************)
(* The retry policy of transaction/transaction_retry.c and the loop its    *)
(* example shows: begin, three operations, commit; roll back and try again *)
(* after an error the policy calls retryable.                              *)
(*                                                                         *)
(* Delays are ints: base * (1 << attempt) is computed before it is capped, *)
(* and is negative when it passes the width of an int.                     *)
(***************************************************************************)
EXTENDS Integers

CONSTANTS
    RetryPolicies,  \* policies: [attempts, base, max, jitter, prioritized], jitter in percent
    IntMax          \* the largest int

ASSUME RetryAssumption ==
    /\ IntMax \in Nat \ {0}
    /\ \A p \in RetryPolicies : /\ {p.attempts, p.base, p.max, p.jitter} \subseteq 0 .. IntMax
                                /\ p.base >= 1 /\ p.base <= p.max /\ p.prioritized \in BOOLEAN

VARIABLES
    policy,
    attempt,        \* retry_state->attempt
    backoff,        \* 1 << attempt, exact
    next_delay_ms,
    deadlock_detected,
    operations_succeeded,
    step,           \* the loop: "begin", "operate", "commit", "done" or "given up"
    applied,        \* history: operations applied in the current transaction
    waited          \* milliseconds of the last wait

retryVars == <<policy, attempt, backoff, next_delay_ms, deadlock_detected, operations_succeeded, step, applied, waited>>

Operations == 1 .. 3

\* The int an exact value becomes.
AsInt(n) == ((n + IntMax + 1) % (2 * (IntMax + 1))) - (IntMax + 1)

Smaller(a, b) == IF a < b THEN a ELSE b
Larger(a, b)  == IF a < b THEN b ELSE a

Capped(p, d) == Smaller(d, p.max)

\* The delays calculate_retry_delay may give, one for every value of rand().
calculate_retry_delay(p, factor, deadlock) ==
    LET d == Capped(p, AsInt(p.base * factor))
        range == IF p.jitter = 0 \/ d < 0 THEN 0 ELSE (d * p.jitter) \div 100
        jittered == IF p.jitter = 0 THEN {d} ELSE {Capped(p, Larger(d + j, p.base)) : j \in (0 - range) .. range}
    IN  {IF deadlock /\ p.prioritized THEN IF e < 0 THEN 0 - ((0 - e) \div 2) ELSE e \div 2 ELSE e : e \in jittered}

RetryInit ==
    /\ policy \in RetryPolicies /\ attempt = 0 /\ backoff = 1 /\ deadlock_detected = FALSE /\ operations_succeeded = 0
    /\ next_delay_ms \in calculate_retry_delay(policy, 1, FALSE)
    /\ step = "begin" /\ applied = {} /\ waited = 0

\* A retry begins a transaction of its own and skips what the state says was done.
Begin ==
    /\ step = "begin"
    /\ step' = (IF operations_succeeded = 3 THEN "commit" ELSE "operate") /\ applied' = {}
    /\ UNCHANGED <<policy, attempt, backoff, next_delay_ms, deadlock_detected, operations_succeeded, waited>>

Operate ==
    /\ step = "operate"
    /\ operations_succeeded' = operations_succeeded + 1
    /\ applied' = applied \cup {operations_succeeded'}
    /\ step' = IF operations_succeeded' = 3 THEN "commit" ELSE "operate"
    /\ UNCHANGED <<policy, attempt, backoff, next_delay_ms, deadlock_detected, waited>>

Commit ==
    /\ step = "commit" /\ step' = "done"
    /\ UNCHANGED <<policy, attempt, backoff, next_delay_ms, deadlock_detected, operations_succeeded, applied, waited>>

\* Any of them fails: with a deadlock (-1), another retryable error (-2 .. -4), or one
\* that is not.
transaction_should_retry(code) == attempt < policy.attempts /\ code \in {"deadlock", "retryable"}

\* Mutant: the attempt starts where the last one failed.
transaction_retry_next_partial ==
    /\ attempt' = attempt + 1 /\ backoff' = 2 * backoff
    /\ UNCHANGED operations_succeeded

transaction_retry_next ==
    /\ attempt' = attempt + 1 /\ backoff' = 2 * backoff
    /\ operations_succeeded' = 0

\* handle_failure: roll back, ask the policy, compute the delay, wait and begin again.
HandleFailure(code) ==
    /\ step \notin {"done", "given up"}
    /\ applied' = {}
    /\ deadlock_detected' = IF attempt < policy.attempts THEN code = "deadlock" ELSE deadlock_detected
    /\ IF transaction_should_retry(code)
       THEN /\ transaction_retry_next
            /\ next_delay_ms' \in calculate_retry_delay(policy, backoff', deadlock_detected')
            /\ waited' = IF next_delay_ms' <= 0 THEN 0 ELSE next_delay_ms'
            /\ step' = "begin"
       ELSE step' = "given up" /\ UNCHANGED <<attempt, backoff, next_delay_ms, operations_succeeded, waited>>
    /\ UNCHANGED policy

RetryNext ==
    \/ Begin \/ Operate \/ Commit
    \/ \E code \in {"deadlock", "retryable", "fatal"} : HandleFailure(code)

RetrySpec == RetryInit /\ [][RetryNext]_retryVars

-----------------------------------------------------------------------------
(* Properties.                                                             *)

\* A transaction that commits has applied all of its operations, however many attempts
\* failed before it and wherever they failed: what an earlier attempt applied was rolled
\* back and is not skipped.
CommittedWhole == step = "done" => applied = Operations

\* The delay is between the base and the maximum of the policy, half of it after a
\* deadlock, as long as base * 2^attempt is an int.  Beyond that it is not capped but
\* negative: with jitter the base, without jitter no wait at all.
DelayInRange ==
    policy.base * backoff <= IntMax =>
        /\ next_delay_ms >= policy.base \div 2 /\ next_delay_ms <= policy.max
        /\ step # "given up" /\ ~ deadlock_detected => next_delay_ms >= policy.base

\* The loop ends: no more attempts than the policy allows.
AttemptsBounded == attempt <= policy.attempts

\* Retries: what was committed was committed whole, delays in their range, attempts
\* bounded.
RetrySound ==
    /\ CommittedWhole /\ DelayInRange /\ AttemptsBounded
===============================================================================
