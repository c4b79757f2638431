---------------------------- MODULE RetryPolicy ----------------------------
(***************************************************************************)
(* The retry ladder of src/lib/calling/retry.ts: what happens to a lead    *)
(* once an attempt is over.  The delays of the ladder are abstracted: the  *)
(* queue only distinguishes a lead whose next call is due from one whose   *)
(* next call lies in the future.                                           *)
(***************************************************************************)
EXTENDS Integers

CONSTANT MaxAttempts          \* policy.maxAttempts, config.max_attempts

ASSUME MaxAttemptsAssumption == MaxAttempts \in Nat \ {0}

(* The call statuses that end an attempt (results.ts isTerminal); every other *)
(* status of the call_status enum (initiated, ringing, answered) is "open".   *)
Terminal == {"completed", "no_answer", "busy", "failed", "canceled"}

(* A callback at a time still in the future wins over everything else; a      *)
(* conversation that took place and a cancelled call stop; otherwise the      *)
(* ladder runs until the policy's number of attempts is used up.              *)
DecideRetry(outcome, attemptsMade, callbackAhead) ==
    IF callbackAhead THEN "callback"
    ELSE IF outcome \in {"completed", "canceled"} \/ attemptsMade >= MaxAttempts
         THEN "stop"
         ELSE "retry"

=============================================================================
