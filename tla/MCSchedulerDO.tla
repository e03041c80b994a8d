---------------------------- MODULE MCSchedulerDO ----------------------------
(* TLC instances of SchedulerDO. *)
EXTENDS SchedulerDO

CONSTANTS Retries,   \* one retry budget for every id
          Backoff    \* delay of the first retry; it doubles, like the default policy's

MCBudget == [j \in Id |-> Retries]
MCDelay == [j \in Id |-> [k \in 0..AttemptCap |-> Backoff * 2 ^ k]]
=============================================================================
