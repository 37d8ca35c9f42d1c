--------------------------- MODULE SerialExecutor ---------------------------
(***************************************************************************)
(* What the control plane promises to whoever holds an operation handle:   *)
(* operations are numbered in the order they are admitted, at most one     *)
(* runs at a time, the lowest waiting number goes first, every operation   *)
(* is answered at most once, and once the executor is closed nothing is    *)
(* started any more.  Registry, queue, callers, permits and the closing    *)
(* latch do not appear.                                                    *)
(***************************************************************************)
EXTENDS Naturals

CONSTANT Numbers   \* the numbers operations are given

VARIABLES
  ledger,          \* what the handle of each number reads
  open             \* the executor still takes operations up

Waiting == {n \in Numbers : ledger[n] = "Queued"}
Busy == \E n \in Numbers : ledger[n] = "Running"
First(n) == n \in Waiting /\ \A m \in Waiting : n <= m

SerialInit == ledger = [n \in Numbers |-> "Unused"] /\ open = TRUE

(* A number is given once, above every number given before.                *)
Take(n) ==
  /\ ledger[n] = "Unused" /\ \A m \in Numbers : m > n => ledger[m] = "Unused"
  /\ ledger' = [ledger EXCEPT ![n] = "Queued"]
  /\ open' = open

Run(n) ==
  /\ open /\ ~Busy /\ First(n)
  /\ ledger' = [ledger EXCEPT ![n] = "Running"]
  /\ open' = open

(* A panic closes the executor; any other end may.                         *)
Answer(n, state) ==
  /\ ledger[n] = "Running"
  /\ ledger' = [ledger EXCEPT ![n] = state]
  /\ open' \in IF state = "Died" THEN {FALSE} ELSE {TRUE, FALSE}

(* An operation is answered without having run: refused, or, once the      *)
(* executor is closed, with the executor's own end.                        *)
Dismiss(n, state) ==
  /\ ~Busy /\ First(n)
  /\ open => state = "Refused"
  /\ ledger' = [ledger EXCEPT ![n] = state]
  /\ open' = open

SerialNext ==
  \E n \in Numbers :
    \/ Take(n) \/ Run(n)
    \/ \E state \in {"Succeeded", "Failed", "Died"} : Answer(n, state)
    \/ \E state \in {"Refused", "Succeeded", "Died"} : Dismiss(n, state)

SerialSpec == SerialInit /\ [][SerialNext]_<<ledger, open>>
=============================================================================
