---------------------------- MODULE AtomicLedger ----------------------------
(***************************************************************************)
(* What the credit service promises, with no sessions, locks or caches:    *)
(* each entry of the ledger changes the balance by its own amount, at once *)
(* and never below zero; the only other way to change a balance is an      *)
(* administrator's adjustment.                                             *)
(***************************************************************************)
EXTENDS Integers

CONSTANTS Users, InitialBalance

VARIABLES balance, ledger, adjusted

Init ==
    /\ balance = [u \in Users |-> InitialBalance]
    /\ ledger = [u \in Users |-> 0]
    /\ adjusted = [u \in Users |-> 0]

(* One entry is written and the balance moves by exactly that amount.      *)
Post(u) ==
    /\ balance' = [balance EXCEPT ![u] = @ + (ledger'[u] - ledger[u])]
    /\ ledger' = [ledger EXCEPT ![u] = ledger'[u]]
    /\ ledger'[u] # ledger[u]
    /\ balance'[u] >= 0
    /\ UNCHANGED adjusted

(* An administrator overwrites the balance; the difference is no entry.    *)
Adjust(u) ==
    /\ balance' = [balance EXCEPT ![u] = balance'[u]]
    /\ adjusted' = [adjusted EXCEPT ![u] = @ + (balance'[u] - balance[u])]
    /\ balance'[u] >= 0
    /\ UNCHANGED ledger

Next == \E u \in Users : Post(u) \/ Adjust(u)

Spec == Init /\ [][Next]_<<balance, ledger, adjusted>>
=============================================================================
