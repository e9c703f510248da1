-------------------------- MODULE MCServerBilling --------------------------
(* Settings of ServerBilling for TLC.                                      *)
EXTENDS ServerBilling, TLC

\* Two credits a quarter of two units, one operation at a time: stops fall between
\* ticks, and debits are rounded.
Exact ==
    [serial |-> TRUE, price |-> 8, quarter |-> 2, balance |-> 8, grants |-> 0,
     spends |-> 1, starts |-> 1, ages |-> 6, due |-> 1, faults |-> 1]

\* One credit a quarter, and operations overlap.
Overlapping ==
    [serial |-> FALSE, price |-> 4, quarter |-> 1, balance |-> 4, grants |-> 0,
     spends |-> 1, starts |-> 1, ages |-> 2, due |-> 1, faults |-> 1]

\* The owner has little and is granted more.
Poor == [Exact EXCEPT !.balance = 2, !.grants = 1, !.spends = 1]

\* A plan that costs less than a credit a quarter: the ticks take more than its price.
Cheap == [Exact EXCEPT !.price = 1, !.quarter = 1, !.balance = 5, !.spends = 0]

AllModes == {Exact, Overlapping, Poor, Cheap}

=============================================================================
