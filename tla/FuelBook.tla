------------------------------- MODULE FuelBook -------------------------------
(***************************************************************************)
(* What the fuel component promises: a book of issuances in which posting  *)
(* gives an issuance the next free number of its month and takes its       *)
(* liters out of stock, and voiding puts the liters back and keeps the     *)
(* number, each in one step.  There is no counter and no ledger here:      *)
(* these, and their transactions, are how FuelTransactions implements it.  *)
(***************************************************************************)
EXTENDS Integers

CONSTANTS Issuances, Months, Quantities, None

VARIABLES
    state,   \* state[i]: "ABSENT", "DRAFT", "POSTED" or "VOIDED"
    month,   \* month[i]: the month of its entry date
    number,  \* number[i]: its RIS number within that month
    net      \* net[i]: what it has done to the stock

book == <<state, month, number, net>>

\* The numbers given out in month m.
Numbers(m) ==
    {number[i] : i \in {j \in Issuances : state[j] \in {"POSTED", "VOIDED"} /\ month[j] = m}}

Init ==
    /\ state  = [i \in Issuances |-> "ABSENT"]
    /\ month  = [i \in Issuances |-> None]
    /\ number = [i \in Issuances |-> 0]
    /\ net    = [i \in Issuances |-> 0]

\* A draft is prepared, or amended while it is a draft.
Prepare(i) ==
    /\ state[i] \in {"ABSENT", "DRAFT"}
    /\ state' = [state EXCEPT ![i] = "DRAFT"]
    /\ \E m \in Months : month' = [month EXCEPT ![i] = m]
    /\ UNCHANGED <<number, net>>

Post(i) ==
    /\ state[i] = "DRAFT"
    /\ state' = [state EXCEPT ![i] = "POSTED"]
    /\ number'[i] \in Nat \ {0} /\ Numbers(month[i]) = 1 .. number'[i] - 1
    /\ number' = [number EXCEPT ![i] = number'[i]]
    /\ \E q \in Quantities : net' = [net EXCEPT ![i] = -q]
    /\ UNCHANGED month

Void(i) ==
    /\ state[i] = "POSTED"
    /\ state' = [state EXCEPT ![i] = "VOIDED"]
    /\ net'   = [net EXCEPT ![i] = 0]
    /\ UNCHANGED <<month, number>>

Next == \E i \in Issuances : Prepare(i) \/ Post(i) \/ Void(i)

Spec == Init /\ [][Next]_book
=============================================================================
