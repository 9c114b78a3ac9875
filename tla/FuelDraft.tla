----------------------------- MODULE FuelDraft -----------------------------
(***************************************************************************)
(* The form of a fuel issuance draft: the date of the entry decides which  *)
(* allocations may be charged, the form asks for them whenever the date    *)
(* changes, and the user picks one of the list.                            *)
(***************************************************************************)
CONSTANTS
    Dates,        \* the complete dates the user types
    Allocations,  \* the allocations
    Quarter       \* the quarter of each date and each allocation

VARIABLES
    active,      \* the allocations the server offers
    preloaded,   \* the options the page was rendered with
    entryDate,   \* the date in the form, NoDate while it is incomplete
    asked,       \* the questions under way: for which date, and what was read
    available,   \* the list the form keeps
    status,      \* idle, loading or error
    selection    \* the allocation in the form, or NoneChosen

fuelDraftVars == <<active, preloaded, entryDate, asked, available, status, selection>>

NoDate == "incomplete"
NoneChosen == "none"
Eligible(a, date) == date # NoDate /\ Quarter[a] = Quarter[date]
OptionsFor(date) == {a \in active : Eligible(a, date)}
Question(date) == [date |-> date, read |-> FALSE, list |-> {}]

\* First of the list: any of it, as the server orders it.
FirstOf(list) == IF list = {} THEN {NoneChosen} ELSE list

FuelDraftInit ==
    /\ active \in SUBSET Allocations
    /\ entryDate \in Dates
    /\ preloaded = OptionsFor(entryDate)
    /\ asked = {Question(entryDate)}
    /\ available = preloaded
    /\ status = "idle"
    \* A new draft holds the first of the list; a draft edited, the one it was saved with.
    /\ selection \in FirstOf(preloaded) \cup {a \in Allocations : Eligible(a, entryDate)}

-----------------------------------------------------------------------------
\* An allocation is activated, closed or cancelled.
ChangeAllocation(a) ==
    /\ active' = IF a \in active THEN active \ {a} ELSE active \cup {a}
    /\ UNCHANGED <<preloaded, entryDate, asked, available, status, selection>>

\* Typing a date aborts the question about the last one.
\* Fault: the question about the last date is left to answer.
UnabortedQuestions(questions) == questions
AbortedQuestions(questions) == {}
SetEntryDate(date) ==
    /\ date # entryDate
    /\ entryDate' = date
    /\ asked' = AbortedQuestions(asked) \cup (IF date = NoDate THEN {} ELSE {Question(date)})
    /\ status' = IF date = NoDate THEN "idle" ELSE "loading"
    /\ available' = IF date = NoDate THEN {} ELSE available
    /\ selection' = IF selection \in preloaded /\ ~Eligible(selection, date)
                    THEN NoneChosen ELSE selection
    /\ UNCHANGED <<active, preloaded>>

ReadOptions(q) ==
    /\ ~q.read
    /\ asked' = (asked \ {q}) \cup {[q EXCEPT !.read = TRUE, !.list = OptionsFor(q.date)]}
    /\ UNCHANGED <<active, preloaded, entryDate, available, status, selection>>

ReceiveOptions(q) ==
    /\ q.read
    /\ asked' = asked \ {q}
    /\ available' = q.list
    /\ IF selection \in q.list THEN UNCHANGED selection ELSE selection' \in FirstOf(q.list)
    /\ status' = "idle"
    /\ UNCHANGED <<active, preloaded, entryDate>>

OptionsFail(q) ==
    /\ asked' = asked \ {q}
    /\ available' = {}
    /\ status' = "error"
    /\ UNCHANGED <<active, preloaded, entryDate, selection>>

\* The select lists what is available for the date and is disabled while it loads.
Listed == {a \in available : Eligible(a, entryDate)}
Select(a) ==
    /\ status # "loading"
    /\ a \in Listed \cup {NoneChosen}
    /\ selection' = a
    /\ UNCHANGED <<active, preloaded, entryDate, asked, available, status>>

FuelDraftNext ==
    \/ \E a \in Allocations : ChangeAllocation(a)
    \/ \E date \in Dates \cup {NoDate} : SetEntryDate(date)
    \/ \E q \in asked : ReadOptions(q) \/ ReceiveOptions(q) \/ OptionsFail(q)
    \/ \E a \in Allocations \cup {NoneChosen} : Select(a)

FuelDraftSpec == FuelDraftInit /\ [][FuelDraftNext]_fuelDraftVars

-----------------------------------------------------------------------------
\* Once the list of a complete date has arrived, the allocation the form would
\* send is one the user sees in the list, or none: never one of an earlier date.
SelectionIsListed ==
    entryDate # NoDate /\ asked = {} /\ status = "idle"
    => selection \in Listed \cup {NoneChosen}
=============================================================================
