--------------------------- MODULE DispatchDraft ---------------------------
(***************************************************************************)
(* The form of a dispatch draft: the user chooses a date, a driver and a   *)
(* vehicle (together a slot), is told whether others reserved it, saves,   *)
(* and may be asked to review the conflicts of the slot and acknowledge    *)
(* them.                                                                   *)
(*                                                                         *)
(* Of the conflicts of a slot the model keeps whether there are any and    *)
(* how often they changed, which tells what a user has seen of them apart  *)
(* as the fingerprint of the conflicts does in the code.  The length of    *)
(* the reason an acknowledgment gives is left out, and the policy and the  *)
(* permission of the user do not change while the form is open.            *)
(***************************************************************************)
EXTENDS Naturals, FiniteSetsExt

CONSTANTS
    Slots,         \* the choices of date, driver and vehicle, other than 0
    MaxConflicts   \* bound: how often others reserve a slot or release it

ASSUME SlotAssumption == 0 \notin Slots

VARIABLES
    conflicts,  \* the conflicts of every slot, on the server
    mayAck,     \* the policy and the user's permission allow an acknowledgment
    chosen,     \* the slot in the form, 0 while it is incomplete
    lookups,    \* the questions under way: for which slot, and what the server read
    guidance,   \* the last answer: for which slot, what it was, when that was read
    asOf,       \* history: the conflicts of the chosen slot when it was chosen
    save,       \* the request to save under way
    context,    \* the conflicts the dialog shows
    reviewed,   \* the fingerprint whose box was ticked, as the dialog keeps it
    ticked,     \* history: the conflicts whose box the user once ticked, while they were shown
    outcome     \* the draft as saved

draftVars == <<conflicts, mayAck, chosen, lookups, guidance, asOf, save, context, reviewed,
               ticked, outcome>>

Free == [at |-> 0, any |-> FALSE]
Nothing == [slot |-> 0, seen |-> Free]
Fingerprint(slot) == [slot |-> slot, seen |-> conflicts[slot]]
Asked(slot) == [slot |-> slot, read |-> FALSE, seen |-> Free]
NoSave == [phase |-> "idle"]

NoGuidance == [slot |-> 0, kind |-> "none", seen |-> Free]
NotSaved == [slot |-> 0, seen |-> Free, acknowledged |-> FALSE]
NewForm == /\ save' = NoSave /\ context' = Nothing /\ reviewed' = Nothing
             /\ guidance' = NoGuidance /\ outcome' = NotSaved /\ ticked' = {}

\* A new draft holds the first driver and vehicle, if there are any; one that is
\* edited holds those it was saved with.
DraftInit ==
    /\ conflicts = [s \in Slots |-> Free]
    /\ mayAck \in BOOLEAN
    /\ \E s \in Slots \cup {0} :
         /\ chosen = s
         /\ lookups = IF s = 0 THEN {} ELSE {Asked(s)}
    /\ guidance = NoGuidance
    /\ asOf = 0
    /\ save = NoSave
    /\ context = Nothing
    /\ reviewed = Nothing
    /\ ticked = {}
    /\ outcome = NotSaved

-----------------------------------------------------------------------------
\* Others reserve the slot or release it.
Reserve(slot) ==
    /\ MapThenSumSet(LAMBDA s : conflicts[s].at, Slots) < MaxConflicts
    /\ \E any \in BOOLEAN :
         /\ any \/ conflicts[slot].any
         /\ conflicts' = [conflicts EXCEPT ![slot] = [at |-> @.at + 1, any |-> any]]
    /\ UNCHANGED <<mayAck, chosen, lookups, guidance, asOf, save, context, reviewed, ticked,
                   outcome>>

\* Choosing another slot aborts the question about the last one and asks anew.
\* Fault: the question about the last slot is left to answer.
UnabortedLookups(asked) == asked
AbortedLookups(asked) == {}
Choose(slot) ==
    /\ slot # chosen
    /\ chosen' = slot
    /\ lookups' = AbortedLookups(lookups) \cup (IF slot = 0 THEN {} ELSE {Asked(slot)})
    /\ asOf' = IF slot = 0 THEN 0 ELSE conflicts[slot].at
    /\ UNCHANGED <<conflicts, mayAck, guidance, save, context, reviewed, ticked, outcome>>

\* CheckDispatchScheduleAvailability reads the reservations of the slot.
ReadConflicts(l) ==
    /\ ~l.read
    /\ lookups' = (lookups \ {l}) \cup {[l EXCEPT !.read = TRUE, !.seen = conflicts[l.slot]]}
    /\ UNCHANGED <<conflicts, mayAck, chosen, guidance, asOf, save, context, reviewed, ticked,
                   outcome>>

Learn(l) ==
    /\ l.read
    /\ lookups' = lookups \ {l}
    /\ guidance' = [slot |-> l.slot, seen |-> l.seen,
                    kind |-> IF l.seen.any THEN "conflict" ELSE "available"]
    /\ UNCHANGED <<conflicts, mayAck, chosen, asOf, save, context, reviewed, ticked, outcome>>

LookupFails(l) ==
    /\ lookups' = lookups \ {l}
    /\ guidance' = [slot |-> l.slot, kind |-> "failure", seen |-> Free]
    /\ UNCHANGED <<conflicts, mayAck, chosen, asOf, save, context, reviewed, ticked, outcome>>

\* What the form shows of the slot it holds.
Guidance ==
    IF chosen = 0 THEN "waiting"
    ELSE IF guidance.slot = chosen THEN guidance.kind ELSE "loading"

-----------------------------------------------------------------------------
\* Saving what the form holds now, with or without an acknowledgment.  The form
\* can be sent again until the screen it gives way to arrives.
Send(acknowledged) ==
    /\ save = NoSave /\ chosen # 0
    /\ save' = [phase |-> "sent", slot |-> chosen, acknowledged |-> acknowledged]
SaveDraft ==
    /\ context = Nothing
    /\ Send(Nothing)
    /\ UNCHANGED <<conflicts, mayAck, chosen, lookups, guidance, asOf, context, reviewed, ticked,
                   outcome>>

\* The dialog lets the user confirm only the conflicts whose box is ticked.
\* Fault: a box once ticked stays ticked when other conflicts are shown.
ReviewedBefore == reviewed # Nothing
Reviewed == reviewed = context
Acknowledge ==
    /\ context # Nothing /\ mayAck /\ Reviewed
    /\ Send(context)
    /\ UNCHANGED <<conflicts, mayAck, chosen, lookups, guidance, asOf, context, reviewed, ticked,
                   outcome>>

Tick ==
    /\ context # Nothing /\ mayAck
    /\ IF Reviewed THEN reviewed' = Nothing /\ UNCHANGED ticked
                   ELSE reviewed' = context /\ ticked' = ticked \cup {context}
    /\ UNCHANGED <<conflicts, mayAck, chosen, lookups, guidance, asOf, save, context, outcome>>

CloseReview ==
    /\ context # Nothing
    /\ context' = Nothing
    /\ UNCHANGED <<conflicts, mayAck, chosen, lookups, guidance, asOf, save, reviewed, ticked,
                   outcome>>

\* The transaction decides on the conflicts it finds.  It saves over none, or over
\* those acknowledged as they are; it refuses an acknowledgment of none; and it
\* answers with the conflicts that are left to review.
Saves(now) == IF now.seen.any THEN mayAck /\ save.acknowledged = now
                              ELSE save.acknowledged = Nothing
Decide ==
    /\ save.phase = "sent"
    /\ save' = NoSave
    /\ LET now == Fingerprint(save.slot)
       IN  /\ outcome' = IF Saves(now) THEN [slot |-> save.slot, seen |-> now.seen,
                                             acknowledged |-> now.seen.any]
                                       ELSE outcome
           /\ context' = IF now.seen.any /\ ~Saves(now) THEN now ELSE context
    /\ UNCHANGED <<conflicts, mayAck, chosen, lookups, guidance, asOf, reviewed, ticked>>

SaveFails ==
    /\ save.phase = "sent"
    /\ save' = NoSave
    /\ UNCHANGED <<conflicts, mayAck, chosen, lookups, guidance, asOf, context, reviewed, ticked,
                   outcome>>

\* A saved form gives way to the draft's screen, from which it may be edited again.
EditAgain ==
    /\ outcome.slot # 0 /\ save = NoSave
    /\ chosen' = outcome.slot /\ lookups' = {Asked(outcome.slot)}
    /\ asOf' = conflicts[outcome.slot].at
    /\ NewForm
    /\ UNCHANGED <<conflicts, mayAck>>

DraftNext ==
    \/ \E s \in Slots : Reserve(s)
    \/ \E s \in Slots \cup {0} : Choose(s)
    \/ \E l \in lookups : ReadConflicts(l) \/ Learn(l) \/ LookupFails(l)
    \/ SaveDraft \/ Acknowledge \/ Tick \/ CloseReview
    \/ Decide \/ SaveFails \/ EditAgain

DraftSpec == DraftInit /\ [][DraftNext]_draftVars

-----------------------------------------------------------------------------
\* A draft saved over conflicts was saved over conflicts that its user ticked
\* as reviewed, for the slot saved, even if the form or the conflicts changed
\* while the dialog was open or a request under way.
AckIsReviewed ==
    outcome.acknowledged => [slot |-> outcome.slot, seen |-> outcome.seen] \in ticked

\* Once no question is under way, the guidance for the slot in the form is what
\* the server read after the slot was chosen, never an answer to an earlier choice.
GuidanceIsCurrent ==
    lookups = {} /\ Guidance \in {"available", "conflict"} => guidance.seen.at >= asOf
=============================================================================
