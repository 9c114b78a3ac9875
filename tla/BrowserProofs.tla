--------------------------- MODULE BrowserProofs ---------------------------
(***************************************************************************)
(* What the screens of one user keep true, whatever order questions,       *)
(* answers, failures and changes come in: the two forms of a draft, the    *)
(* list of exports, reports read page by page, lists of records and their  *)
(* audit trail, the screens and their forms; for any slots, dates, facts,  *)
(* records, filters, page sizes and number of changes, and for a user of   *)
(* any set of the seeded roles.                                            *)
(***************************************************************************)
EXTENDS Workbench, DispatchDraft, FuelDraft, ExportList, Reports, Registry, SequenceTheorems,
        DataTheorems, TLAPS

(***************************************************************************)
(* The list of exports: a timer is set or a question is under way, one of  *)
(* the two, while a job shown has not ended; else neither.                 *)
(***************************************************************************)
Asking ==
    \/ polls = {} /\ timers = Timers(listed)
    \/ Unfinished(listed) /\ timers = 0 /\ \E p : polls = {p}

\* A list put on the screen asks for what has not ended in it (Mount).
LEMMA MountAsks == ASSUME NEW l, Mount(l) PROVE Asking'
  BY DEF Mount, Asking, Timers, Unfinished

\* Every step keeps to one timer or one question, and to none once all jobs ended.
LEMMA AskingGoesOn == Asking /\ [ListNext]_listVars => Asking'
<1> SUFFICES ASSUME Asking, [ListNext]_listVars PROVE Asking'
  OBVIOUS
<1>1. ASSUME NEW e \in Jobs, Progress(e) PROVE Asking'
  BY <1>1 DEF Progress, Asking, Timers, Unfinished
<1>2. CASE RefreshPage
  <2>1. CASE SameKey(onServer)
    BY <1>2, <2>1 DEF RefreshPage, Asking, Timers, Unfinished
  <2>2. CASE ~SameKey(onServer)
    <3>1. Mount(onServer)
      BY <1>2, <2>2 DEF RefreshPage
    <3> QED  BY <3>1, MountAsks
  <2> QED  BY <2>1, <2>2
<1>3. CASE PollStarts
  <2>1. polls = {} /\ timers = 1 /\ Unfinished(listed)
    BY <1>3 DEF PollStarts, Asking, Timers
  <2>2. /\ polls' = {[read |-> FALSE, jobs |-> NoAnswer]}
        /\ timers' = 0 /\ listed' = listed
    BY <1>3, <2>1 DEF PollStarts
  <2> QED  BY <2>1, <2>2 DEF Asking, Unfinished
<1>4. ASSUME NEW p \in polls, ListJobs(p) PROVE Asking'
  <2>1. polls = {p} /\ timers = 0 /\ Unfinished(listed)
    BY DEF Asking
  <2>2. /\ polls' = {[read |-> TRUE, jobs |-> onServer]}
        /\ timers' = 0 /\ listed' = listed
    BY <1>4, <2>1 DEF ListJobs
  <2> QED  BY <2>1, <2>2 DEF Asking, Unfinished
<1>5. ASSUME NEW p \in polls, PollAnswered(p) PROVE Asking'
  BY <1>5, MountAsks DEF PollAnswered
<1>6. ASSUME NEW p \in polls, PollFails(p) PROVE Asking'
  <2>1. polls = {p} /\ timers = 0 /\ Unfinished(listed)
    BY DEF Asking
  <2>2. polls' = {} /\ timers' = 1 /\ listed' = listed
    BY <1>6, <2>1 DEF PollFails
  <2> QED  BY <2>1, <2>2 DEF Asking, Timers, Unfinished
<1>7. CASE UNCHANGED listVars
  BY <1>7 DEF listVars, Asking, Timers, Unfinished
<1> QED  BY <1>1, <1>2, <1>3, <1>4, <1>5, <1>6, <1>7 DEF ListNext

\* A list that keeps to one of the two asks once (AsksOnce).
LEMMA AskingOnce == Asking => AsksOnce
<1> SUFFICES ASSUME Asking PROVE AsksOnce
  OBVIOUS
<1>1. CASE polls = {} /\ timers = Timers(listed)
  <2>1. Cardinality(polls) = 0
    BY <1>1, FS_EmptySet
  <2> QED  BY <1>1, <2>1 DEF AsksOnce, Timers
<1>2. CASE Unfinished(listed) /\ timers = 0 /\ \E p : polls = {p}
  <2>1. Cardinality(polls) = 1
    BY <1>2, FS_Singleton
  <2> QED  BY <1>2, <2>1 DEF AsksOnce
<1> QED  BY <1>1, <1>2 DEF Asking

\* The list of exports asks at one pace while a job it shows is under way and
\* stops when all have ended (AsksOnce), for any jobs.
THEOREM ListAsksOnce == ListSpec => []AsksOnce
<1>1. ListInit => Asking
  BY DEF ListInit, Asking
<1>2. Asking /\ [ListNext]_listVars => Asking'
  BY AskingGoesOn
<1>3. Asking => AsksOnce
  BY AskingOnce
<1> QED  BY <1>1, <1>2, <1>3, PTL DEF ListSpec

(***************************************************************************)
(* The form of an issuance.                                                *)
(***************************************************************************)
Questions == [date : Dates \cup {NoDate}, read : BOOLEAN, list : SUBSET Allocations]
\* The one list on its way is of the date in the form.
AsksOfDate ==
    /\ active \subseteq Allocations
    /\ asked \subseteq Questions
    /\ \A q \in asked : /\ q.date = entryDate
                        /\ q.read => \A a \in q.list : Eligible(a, entryDate)

\* Every step keeps the allocations listed those of the entry date.
LEMMA ListIsOfDate ==
    AsksOfDate /\ SelectionIsListed /\ [FuelDraftNext]_fuelDraftVars
        => AsksOfDate' /\ SelectionIsListed'
<1> SUFFICES ASSUME AsksOfDate, SelectionIsListed, [FuelDraftNext]_fuelDraftVars
             PROVE  AsksOfDate' /\ SelectionIsListed'
  OBVIOUS
<1>1. ASSUME NEW a \in Allocations, ChangeAllocation(a)
      PROVE  AsksOfDate' /\ SelectionIsListed'
  BY <1>1 DEF ChangeAllocation, AsksOfDate, SelectionIsListed, Listed, Eligible
<1>2. ASSUME NEW date \in Dates \cup {NoDate}, SetEntryDate(date)
      PROVE  AsksOfDate' /\ SelectionIsListed'
  <2>1. /\ entryDate' = date /\ active' = active
        /\ asked' = IF date = NoDate THEN {} ELSE {Question(date)}
    BY <1>2 DEF SetEntryDate, AbortedQuestions
  <2>2. Question(date) \in Questions /\ Question(date).date = date /\ ~Question(date).read
    BY DEF Question, Questions
  <2>3. AsksOfDate'
    BY <2>1, <2>2 DEF AsksOfDate
  <2>4. entryDate' = NoDate \/ asked' # {}
    BY <2>1
  <2> QED  BY <2>3, <2>4 DEF SelectionIsListed
<1>3. ASSUME NEW q \in asked, ReadOptions(q)
      PROVE  AsksOfDate' /\ SelectionIsListed'
  <2> DEFINE answered == [q EXCEPT !.read = TRUE, !.list = OptionsFor(q.date)]
  <2>1. /\ asked' = (asked \ {q}) \cup {answered}
        /\ active' = active /\ entryDate' = entryDate
    BY <1>3 DEF ReadOptions
  <2>2. q \in Questions /\ q.date = entryDate
    BY DEF AsksOfDate
  <2>3. OptionsFor(q.date) \in SUBSET Allocations
    BY DEF OptionsFor, AsksOfDate
  <2>4. answered \in Questions /\ answered.date = entryDate /\ answered.list = OptionsFor(entryDate)
    BY <2>2, <2>3 DEF Questions
  <2>5. \A a \in OptionsFor(entryDate) : Eligible(a, entryDate)
    BY DEF OptionsFor
  <2> HIDE DEF answered
  <2>6. AsksOfDate'
    BY <2>1, <2>4, <2>5 DEF AsksOfDate, Eligible
  <2>7. asked' # {}
    BY <2>1
  <2> QED  BY <2>6, <2>7 DEF SelectionIsListed
<1>4. ASSUME NEW q \in asked, ReceiveOptions(q)
      PROVE  AsksOfDate' /\ SelectionIsListed'
  <2>1. /\ asked' = asked \ {q} /\ available' = q.list
        /\ active' = active /\ entryDate' = entryDate
        /\ q.read
    BY <1>4 DEF ReceiveOptions
  <2>2. AsksOfDate'
    BY <2>1 DEF AsksOfDate, Eligible
  <2>3. \A a \in q.list : Eligible(a, entryDate)
    BY <2>1 DEF AsksOfDate
  <2>4. selection' \in q.list \cup {NoneChosen}
    BY <1>4 DEF ReceiveOptions, FirstOf
  <2>5. selection' \in Listed' \cup {NoneChosen}
    BY <2>1, <2>3, <2>4 DEF Listed, Eligible
  <2> QED  BY <2>2, <2>5 DEF SelectionIsListed
<1>5. ASSUME NEW q \in asked, OptionsFail(q)
      PROVE  AsksOfDate' /\ SelectionIsListed'
  BY <1>5 DEF OptionsFail, AsksOfDate, SelectionIsListed, Eligible
<1>6. ASSUME NEW a \in Allocations \cup {NoneChosen}, Select(a)
      PROVE  AsksOfDate' /\ SelectionIsListed'
  BY <1>6 DEF Select, AsksOfDate, SelectionIsListed, Listed, Eligible
<1>7. CASE UNCHANGED fuelDraftVars
  BY <1>7 DEF fuelDraftVars, AsksOfDate, SelectionIsListed, Listed, Eligible
<1> QED  BY <1>1, <1>2, <1>3, <1>4, <1>5, <1>6, <1>7 DEF FuelDraftNext

\* The form of an issuance never sends an allocation of an earlier date
\* (SelectionIsListed), for any dates, allocations and quarters.
THEOREM SelectionStaysListed == FuelDraftSpec => []SelectionIsListed
<1>1. FuelDraftInit => AsksOfDate /\ SelectionIsListed
  <2> SUFFICES ASSUME FuelDraftInit PROVE AsksOfDate /\ SelectionIsListed
    OBVIOUS
  <2>1. Question(entryDate) \in Questions /\ ~Question(entryDate).read
        /\ Question(entryDate).date = entryDate
    BY DEF Question, Questions, FuelDraftInit
  <2> QED  BY <2>1 DEF FuelDraftInit, AsksOfDate, SelectionIsListed
<1>2. AsksOfDate /\ SelectionIsListed /\ [FuelDraftNext]_fuelDraftVars
          => AsksOfDate' /\ SelectionIsListed'
  BY ListIsOfDate
<1> QED  BY <1>1, <1>2, PTL DEF FuelDraftSpec

(***************************************************************************)
(* The form of a dispatch.                                                 *)
(***************************************************************************)
\* What the dialog keeps as reviewed, and a request under way acknowledges, was
\* ticked while it was shown.
TickedFirst ==
    /\ reviewed = Nothing \/ reviewed \in ticked
    /\ save = NoSave \/ /\ save = [phase |-> "sent", slot |-> save.slot,
                                   acknowledged |-> save.acknowledged]
                        /\ save.acknowledged = Nothing \/ save.acknowledged \in ticked

\* Every step keeps what is acknowledged what the user was shown and ticked.
LEMMA ReviewGoesOn ==
    TickedFirst /\ AckIsReviewed /\ [DraftNext]_draftVars => TickedFirst' /\ AckIsReviewed'
<1> SUFFICES ASSUME TickedFirst, AckIsReviewed, [DraftNext]_draftVars
             PROVE  TickedFirst' /\ AckIsReviewed'
  OBVIOUS
<1>1. ASSUME UNCHANGED <<save, reviewed, ticked, outcome>>
      PROVE  TickedFirst' /\ AckIsReviewed'
  BY <1>1 DEF TickedFirst, AckIsReviewed
<1>2. CASE SaveDraft
  <2>1. /\ save' = [phase |-> "sent", slot |-> chosen, acknowledged |-> Nothing]
        /\ UNCHANGED <<reviewed, ticked, outcome>>
    BY <1>2 DEF SaveDraft, Send
  <2> QED  BY <2>1 DEF TickedFirst, AckIsReviewed
<1>3. CASE Acknowledge
  <2>1. /\ save' = [phase |-> "sent", slot |-> chosen, acknowledged |-> context]
        /\ context # Nothing /\ reviewed = context
        /\ UNCHANGED <<reviewed, ticked, outcome>>
    BY <1>3 DEF Acknowledge, Send, Reviewed
  <2> QED  BY <2>1 DEF TickedFirst, AckIsReviewed
<1>4. CASE Tick
  <2>1. /\ UNCHANGED <<save, outcome>>
        /\ ticked \subseteq ticked'
        /\ reviewed' = Nothing \/ reviewed' \in ticked'
    BY <1>4 DEF Tick
  <2> QED  BY <2>1 DEF TickedFirst, AckIsReviewed
<1>5. CASE Decide
  <2>1. PICK now : now = [slot |-> save.slot, seen |-> conflicts[save.slot]] /\ now = Fingerprint(save.slot)
    BY DEF Fingerprint
  <2>2. /\ save' = NoSave /\ UNCHANGED <<reviewed, ticked>>
        /\ outcome' = IF Saves(now) THEN [slot |-> save.slot, seen |-> now.seen,
                                          acknowledged |-> now.seen.any]
                                    ELSE outcome
    BY <1>5, <2>1, Zenon DEF Decide
  <2>3. TickedFirst' /\ ticked' = ticked
    BY <2>2 DEF TickedFirst
  <2>4. CASE ~Saves(now)
    <3>1. outcome' = outcome
      BY <2>2, <2>4, Zenon
    <3> QED  BY <2>3, <3>1, Zenon DEF AckIsReviewed
  <2>5. CASE Saves(now)
    <3>1. outcome' = [slot |-> save.slot, seen |-> now.seen, acknowledged |-> now.seen.any]
      BY <2>2, <2>5, Zenon
    <3>2. CASE ~now.seen.any
      <4>1. outcome'.acknowledged = now.seen.any
        BY <3>1
      <4>2. ~outcome'.acknowledged
        BY <3>2, <4>1
      <4> QED  BY <2>3, <4>2, Zenon DEF AckIsReviewed
    <3>3. CASE now.seen.any
      <4>1. save.acknowledged = now
        BY <2>5, <3>3, Zenon DEF Saves
      <4>2. now # Nothing
        BY <3>3 DEF Nothing, Free
      <4>3. save # NoSave
        BY <1>5 DEF Decide, NoSave
      <4>4. now \in ticked
        BY <4>1, <4>2, <4>3 DEF TickedFirst
      <4>5. outcome'.slot = save.slot /\ outcome'.seen = now.seen
        BY <3>1
      <4>6. [slot |-> outcome'.slot, seen |-> outcome'.seen] = now
        BY <2>1, <4>5
      <4> QED  BY <2>3, <4>4, <4>6, Zenon DEF AckIsReviewed
    <3> QED  BY <3>2, <3>3
  <2> QED  BY <2>3, <2>4, <2>5
<1>6. CASE SaveFails
  BY <1>6 DEF SaveFails, TickedFirst, AckIsReviewed
<1>7. CASE EditAgain
  BY <1>7 DEF EditAgain, NewForm, NotSaved, TickedFirst, AckIsReviewed
<1>8. CASE CloseReview
  BY <1>1, <1>8 DEF CloseReview
<1>9. ASSUME NEW l \in lookups, ReadConflicts(l) \/ Learn(l) \/ LookupFails(l)
      PROVE  TickedFirst' /\ AckIsReviewed'
  BY <1>1, <1>9 DEF ReadConflicts, Learn, LookupFails
<1>10. ASSUME NEW s \in Slots \cup {0}, Choose(s) \/ (s \in Slots /\ Reserve(s))
       PROVE  TickedFirst' /\ AckIsReviewed'
  BY <1>1, <1>10 DEF Choose, Reserve
<1>11. CASE UNCHANGED draftVars
  BY <1>1, <1>11 DEF draftVars
<1> QED  BY <1>2, <1>3, <1>4, <1>5, <1>6, <1>7, <1>8, <1>9, <1>10, <1>11 DEF DraftNext

\* A draft is saved over conflicts only if its user ticked these as reviewed
\* (AckIsReviewed), for any slots and however often conflicts change.
THEOREM AckStaysReviewed == DraftSpec => []AckIsReviewed
<1>1. DraftInit => TickedFirst /\ AckIsReviewed
  BY DEF DraftInit, NotSaved, TickedFirst, AckIsReviewed
<1>2. TickedFirst /\ AckIsReviewed /\ [DraftNext]_draftVars => TickedFirst' /\ AckIsReviewed'
  BY ReviewGoesOn
<1> QED  BY <1>1, <1>2, PTL DEF DraftSpec

Seen == [at : Nat, any : BOOLEAN]
Lookup == [slot : Slots, read : BOOLEAN, seen : Seen]
\* Every question is about the slot in the form, was read since that was chosen,
\* and when none is under way the guidance is its answer.
LookupsFollow ==
    /\ conflicts \in [Slots -> Seen]
    /\ chosen \in Slots \cup {0} /\ outcome.slot \in Slots \cup {0}
    /\ save = NoSave \/ save.slot \in Slots
    /\ lookups \subseteq Lookup
    /\ asOf \in Nat
    /\ chosen # 0 => asOf <= conflicts[chosen].at
    /\ \A l \in lookups : l.slot = chosen /\ (l.read => l.seen.at >= asOf)

\* Every step keeps the guidance that of the slot chosen, and current.
LEMMA GuidanceFollows ==
    LookupsFollow /\ GuidanceIsCurrent /\ [DraftNext]_draftVars
        => LookupsFollow' /\ GuidanceIsCurrent'
<1> SUFFICES ASSUME LookupsFollow, GuidanceIsCurrent, [DraftNext]_draftVars
             PROVE  LookupsFollow' /\ GuidanceIsCurrent'
  OBVIOUS
<1> DEFINE calm == UNCHANGED <<conflicts, chosen, lookups, guidance, asOf>>
<1>0. \A s \in Slots : Asked(s) \in Lookup /\ Asked(s).slot = s /\ ~Asked(s).read
  BY DEF Asked, Free, Lookup, Seen
<1>1. ASSUME calm, outcome'.slot \in Slots \cup {0}, save' = NoSave \/ save'.slot \in Slots
      PROVE  LookupsFollow' /\ GuidanceIsCurrent'
  BY <1>1 DEF LookupsFollow, GuidanceIsCurrent, Guidance
<1>2. ASSUME NEW s \in Slots, Reserve(s) PROVE LookupsFollow' /\ GuidanceIsCurrent'
  <2>1. /\ UNCHANGED <<chosen, lookups, guidance, asOf, save, outcome>>
    BY <1>2 DEF Reserve
  <2>2. PICK any \in BOOLEAN :
            conflicts' = [conflicts EXCEPT ![s] = [at |-> @.at + 1, any |-> any]]
    BY <1>2 DEF Reserve
  <2>3. conflicts' \in [Slots -> Seen] /\ \A t \in Slots : conflicts[t].at <= conflicts'[t].at
    BY <2>2 DEF LookupsFollow, Seen
  <2>4. chosen # 0 => asOf <= conflicts'[chosen].at
    <3>1. CASE chosen = 0
      BY <3>1
    <3>2. CASE chosen \in Slots
      <4>1. conflicts[chosen].at \in Nat /\ conflicts'[chosen].at \in Nat
        BY <2>3, <3>2 DEF LookupsFollow, Seen
      <4> QED  BY <2>3, <3>2, <4>1 DEF LookupsFollow
    <3> QED  BY <3>1, <3>2 DEF LookupsFollow
  <2> QED  BY <2>1, <2>3, <2>4 DEF LookupsFollow, GuidanceIsCurrent, Guidance
<1>3. ASSUME NEW s \in Slots \cup {0}, Choose(s) PROVE LookupsFollow' /\ GuidanceIsCurrent'
  <2>1. /\ chosen' = s /\ UNCHANGED <<conflicts, guidance, save, outcome>>
        /\ lookups' = IF s = 0 THEN {} ELSE {Asked(s)}
        /\ asOf' = IF s = 0 THEN 0 ELSE conflicts[s].at
    BY <1>3 DEF Choose, AbortedLookups
  <2>2. CASE s = 0
    BY <2>1, <2>2 DEF LookupsFollow, GuidanceIsCurrent, Guidance
  <2>3. CASE s # 0
    <3>1. s \in Slots /\ conflicts[s].at \in Nat
      BY <2>3 DEF LookupsFollow, Seen
    <3>2. lookups' = {Asked(s)} /\ asOf' = conflicts[s].at
      BY <2>1, <2>3
    <3>3. LookupsFollow'
      BY <1>0, <2>1, <3>1, <3>2 DEF LookupsFollow
    <3> QED  BY <3>2, <3>3 DEF GuidanceIsCurrent
  <2> QED  BY <2>2, <2>3
<1>4. ASSUME NEW l \in lookups, ReadConflicts(l) PROVE LookupsFollow' /\ GuidanceIsCurrent'
  <2> DEFINE answered == [l EXCEPT !.read = TRUE, !.seen = conflicts[l.slot]]
  <2>1. /\ lookups' = (lookups \ {l}) \cup {answered}
        /\ UNCHANGED <<conflicts, chosen, guidance, asOf, save, outcome>>
    BY <1>4 DEF ReadConflicts
  <2>2. l \in Lookup /\ l.slot = chosen /\ chosen \in Slots
    BY DEF LookupsFollow, Lookup
  <2>3. conflicts[chosen] \in Seen /\ conflicts[chosen].at \in Nat
    BY <2>2 DEF LookupsFollow, Seen
  <2>4. answered \in Lookup /\ answered.slot = chosen /\ answered.seen = conflicts[chosen]
    BY <2>2, <2>3 DEF Lookup
  <2>5. chosen # 0 => conflicts[chosen].at >= asOf
    BY <2>3 DEF LookupsFollow
  <2> HIDE DEF answered
  <2>6. chosen # 0
    BY <2>2, SlotAssumption
  <2>7. LookupsFollow'
    BY <2>1, <2>4, <2>5, <2>6 DEF LookupsFollow
  <2> QED  BY <2>1, <2>7 DEF GuidanceIsCurrent
<1>5. ASSUME NEW l \in lookups, Learn(l) PROVE LookupsFollow' /\ GuidanceIsCurrent'
  <2>1. /\ lookups' = lookups \ {l}
        /\ guidance'.seen = l.seen
        /\ UNCHANGED <<conflicts, chosen, asOf, save, outcome>>
        /\ l.read
    BY <1>5 DEF Learn
  <2>2. l.seen.at >= asOf
    BY <2>1 DEF LookupsFollow
  <2> QED  BY <2>1, <2>2 DEF LookupsFollow, GuidanceIsCurrent
<1>6. ASSUME NEW l \in lookups, LookupFails(l) PROVE LookupsFollow' /\ GuidanceIsCurrent'
  <2>1. /\ lookups' = lookups \ {l}
        /\ guidance' = [slot |-> l.slot, kind |-> "failure", seen |-> Free]
        /\ UNCHANGED <<conflicts, chosen, asOf, save, outcome>>
    BY <1>6 DEF LookupFails
  <2>2. LookupsFollow'
    BY <2>1 DEF LookupsFollow
  <2>3. Guidance' \notin {"available", "conflict"}
    BY <2>1 DEF Guidance
  <2> QED  BY <2>2, <2>3 DEF GuidanceIsCurrent
<1>7. CASE SaveDraft \/ Acknowledge
  <2>1. calm /\ outcome' = outcome /\ save'.slot = chosen /\ chosen # 0
    BY <1>7 DEF SaveDraft, Acknowledge, Send
  <2> QED  BY <1>1, <2>1 DEF LookupsFollow
<1>8. CASE Tick \/ CloseReview \/ SaveFails
  <2>1. calm /\ outcome' = outcome /\ (save' = save \/ save' = NoSave)
    BY <1>8 DEF Tick, CloseReview, SaveFails
  <2> QED  BY <1>1, <2>1 DEF LookupsFollow
<1>9. CASE Decide
  <2>1. /\ calm /\ save' = NoSave /\ save # NoSave
        /\ outcome'.slot \in {save.slot, outcome.slot}
    BY <1>9 DEF Decide, NoSave
  <2> QED  BY <1>1, <2>1 DEF LookupsFollow
<1>10. CASE EditAgain
  <2>1. /\ outcome.slot \in Slots /\ chosen' = outcome.slot
        /\ lookups' = {Asked(outcome.slot)} /\ asOf' = conflicts[outcome.slot].at
        /\ save' = NoSave /\ outcome'.slot = 0 /\ conflicts' = conflicts
    BY <1>10 DEF EditAgain, NewForm, NotSaved, LookupsFollow
  <2>2. conflicts[outcome.slot].at \in Nat
    BY <2>1 DEF LookupsFollow, Seen
  <2>3. LookupsFollow'
    BY <1>0, <2>1, <2>2 DEF LookupsFollow
  <2> QED  BY <2>1, <2>3 DEF GuidanceIsCurrent
<1>11. CASE UNCHANGED draftVars
  BY <1>1, <1>11 DEF draftVars, LookupsFollow
<1> QED
  BY <1>2, <1>3, <1>4, <1>5, <1>6, <1>7, <1>8, <1>9, <1>10, <1>11 DEF DraftNext

\* The guidance shown once no question is under way is of the slot in the form and
\* was read after it was chosen (GuidanceIsCurrent), for any slots.
THEOREM GuidanceStaysCurrent == DraftSpec => []GuidanceIsCurrent
<1>1. DraftInit => LookupsFollow /\ GuidanceIsCurrent
  <2> SUFFICES ASSUME DraftInit PROVE LookupsFollow /\ GuidanceIsCurrent
    OBVIOUS
  <2>1. \A s \in Slots : Asked(s) \in Lookup /\ Asked(s).slot = s /\ ~Asked(s).read
    BY DEF Asked, Free, Lookup, Seen
  <2>2. conflicts \in [Slots -> Seen] /\ \A s \in Slots : conflicts[s].at = 0
    BY DEF DraftInit, Free, Seen
  <2>3. /\ chosen \in Slots \cup {0} /\ asOf = 0 /\ save = NoSave /\ outcome.slot = 0
        /\ lookups = IF chosen = 0 THEN {} ELSE {Asked(chosen)}
    BY DEF DraftInit, NotSaved
  <2>4. GuidanceIsCurrent
    BY DEF DraftInit, NoGuidance, GuidanceIsCurrent, Guidance
  <2> QED  BY <2>1, <2>2, <2>3, <2>4 DEF LookupsFollow
<1>2. LookupsFollow /\ GuidanceIsCurrent /\ [DraftNext]_draftVars
          => LookupsFollow' /\ GuidanceIsCurrent'
  BY GuidanceFollows
<1> QED  BY <1>1, <1>2, PTL DEF DraftSpec

-----------------------------------------------------------------------------
(***************************************************************************)
(* Reports.  A page holds the first rows after its cursor, in the one order*)
(* of the report; a row whose facts nobody touched stays where it was.  So *)
(* what is read so far is all there was up to the cursor, but for touched  *)
(* rows.                                                                   *)
(***************************************************************************)
FactsTyped ==
    /\ fuel \in [DOMAIN Issuances -> FuelFacts]
    /\ dispatch \in [DOMAIN Trips -> DispatchFacts]

\* Issuances and dispatches stay well formed, whatever is posted, voided or moved.
LEMMA FactsStayTyped == FactsTyped /\ [ReportNext]_reportVars => FactsTyped'
<1> SUFFICES ASSUME FactsTyped, [ReportNext]_reportVars PROVE FactsTyped'
  OBVIOUS
<1>1. CASE ChangeFuel
  <2>1. fuel' \in FuelChanges /\ dispatch' = dispatch
    BY <1>1 DEF ChangeFuel
  <2>2. ASSUME NEW k \in DOMAIN Issuances, NEW s \in {"POSTED", "VOIDED"},
               fuel' = [fuel EXCEPT ![k].status = s]
        PROVE  FactsTyped'
    BY <2>1, <2>2 DEF FactsTyped, FuelFacts
  <2>3. ASSUME NEW a, NEW o \in Offices,
               fuel' = [k \in DOMAIN fuel |-> IF fuel[k].allocation = a
                                              THEN [fuel[k] EXCEPT !.office = o] ELSE fuel[k]]
        PROVE  FactsTyped'
    <3>1. ASSUME NEW k \in DOMAIN Issuances
          PROVE  fuel'[k] \in FuelFacts
      <4>1. fuel[k] \in FuelFacts /\ o \in Int
        BY FactsAssumption DEF FactsTyped
      <4>2. fuel'[k] = fuel[k] \/ fuel'[k] = [fuel[k] EXCEPT !.office = o]
        BY <2>3 DEF FactsTyped
      <4>3. [fuel[k] EXCEPT !.office = o] \in FuelFacts
        BY <4>1 DEF FuelFacts
      <4>4. QED BY <4>1, <4>2, <4>3
    <3>2. fuel' = [k \in DOMAIN Issuances |-> fuel'[k]]
      BY <2>3 DEF FactsTyped
    <3>3. QED BY <2>1, <3>1, <3>2 DEF FactsTyped
  <2>4. DOMAIN fuel = DOMAIN Issuances
    BY DEF FactsTyped
  <2>5. \/ \E k \in DOMAIN fuel : \E s \in {"POSTED", "VOIDED"} :
             fuel' = [fuel EXCEPT ![k].status = s]
        \/ \E a \in {fuel[k].allocation : k \in DOMAIN fuel}, o \in Offices :
             fuel' = [k \in DOMAIN fuel |-> IF fuel[k].allocation = a
                                            THEN [fuel[k] EXCEPT !.office = o] ELSE fuel[k]]
    BY <2>1 DEF FuelChanges
  <2>6. CASE \E k \in DOMAIN fuel : \E s \in {"POSTED", "VOIDED"} :
                 fuel' = [fuel EXCEPT ![k].status = s]
    BY <2>2, <2>4, <2>6
  <2>7. CASE \E a \in {fuel[k].allocation : k \in DOMAIN fuel}, o \in Offices :
                 fuel' = [k \in DOMAIN fuel |-> IF fuel[k].allocation = a
                                                THEN [fuel[k] EXCEPT !.office = o] ELSE fuel[k]]
    <3>1. PICK a \in {fuel[k].allocation : k \in DOMAIN fuel}, o \in Offices :
                 fuel' = [k \in DOMAIN fuel |-> IF fuel[k].allocation = a
                                                THEN [fuel[k] EXCEPT !.office = o] ELSE fuel[k]]
      BY <2>7
    <3>2. QED BY <2>3, <3>1
  <2>8. QED BY <2>5, <2>6, <2>7
<1>2. CASE ChangeDispatch
  <2>1. dispatch' \in DispatchChanges /\ fuel' = fuel
    BY <1>2 DEF ChangeDispatch
  <2>2. ASSUME NEW k \in DOMAIN Trips, NEW s \in {"DISPATCHED", "COMPLETED", "CANCELLED"},
               dispatch' = [dispatch EXCEPT ![k].status = s]
        PROVE  FactsTyped'
    BY <2>1, <2>2 DEF FactsTyped, DispatchFacts
  <2>3. ASSUME NEW k \in DOMAIN Trips, NEW d \in Days, dispatch' = [dispatch EXCEPT ![k].date = d]
        PROVE  FactsTyped'
    BY <2>1, <2>3, FactsAssumption DEF FactsTyped, DispatchFacts
  <2>4. DOMAIN dispatch = DOMAIN Trips
    BY DEF FactsTyped
  <2>5. QED BY <2>1, <2>2, <2>3, <2>4 DEF DispatchChanges
<1>3. CASE UNCHANGED <<fuel, dispatch>>
  BY <1>3 DEF FactsTyped
<1>4. QED
  BY <1>1, <1>2, <1>3 DEF ReportNext, GetReport, RequestReportExport, NextPage, ReadPage, Totals,
     ExportFails, Leave, reportVars

\* What is added up is added up as a sum of DataTheorems.
LEMMA SumIsTotal == ASSUME NEW f PROVE Sum(f) = Total(f, DOMAIN f)
  BY DEF Sum, MapThenSumSet, MapThenFoldSet, Total, Adds, Pick

Measured == [count : Int, liters : Int, amount : Int, distance : Int]
RowSpace == [key : Int, of : Measured, date : Int]

\* The facts a report is of: finitely many, with integer keys and dates.
LEMMA FactsOf ==
    ASSUME FactsTyped, NEW f \in Requests
    PROVE  /\ IsFiniteSet(DOMAIN Facts(f)) /\ DOMAIN Facts(f) \subseteq Int
           /\ \A k \in DOMAIN Facts(f) :
                  KeyOf(f, k, Facts(f)[k]) \in Int /\ Facts(f)[k].date \in Int
<1>1. /\ DOMAIN fuel = DOMAIN Issuances /\ DOMAIN dispatch = DOMAIN Trips
      /\ \A k \in DOMAIN fuel : fuel[k] \in FuelFacts
      /\ \A k \in DOMAIN dispatch : dispatch[k] \in DispatchFacts
  BY DEF FactsTyped
<1>2. IsFiniteSet(DOMAIN Facts(f)) /\ DOMAIN Facts(f) \subseteq Int
  BY <1>1, FactsAssumption DEF Facts
<1>3. ASSUME NEW k \in DOMAIN Facts(f)
      PROVE  KeyOf(f, k, Facts(f)[k]) \in Int /\ Facts(f)[k].date \in Int
  <2>1. k \in Int
    BY <1>2
  <2>2. CASE f.type \in DispatchReports
    <3>1. Facts(f)[k] \in DispatchFacts
      BY <1>1, <2>2 DEF Facts
    <3>2. f.type \in {"DISPATCH", "DISPATCH_COUNT_BY_OFFICE", "VEHICLE_UTILIZATION"}
      BY <2>2 DEF DispatchReports
    <3>3. QED BY <2>1, <3>1, <3>2 DEF KeyOf, DispatchFacts, Details
  <2>3. CASE f.type \notin DispatchReports
    <3>1. Facts(f)[k] \in FuelFacts
      BY <1>1, <2>3 DEF Facts
    <3>2. f.type \in {"FUEL_ISSUANCE", "FUEL_BY_OFFICE", "FUEL_BY_VEHICLE", "FUEL_TYPE_TOTALS",
                      "FUEL_AMOUNT_BY_PERIOD", "BUDGET_ALLOCATION_ACTIVITY"}
      BY <2>3, RequestsAssumption DEF DispatchReports, IncludedStatuses
    <3>3. PeriodBucket(f, Facts(f)[k].date) \in Int
      BY <3>1, RequestsAssumption DEF PeriodBucket, Resolved, FuelFacts
    <3>4. QED
      <4> HIDE DEF PeriodBucket
      <4>1. QED BY <2>1, <3>1, <3>2, <3>3 DEF KeyOf, FuelFacts, Details
  <2>4. QED BY <2>2, <2>3
<1>4. QED BY <1>2, <1>3

\* What is measured of a group is numbers.
LEMMA MeasuresTyped ==
    ASSUME FactsTyped, NEW f \in Requests, NEW ks \in SUBSET DOMAIN Facts(f), IsFiniteSet(ks)
    PROVE  Measures(f, ks) \in Measured
<1>1. Cardinality(ks) \in Int
  BY FS_CardinalityType
<1>2. ASSUME NEW g, DOMAIN g = ks, \A k \in ks : g[k] \in Int
      PROVE  Sum(g) \in Int
  BY <1>2, SumIsTotal, TotalIsInt
<1>3. f.type \notin DispatchReports =>
          Sum([k \in ks |-> fuel[k].liters]) \in Int /\ Sum([k \in ks |-> fuel[k].amount]) \in Int
  <2>1. SUFFICES ASSUME f.type \notin DispatchReports
                 PROVE  /\ Sum([k \in ks |-> fuel[k].liters]) \in Int
                        /\ Sum([k \in ks |-> fuel[k].amount]) \in Int
    OBVIOUS
  <2>2. \A k \in ks : fuel[k].liters \in Int /\ fuel[k].amount \in Int
    BY <2>1 DEF Facts, FactsTyped, FuelFacts
  <2> DEFINE l == [k \in ks |-> fuel[k].liters]
             a == [k \in ks |-> fuel[k].amount]
  <2>3. DOMAIN l = ks /\ DOMAIN a = ks /\ (\A k \in ks : l[k] \in Int) /\ \A k \in ks : a[k] \in Int
    BY <2>2
  <2>4. Sum(l) \in Int /\ Sum(a) \in Int
    <3> HIDE DEF l, a
    <3>1. Sum(l) \in Int
      BY <1>2, <2>3
    <3>2. Sum(a) \in Int
      BY <1>2, <2>3
    <3>3. QED BY <3>1, <3>2
  <2>5. QED BY <2>4
<1>4. f.type \in DispatchReports => Sum([k \in ks |-> Distance(dispatch[k])]) \in Int
  <2>1. SUFFICES ASSUME f.type \in DispatchReports
                 PROVE  Sum([k \in ks |-> Distance(dispatch[k])]) \in Int
    OBVIOUS
  <2> DEFINE d == [k \in ks |-> Distance(dispatch[k])]
  <2>2. DOMAIN d = ks /\ \A k \in ks : d[k] \in Int
    BY <2>1 DEF Facts, FactsTyped, DispatchFacts, Distance
  <2>3. Sum(d) \in Int
    <3> HIDE DEF d
    <3>1. QED BY <1>2, <2>2
  <2>4. QED BY <2>3
<1>5. QED
  <2> DEFINE m == Measures(f, ks)
  <2>1. CASE f.type \in DispatchReports
    <3>1. m = [count |-> Cardinality(ks), liters |-> 0, amount |-> 0,
               distance |-> Sum([k \in ks |-> Distance(dispatch[k])])]
      BY <2>1 DEF Measures
    <3>2. QED BY <1>1, <1>4, <2>1, <3>1 DEF Measured
  <2>2. CASE f.type \notin DispatchReports
    <3>1. m = [count |-> Cardinality(ks), liters |-> Sum([k \in ks |-> fuel[k].liters]),
               amount |-> Sum([k \in ks |-> fuel[k].amount]), distance |-> 0]
      BY <2>2 DEF Measures
    <3>2. QED BY <1>1, <1>3, <2>2, <3>1 DEF Measured
  <2>3. QED BY <2>1, <2>2

\* The rows of a report: finitely many, well formed, one of a key.
Group(f, v) == {k \in Base(f, Facts(f)) : KeyOf(f, k, Facts(f)[k]) = v}
\* Rows is such a set, and holds the row of every group of facts that go in.
LEMMA RowsOf ==
    ASSUME FactsTyped, NEW f \in Requests
    PROVE  /\ IsFiniteSet(Rows(f)) /\ Rows(f) \subseteq RowSpace
           /\ \A r, s \in Rows(f) : r.key = s.key => r = s
           /\ \A r \in Rows(f) : Group(f, r.key) # {} /\ r = Row(f, r.key, Group(f, r.key))
           /\ \A k \in Base(f, Facts(f)) :
                  Row(f, KeyOf(f, k, Facts(f)[k]), Group(f, KeyOf(f, k, Facts(f)[k]))) \in Rows(f)
<1> DEFINE base == Base(f, Facts(f))
           key == [k \in base |-> KeyOf(f, k, Facts(f)[k])]
           vs == {key[k] : k \in base}
           row == [v \in vs |-> Row(f, v, Group(f, v))]
<1>1. Rows(f) = {row[v] : v \in vs}
  BY DEF Rows, Group
<1>2. \A v \in vs : row[v].key = v
  BY DEF Row
<1>3. base \subseteq DOMAIN Facts(f) /\ IsFiniteSet(base)
  BY FactsOf, FS_Subset DEF Base
<1>4. vs \subseteq Int
  BY <1>3, FactsOf
<1>5. IsFiniteSet(Rows(f))
  <2>1. IsFiniteSet(vs)
    <3>1. key \in Surjection(base, vs)
      <4>1. key \in [base -> vs] /\ \A v \in vs : \E k \in base : key[k] = v
        OBVIOUS
      <4>2. QED
        <5> HIDE DEF key, vs, base
        <5>1. QED BY <4>1 DEF Surjection
    <3> HIDE DEF base, vs, key
    <3>2. QED BY <1>3, <3>1, FS_Surjection
  <2>2. row \in Surjection(vs, Rows(f))
    <3>1. row \in [vs -> Rows(f)] /\ \A r \in Rows(f) : \E v \in vs : row[v] = r
      BY <1>1
    <3>2. QED
      <4> HIDE DEF row, vs
      <4>1. QED BY <3>1 DEF Surjection
  <2>3. QED
    <3> HIDE DEF row, vs
    <3>1. QED BY <2>1, <2>2, FS_Surjection
<1>6. ASSUME NEW v \in vs
      PROVE  Group(f, v) # {} /\ row[v] \in RowSpace
  <2>1. PICK k \in base : key[k] = v
    OBVIOUS
  <2>2. Group(f, v) # {}
    BY <2>1 DEF Group
  <2>3. IsFiniteSet(Group(f, v)) /\ Group(f, v) \subseteq DOMAIN Facts(f)
    BY <1>3, FS_Subset DEF Group
  <2>4. Measures(f, Group(f, v)) \in Measured
    BY <2>3, MeasuresTyped
  <2>5. f.type \in Details => Facts(f)[v].date \in Int
    <3>1. f.type \in Details => KeyOf(f, k, Facts(f)[k]) = k
      BY DEF KeyOf, Details
    <3>2. KeyOf(f, k, Facts(f)[k]) = v
      BY <2>1
    <3>3. QED BY <1>3, <3>1, <3>2, FactsOf
  <2>6. QED BY <1>4, <2>2, <2>4, <2>5 DEF Row, RowSpace
<1>7. Rows(f) \subseteq RowSpace
  BY <1>1, <1>6
<1>8. \A r, s \in Rows(f) : r.key = s.key => r = s
  <2> HIDE DEF row, vs
  <2>1. QED BY <1>1, <1>2
<1>9. ASSUME NEW r \in Rows(f)
      PROVE  Group(f, r.key) # {} /\ r = Row(f, r.key, Group(f, r.key))
  <2>1. PICK v \in vs : r = row[v]
    BY <1>1
  <2>2. r.key = v /\ Group(f, v) # {}
    BY <1>2, <1>6, <2>1
  <2>3. r = Row(f, v, Group(f, v))
    BY <2>1
  <2>4. QED
    <3> HIDE DEF vs, row
    <3>1. QED BY <2>2, <2>3
<1>10. ASSUME NEW k \in base
       PROVE  Row(f, key[k], Group(f, key[k])) \in Rows(f)
  <2>1. row[key[k]] \in Rows(f)
    BY <1>1
  <2>2. QED BY <2>1
<1>11. QED BY <1>5, <1>7, <1>8, <1>9, <1>10

\* The order of a report, as pairs of rows.
Orders(f) == {p \in RowSpace \X RowSpace : Before(f, p[1], p[2])}

\* A row is before the rows that those after it are before.
LEMMA BeforeIsTransitive ==
    ASSUME NEW f, NEW r \in RowSpace, NEW s \in RowSpace, NEW t \in RowSpace,
           Before(f, r, s), Before(f, s, t)
    PROVE  Before(f, r, t)
<1>1. /\ r.key \in Int /\ s.key \in Int /\ t.key \in Int
      /\ r.date \in Int /\ s.date \in Int /\ t.date \in Int
  BY DEF RowSpace
<1>2. CASE f.type \in Details
  BY <1>1, <1>2 DEF Before
<1>3. CASE f.type \notin Details
  BY <1>1, <1>3 DEF Before
<1>4. QED BY <1>2, <1>3

\* The order puts any two rows of a report one before the other.
LEMMA RowsAreOrdered ==
    ASSUME FactsTyped, NEW f \in Requests, NEW S \in SUBSET Rows(f)
    PROVE  TotalOrder(S, Orders(f))
<1>1. S \subseteq RowSpace /\ \A r, s \in S : r.key = s.key => r = s
  BY RowsOf
<1>2. \A r \in RowSpace : r.key \in Int /\ r.date \in Int
  BY DEF RowSpace
<1>3. \A r, s \in S : <<r, s>> \in Orders(f) <=> Before(f, r, s)
  BY <1>1 DEF Orders
<1>4. ASSUME NEW r \in S
      PROVE  <<r, r>> \notin Orders(f)
  <2>1. r.key \in Int /\ r.date \in Int
    BY <1>1, <1>2
  <2>2. ~Before(f, r, r)
    BY <2>1 DEF Before
  <2>3. QED BY <1>3, <2>2
<1>5. ASSUME NEW r \in S, NEW s \in S, r # s
      PROVE  <<r, s>> \in Orders(f) \/ <<s, r>> \in Orders(f)
  <2>1. r.key \in Int /\ r.date \in Int /\ s.key \in Int /\ s.date \in Int /\ r.key # s.key
    BY <1>1, <1>2, <1>5
  <2>2. Before(f, r, s) \/ Before(f, s, r)
    BY <2>1 DEF Before
  <2>3. QED BY <1>3, <2>2
<1>6. ASSUME NEW r \in S, NEW s \in S, NEW t \in S, <<r, s>> \in Orders(f), <<s, t>> \in Orders(f)
      PROVE  <<r, t>> \in Orders(f)
  BY <1>1, <1>3, <1>6, BeforeIsTransitive
<1>7. QED BY <1>4, <1>5, <1>6 DEF TotalOrder

\* Rows put in order are in order, each of them once.
LEMMA OrderedIsSorted ==
    ASSUME FactsTyped, NEW f \in Requests, NEW S \in SUBSET Rows(f)
    PROVE  /\ Ordered(f, S) \in [1 .. Cardinality(S) -> S]
           /\ \A i, j \in 1 .. Cardinality(S) : i < j => Before(f, Ordered(f, S)[i], Ordered(f, S)[j])
           /\ \A r \in S : \E i \in 1 .. Cardinality(S) : Ordered(f, S)[i] = r
<1> DEFINE n == Cardinality(S)
           InOrderOf(e) == \A i, j \in 1 .. n : i < j => Before(f, e[i], e[j])
<1>1. IsFiniteSet(S) /\ S \subseteq RowSpace /\ TotalOrder(S, Orders(f))
  BY RowsOf, RowsAreOrdered, FS_Subset
<1>2. PICK g : Sorts(g, S, Orders(f))
  BY <1>1, SortedExists
<1>3. g \in [1 .. n -> S] /\ InOrderOf(g)
  BY <1>2 DEF Sorts, Orders
<1>4. Ordered(f, S) = CHOOSE e \in [1 .. n -> S] : InOrderOf(e)
  BY DEF Ordered
<1>5. Ordered(f, S) \in [1 .. n -> S] /\ InOrderOf(Ordered(f, S))
  <2> HIDE DEF InOrderOf, n
  <2>1. QED BY <1>3, <1>4
<1>6. Sorts(Ordered(f, S), S, Orders(f))
  <2> DEFINE e == Ordered(f, S)
  <2>1. \A i \in 1 .. n : e[i] \in RowSpace
    BY <1>1, <1>5
  <2>2. \A i, j \in 1 .. n : i < j => <<e[i], e[j]>> \in Orders(f)
    <3> HIDE DEF e
    <3>1. QED BY <1>5, <2>1 DEF Orders, e
  <2>3. QED BY <1>5, <2>2 DEF Sorts
<1>7. QED
  <2>1. \A r \in S : \E i \in 1 .. n : Ordered(f, S)[i] = r
    BY <1>1, <1>6, SortedCovers
  <2>2. QED BY <1>5, <2>1

\* A page holds the first rows there still are, in order; its cursor is that of the
\* last of them, and there is none when the page holds all of them.
Rest(f, c) == {r \in Rows(f) : c = None \/ After(f, c, r)}
SortedRows(f, s) == \A i, j \in 1 .. Len(s) : i < j => Before(f, s[i], s[j])
\* fetchPage does so from any cursor.
LEMMA PageHolds ==
    ASSUME FactsTyped, NEW f \in Requests, NEW c
    PROVE  LET page == fetchPage(f, c)
           IN  /\ page.rows \in Seq(RowSpace) /\ SortedRows(f, page.rows)
               /\ \A i \in 1 .. Len(page.rows) : page.rows[i] \in Rest(f, c)
               /\ page.nextCursor = None =>
                      \A r \in Rest(f, c) : \E i \in 1 .. Len(page.rows) : page.rows[i] = r
               /\ page.nextCursor # None =>
                      /\ page.rows # <<>> /\ page.nextCursor = encodeCursor(f, Last(page.rows))
                      /\ \A r \in Rest(f, c) : \/ \E i \in 1 .. Len(page.rows) : page.rows[i] = r
                                               \/ Before(f, Last(page.rows), r)
<1> DEFINE rest == Rest(f, c)
           n == Cardinality(rest)
           e == Ordered(f, rest)
           m == Min({f.pageSize, n})
           items == SubSeq(e, 1, m)
           next == fetchPage(f, c).nextCursor
<1>1. rest \in SUBSET Rows(f) /\ IsFiniteSet(rest) /\ rest \subseteq RowSpace
  BY RowsOf, FS_Subset DEF Rest
<1>2. n \in Nat /\ f.pageSize \in Nat \ {0}
  BY <1>1, FS_CardinalityType, RequestsAssumption
<1>3. fetchPage(f, c).rows = items
      /\ next = IF n > f.pageSize THEN encodeCursor(f, Last(items)) ELSE None
  BY DEF fetchPage, Rest
<1>4. m = IF n > f.pageSize THEN f.pageSize ELSE n
  <2>1. \E x \in {f.pageSize, n} : \A y \in {f.pageSize, n} : x <= y
    BY <1>2
  <2>2. m \in {f.pageSize, n} /\ \A y \in {f.pageSize, n} : m <= y
    BY <2>1 DEF Min
  <2>3. QED BY <1>2, <2>2
<1> HIDE DEF m, n
<1>5. m \in 0 .. n /\ m \in Nat
  BY <1>2, <1>4
<1>6. /\ e \in [1 .. n -> rest]
      /\ \A i, j \in 1 .. n : i < j => Before(f, e[i], e[j])
      /\ \A r \in rest : \E i \in 1 .. n : e[i] = r
  BY <1>1, OrderedIsSorted DEF n
<1> HIDE DEF e, rest
<1>7. items \in Seq(RowSpace) /\ Len(items) = m /\ \A i \in 1 .. m : items[i] = e[i] /\ items[i] \in rest
  <2>1. \A i \in 1 .. m : e[i] \in rest /\ e[i] \in RowSpace
    BY <1>1, <1>5, <1>6, <1>2
  <2>2. /\ items \in Seq(RowSpace) /\ Len(items) = IF 1 <= m THEN m - 1 + 1 ELSE 0
        /\ \A i \in 1 .. m - 1 + 1 : items[i] = e[1 + i - 1]
    BY <1>5, <2>1, SubSeqProperties
  <2>3. QED BY <1>5, <2>1, <2>2
<1> HIDE DEF items
<1>8. SortedRows(f, items)
  BY <1>2, <1>5, <1>6, <1>7 DEF SortedRows
<1>9. encodeCursor(f, Last(items)) # None
  <2>1. f.type # "none"
    BY RequestsAssumption DEF IncludedStatuses
  <2>2. encodeCursor(f, Last(items)).type = f.type /\ None.type = "none"
    BY DEF encodeCursor, None
  <2>3. QED BY <2>1, <2>2
<1>10. ASSUME next = None
       PROVE  \A r \in rest : \E i \in 1 .. Len(items) : items[i] = r
  <2>1. m = n
    BY <1>3, <1>4, <1>9, <1>10
  <2>2. QED BY <1>6, <1>7, <2>1
<1>11. ASSUME next # None
       PROVE  /\ items # <<>> /\ next = encodeCursor(f, Last(items))
              /\ \A r \in rest : \/ \E i \in 1 .. Len(items) : items[i] = r
                                 \/ Before(f, Last(items), r)
  <2>1. n > f.pageSize /\ m = f.pageSize /\ next = encodeCursor(f, Last(items))
    BY <1>3, <1>4, <1>11
  <2>2. m > 0 /\ Len(items) = m /\ Last(items) = e[m]
    BY <1>2, <1>7, <2>1 DEF Last
  <2>3. ASSUME NEW r \in rest
        PROVE  (\E i \in 1 .. Len(items) : items[i] = r) \/ Before(f, Last(items), r)
    <3>1. PICK i \in 1 .. n : e[i] = r
      BY <1>6
    <3>2. CASE i <= m
      BY <1>5, <1>7, <3>1, <3>2
    <3>3. CASE i > m
      <4>1. m \in 1 .. n
        BY <1>5, <2>2
      <4>2. Before(f, e[m], e[i])
        BY <1>2, <1>5, <1>6, <3>3, <4>1
      <4>3. QED BY <2>2, <3>1, <4>2
    <3>4. QED BY <1>2, <1>5, <3>2, <3>3
  <2>4. items # <<>>
    BY <2>2
  <2>5. QED BY <2>1, <2>3, <2>4
<1>12. QED
  <2> HIDE DEF next
  <2>1. fetchPage(f, c).nextCursor = next
    BY DEF next
  <2>2. QED BY <1>3, <1>7, <1>8, <1>10, <1>11, <2>1 DEF rest

\* The same of the rows of the next state.
RowsRight ==
    \A f \in Requests :
        /\ Rows(f) \subseteq RowSpace
        /\ \A r \in Rows(f) : Group(f, r.key) # {} /\ r = Row(f, r.key, Group(f, r.key))
        /\ \A k \in Base(f, Facts(f)) :
               Row(f, KeyOf(f, k, Facts(f)[k]), Group(f, KeyOf(f, k, Facts(f)[k]))) \in Rows(f)
\* The rows are well formed and grouped after a step too.
LEMMA RowsRightNext == FactsTyped' => RowsRight'
<1>1. FactsTyped => RowsRight
  BY RowsOf DEF RowsRight
<1>2. QED BY <1>1, PTL

\* A row with a key that no changed fact has or had stays as it is, or stays away.
Apart(f, v) ==
    \A k \in DOMAIN Facts(f) : Facts(f)[k] # Facts(f)'[k] =>
        KeyOf(f, k, Facts(f)[k]) # v /\ KeyOf(f, k, Facts(f)'[k]) # v
\* So a row whose key nobody touched is in the report before a step and after it, or in neither.
LEMMA RowStays ==
    ASSUME FactsTyped, FactsTyped', NEW f \in Requests, NEW v, Apart(f, v)
    PROVE  \A r \in RowSpace : r.key = v => (r \in Rows(f) <=> r \in Rows(f)')
<1>1. DOMAIN Facts(f)' = DOMAIN Facts(f)
  BY DEF Facts, FactsTyped
<1>2. \A k \in DOMAIN Facts(f) : k \in Group(f, v) <=> k \in Group(f, v)'
  <2> SUFFICES ASSUME NEW k \in DOMAIN Facts(f)
               PROVE  k \in Group(f, v) <=> k \in Group(f, v)'
    OBVIOUS
  <2>1. /\ k \in Group(f, v) <=> k \in Base(f, Facts(f)) /\ KeyOf(f, k, Facts(f)[k]) = v
        /\ k \in Group(f, v)' <=> k \in Base(f, Facts(f)') /\ KeyOf(f, k, Facts(f)'[k]) = v
    BY DEF Group
  <2>2. CASE Facts(f)[k] = Facts(f)'[k]
    <3>1. k \in Base(f, Facts(f)) <=> k \in Base(f, Facts(f)')
      BY <1>1, <2>2 DEF Base
    <3>2. QED BY <2>1, <2>2, <3>1
  <2>3. CASE Facts(f)[k] # Facts(f)'[k]
    BY <2>1, <2>3 DEF Apart
  <2>4. QED BY <2>2, <2>3
<1>3. Group(f, v) = Group(f, v)'
  <2>1. Group(f, v) \subseteq DOMAIN Facts(f)
    BY DEF Group, Base
  <2>2. Group(f, v)' \subseteq DOMAIN Facts(f)'
    BY DEF Group, Base
  <2>3. QED BY <1>1, <1>2, <2>1, <2>2
<1>4. \A k \in Group(f, v) : Facts(f)[k] = Facts(f)'[k] /\ k \in DOMAIN Facts(f)
  BY DEF Apart, Group, Base
<1>5. ASSUME Group(f, v) # {}
      PROVE  Row(f, v, Group(f, v)) = Row(f, v, Group(f, v))'
  <2> DEFINE ks == Group(f, v)
  <2>1. ks' = ks
    BY <1>3
  <2>2. Measures(f, ks)' = Measures(f, ks)
    <3>1. CASE f.type \in DispatchReports
      <4>1. \A k \in ks : dispatch'[k] = dispatch[k]
        BY <1>4, <3>1 DEF Facts
      <4>2. [k \in ks |-> Distance(dispatch[k])]' = [k \in ks |-> Distance(dispatch[k])]
        <5> HIDE DEF ks
        <5>1. QED BY <2>1, <4>1 DEF Distance
      <4>3. QED
        <5> HIDE DEF ks
        <5>1. QED BY <2>1, <3>1, <4>2 DEF Measures
    <3>2. CASE f.type \notin DispatchReports
      <4>1. \A k \in ks : fuel'[k] = fuel[k]
        BY <1>4, <3>2 DEF Facts
      <4>2. /\ [k \in ks |-> fuel[k].liters]' = [k \in ks |-> fuel[k].liters]
            /\ [k \in ks |-> fuel[k].amount]' = [k \in ks |-> fuel[k].amount]
        <5> HIDE DEF ks
        <5>1. QED BY <2>1, <4>1
      <4>3. QED
        <5> HIDE DEF ks
        <5>1. QED BY <2>1, <3>2, <4>2 DEF Measures
    <3>3. QED BY <3>1, <3>2
  <2>3. f.type \in Details => Facts(f)'[v] = Facts(f)[v]
    <3>1. PICK k \in Group(f, v) : TRUE
      BY <1>5
    <3>2. KeyOf(f, k, Facts(f)[k]) = v
      BY DEF Group
    <3>3. f.type \in Details => KeyOf(f, k, Facts(f)[k]) = k
      BY DEF KeyOf, Details
    <3>4. QED BY <1>4, <3>2, <3>3
  <2>4. QED
    <3> HIDE DEF ks
    <3>1. Row(f, v, ks)' = Row(f, v, ks)
      BY <2>2, <2>3 DEF Row
    <3>2. QED BY <3>1 DEF ks
<1>6. ASSUME NEW r \in Rows(f), r.key = v
      PROVE  r \in Rows(f)'
  <2>1. Group(f, v) # {} /\ r = Row(f, v, Group(f, v))
    BY <1>6, RowsOf
  <2>2. r = Row(f, v, Group(f, v))'
    BY <1>5, <2>1
  <2>3. PICK k \in Group(f, v)' : TRUE
    BY <1>3, <2>1
  <2>4. k \in Base(f, Facts(f))' /\ KeyOf(f, k, Facts(f)[k])' = v
    BY DEF Group
  <2>5. \A i \in Base(f, Facts(f))' :
            Row(f, KeyOf(f, i, Facts(f)[i]), Group(f, KeyOf(f, i, Facts(f)[i])))' \in Rows(f)'
    BY RowsRightNext DEF RowsRight
  <2>6. QED BY <2>2, <2>4, <2>5
<1>7. ASSUME NEW r \in Rows(f)', r.key = v
      PROVE  r \in Rows(f)
  <2>1. \A s \in Rows(f)' : Group(f, s.key)' # {} /\ s = Row(f, s.key, Group(f, s.key))'
    BY RowsRightNext DEF RowsRight
  <2>2. Group(f, v)' # {} /\ r = Row(f, v, Group(f, v))'
    BY <1>7, <2>1
  <2>3. Group(f, v) # {} /\ r = Row(f, v, Group(f, v))
    BY <1>3, <1>5, <2>2
  <2>4. PICK k \in Group(f, v) : TRUE
    BY <2>3
  <2>5. k \in Base(f, Facts(f)) /\ KeyOf(f, k, Facts(f)[k]) = v
    BY DEF Group
  <2>6. Row(f, KeyOf(f, k, Facts(f)[k]), Group(f, KeyOf(f, k, Facts(f)[k]))) \in Rows(f)
    BY <2>5, RowsOf
  <2>7. QED BY <2>3, <2>5, <2>6
<1>8. QED BY <1>6, <1>7

\* How far a report is read: what it has read is in order and, but for touched
\* rows, of the report; what it has not read comes after its cursor, which is the
\* place of the last row it has read.
Holds(s, r) == \E i \in 1 .. Len(s) : s[i] = r
Reads(f, phase, c, s) ==
    /\ SortedRows(f, s)
    /\ c # None => s # <<>> /\ c = encodeCursor(f, Last(s))
    /\ phase = "page" /\ c = None => s = <<>>
    /\ phase # "failed" =>
           \A r \in Rows(f) : r.key \notin touched =>
               Holds(s, r) \/ ((phase = "page" \/ c # None) /\ r \in Rest(f, c))
    /\ \A i \in 1 .. Len(s) : s[i].key \notin touched => s[i] \in Rows(f)
Cursors == [type : DOMAIN IncludedStatuses, fingerprint : Requests, date : Int, key : Int]
ReaderTyped ==
    reader = NoReader \/
    reader \in [mode : {"READ", "EXPORT"}, phase : {"page", "totals", "shown", "refused", "failed"},
                filters : Requests, cursor : {None} \cup Cursors, rows : Seq(RowSpace)]
ReadSoFar ==
    reader # NoReader /\ reader.phase # "refused" =>
        Reads(reader.filters, reader.phase, reader.cursor, reader.rows)
ReportInv == FactsTyped /\ ReaderTyped /\ ReadSoFar

\* The cursor of a row is well formed, and has before it what the row has.
LEMMA CursorOf ==
    ASSUME NEW f \in Requests, NEW r \in RowSpace
    PROVE  /\ encodeCursor(f, r) \in Cursors
           /\ \A s : After(f, encodeCursor(f, r), s) <=> Before(f, r, s)
<1>1. f.type \in DOMAIN IncludedStatuses
  BY RequestsAssumption
<1>2. r.key \in Int /\ r.date \in Int
  BY DEF RowSpace
<1>3. encodeCursor(f, r) = [type |-> f.type, fingerprint |-> f, date |-> r.date, key |-> r.key]
  BY DEF encodeCursor, filterFingerprint
<1>4. encodeCursor(f, r).date = r.date /\ encodeCursor(f, r).key = r.key
  BY <1>3
<1>5. \A s : After(f, encodeCursor(f, r), s) <=> Before(f, r, s)
  BY <1>4 DEF After, Before
<1>6. encodeCursor(f, r) \in Cursors
  BY <1>1, <1>2, <1>3 DEF Cursors
<1>7. QED BY <1>5, <1>6

\* A page more is read as far as its own cursor.
LEMMA PageJoins ==
    ASSUME FactsTyped, NEW f \in Requests, NEW c, NEW s \in Seq(RowSpace),
           Reads(f, "page", c, s), NEW phase \in {"page", "totals", "failed"},
           phase = "page" => fetchPage(f, c).nextCursor # None
    PROVE  /\ s \o fetchPage(f, c).rows \in Seq(RowSpace)
           /\ fetchPage(f, c).nextCursor \in {None} \cup Cursors
           /\ Reads(f, phase, fetchPage(f, c).nextCursor, s \o fetchPage(f, c).rows)
<1> DEFINE p == fetchPage(f, c).rows
           d == fetchPage(f, c).nextCursor
           q == s \o p
<1>1. /\ p \in Seq(RowSpace) /\ SortedRows(f, p)
      /\ \A i \in 1 .. Len(p) : p[i] \in Rest(f, c)
      /\ d = None => \A r \in Rest(f, c) : Holds(p, r)
      /\ d # None => /\ p # <<>> /\ d = encodeCursor(f, Last(p))
                     /\ \A r \in Rest(f, c) : Holds(p, r) \/ Before(f, Last(p), r)
  BY PageHolds DEF Holds
<1> HIDE DEF p, d
<1>2. /\ q \in Seq(RowSpace) /\ Len(q) = Len(s) + Len(p) /\ Len(s) \in Nat /\ Len(p) \in Nat
      /\ \A i \in 1 .. Len(s) : q[i] = s[i]
      /\ \A i \in 1 .. Len(p) : q[Len(s) + i] = p[i]
      /\ \A i \in 1 .. Len(q) : i \in 1 .. Len(s) \/ (i > Len(s) /\ i - Len(s) \in 1 .. Len(p)
                                                      /\ q[i] = p[i - Len(s)])
  <2>1. Len(s) \in Nat /\ Len(p) \in Nat
    BY <1>1
  <2>2. /\ q \in Seq(RowSpace) /\ Len(q) = Len(s) + Len(p)
        /\ \A i \in 1 .. Len(s) + Len(p) : q[i] = IF i <= Len(s) THEN s[i] ELSE p[i - Len(s)]
    BY <1>1, ConcatProperties
  <2> HIDE DEF q
  <2>3. \A i \in 1 .. Len(p) : q[Len(s) + i] = p[i]
    <3> SUFFICES ASSUME NEW i \in 1 .. Len(p) PROVE q[Len(s) + i] = p[i]
      OBVIOUS
    <3>1. Len(s) + i \in 1 .. Len(s) + Len(p) /\ ~(Len(s) + i <= Len(s)) /\ Len(s) + i - Len(s) = i
      BY <2>1
    <3>2. QED BY <2>2, <3>1
  <2>4. \A i \in 1 .. Len(q) : i \in 1 .. Len(s) \/ (i > Len(s) /\ i - Len(s) \in 1 .. Len(p)
                                                     /\ q[i] = p[i - Len(s)])
    BY <2>1, <2>2
  <2>5. \A i \in 1 .. Len(s) : q[i] = s[i]
    BY <2>1, <2>2
  <2>6. QED BY <2>1, <2>2, <2>3, <2>4, <2>5
<1> HIDE DEF q
<1>3. \A r : Holds(q, r) <=> Holds(s, r) \/ Holds(p, r)
  <2>1. ASSUME NEW r, Holds(q, r)
        PROVE  Holds(s, r) \/ Holds(p, r)
    BY <1>2, <2>1 DEF Holds
  <2>2. ASSUME NEW r, Holds(s, r)
        PROVE  Holds(q, r)
    BY <1>2, <2>2 DEF Holds
  <2>3. ASSUME NEW r, Holds(p, r)
        PROVE  Holds(q, r)
    <3>1. PICK i \in 1 .. Len(p) : p[i] = r
      BY <2>3 DEF Holds
    <3>2. Len(s) + i \in 1 .. Len(q) /\ q[Len(s) + i] = r
      BY <1>2, <3>1
    <3>3. QED BY <3>2 DEF Holds
  <2>4. QED BY <2>1, <2>2, <2>3
<1>4. \A i \in 1 .. Len(s), j \in 1 .. Len(p) : Before(f, s[i], p[j])
  <2> SUFFICES ASSUME NEW i \in 1 .. Len(s), NEW j \in 1 .. Len(p)
               PROVE  Before(f, s[i], p[j])
    OBVIOUS
  <2>1. s # <<>> /\ c # None /\ c = encodeCursor(f, Last(s))
    BY <1>2 DEF Reads
  <2>2. Last(s) \in RowSpace /\ s[i] \in RowSpace /\ p[j] \in RowSpace
    BY <1>1, <1>2, <2>1 DEF Last
  <2>3. Before(f, Last(s), p[j])
    BY <1>1, <2>1, <2>2, CursorOf DEF Rest
  <2>4. i = Len(s) \/ Before(f, s[i], Last(s))
    BY <1>2 DEF Reads, SortedRows, Last
  <2>5. CASE i = Len(s)
    BY <2>3, <2>5 DEF Last
  <2>6. CASE Before(f, s[i], Last(s))
    BY <2>2, <2>3, <2>6, BeforeIsTransitive
  <2>7. QED BY <2>4, <2>5, <2>6
<1>5. SortedRows(f, q)
  <2> SUFFICES ASSUME NEW i \in 1 .. Len(q), NEW j \in 1 .. Len(q), i < j
               PROVE  Before(f, q[i], q[j])
    BY DEF SortedRows
  <2>1. CASE j \in 1 .. Len(s)
    <3>1. i \in 1 .. Len(s)
      BY <1>2, <2>1
    <3>2. Before(f, s[i], s[j])
      BY <2>1, <3>1 DEF Reads, SortedRows
    <3>3. QED BY <1>2, <2>1, <3>1, <3>2
  <2>2. CASE i \in 1 .. Len(s) /\ j \notin 1 .. Len(s)
    BY <1>2, <1>4, <2>2
  <2>3. CASE i \notin 1 .. Len(s) /\ j \notin 1 .. Len(s)
    <3>1. /\ i - Len(s) \in 1 .. Len(p) /\ q[i] = p[i - Len(s)]
          /\ j - Len(s) \in 1 .. Len(p) /\ q[j] = p[j - Len(s)]
      BY <1>2, <2>3
    <3>2. i - Len(s) < j - Len(s)
      BY <1>2
    <3>3. QED BY <1>1, <3>1, <3>2 DEF SortedRows
  <2>4. QED BY <2>1, <2>2, <2>3
<1>6. d # None => q # <<>> /\ Last(q) = Last(p) /\ Last(p) \in RowSpace
  <2> SUFFICES ASSUME d # None PROVE q # <<>> /\ Last(q) = Last(p) /\ Last(p) \in RowSpace
    OBVIOUS
  <2>1. Len(p) \in 1 .. Len(p) /\ Len(q) > 0
    BY <1>1, <1>2
  <2>2. q[Len(s) + Len(p)] = p[Len(p)] /\ p[Len(p)] \in RowSpace
    BY <1>1, <1>2, <2>1
  <2>3. QED BY <1>2, <2>1, <2>2 DEF Last
<1>7. d \in {None} \cup Cursors
  BY <1>1, <1>6, CursorOf
<1>8. ASSUME NEW r \in Rows(f), r.key \notin touched
      PROVE  Holds(q, r) \/ (d # None /\ r \in Rest(f, d))
  <2>1. Holds(s, r) \/ r \in Rest(f, c)
    BY <1>8 DEF Reads
  <2>2. CASE Holds(s, r)
    BY <1>3, <2>2
  <2>3. CASE r \in Rest(f, c)
    <3>1. Holds(p, r) \/ (d # None /\ Before(f, Last(p), r))
      BY <1>1, <2>3
    <3>2. CASE Holds(p, r)
      BY <1>3, <3>2
    <3>3. CASE d # None /\ Before(f, Last(p), r)
      <4>1. After(f, d, r)
        BY <1>1, <1>6, <3>3, CursorOf
      <4>2. QED BY <1>8, <3>3, <4>1 DEF Rest
    <3>4. QED BY <3>1, <3>2, <3>3
  <2>4. QED BY <2>1, <2>2, <2>3
<1>9. ASSUME NEW i \in 1 .. Len(q), q[i].key \notin touched
      PROVE  q[i] \in Rows(f)
  <2>1. CASE i \in 1 .. Len(s)
    BY <1>2, <1>9, <2>1 DEF Reads
  <2>2. CASE i \notin 1 .. Len(s)
    BY <1>1, <1>2, <2>2 DEF Rest
  <2>3. QED BY <2>1, <2>2
<1>10. Reads(f, phase, d, q)
  <2>1. phase = "page" => d # None
    BY DEF d
  <2>2. d # None => q # <<>> /\ d = encodeCursor(f, Last(q))
    BY <1>1, <1>6
  <2>3. QED BY <1>5, <1>8, <1>9, <2>1, <2>2 DEF Reads
<1>11. QED
  BY <1>2, <1>7, <1>10 DEF p, d, q

\* While no fact changes, what is read stays read.
LEMMA ReadsStays ==
    ASSUME UNCHANGED <<fuel, dispatch, touched>>, NEW f, NEW phase, NEW c, NEW s
    PROVE  Reads(f, phase, c, s)' <=> Reads(f, phase, c, s)
<1>1. Facts(f)' = Facts(f)
  BY DEF Facts
<1>2. \A ks : Measures(f, ks)' = Measures(f, ks)
  BY DEF Measures
<1>3. Rows(f)' = Rows(f)
  BY <1>1, <1>2 DEF Rows, Row
<1>4. Rest(f, c)' = Rest(f, c)
  BY <1>3 DEF Rest
<1>5. QED BY <1>3, <1>4 DEF Reads

\* A reader that is there has a mode, a phase, filters, a cursor and rows.
LEMMA ReaderParts ==
    ASSUME ReaderTyped, reader # NoReader
    PROVE  /\ reader.mode \in {"READ", "EXPORT"} /\ reader.filters \in Requests
           /\ reader.phase \in {"page", "totals", "shown", "refused", "failed"}
           /\ reader.cursor \in {None} \cup Cursors /\ reader.rows \in Seq(RowSpace)
  BY DEF ReaderTyped

\* Changes of a fact touch the keys it has and had.
LEMMA ChangesTouch ==
    ASSUME FactsTyped, FactsTyped', ReaderTyped, reader # NoReader,
           ChangeFuel \/ ChangeDispatch, NEW f, f = reader.filters, NEW v, v \notin touched'
    PROVE  v \notin touched /\ Apart(f, v)
<1>1. CASE ChangeFuel
  <2>1. touched' = Touch(FALSE, fuel, fuel') /\ dispatch' = dispatch
    BY <1>1 DEF ChangeFuel
  <2>2. CASE f.type \in DispatchReports
    <3>1. touched' = touched
      BY <2>1, <2>2 DEF Touch
    <3>2. Facts(f)' = Facts(f)
      BY <2>1, <2>2 DEF Facts
    <3>3. QED BY <3>1, <3>2 DEF Apart
  <2>3. CASE f.type \notin DispatchReports
    <3> DEFINE ks == {k \in DOMAIN fuel : fuel[k] # fuel'[k]}
    <3>0. ~(reader = NoReader \/ FALSE # (reader.filters.type \in DispatchReports))
      <4>1. ~(reader.filters.type \in DispatchReports)
        BY <2>3
      <4>2. (reader.filters.type \in DispatchReports) = FALSE
        BY <4>1
      <4>3. FALSE = (reader.filters.type \in DispatchReports)
        BY <4>2
      <4>4. QED BY ONLY <4>3, reader # NoReader
    <3>1. touched' = touched \cup {KeyOf(f, k, fuel[k]) : k \in ks}
                             \cup {KeyOf(f, k, fuel'[k]) : k \in ks}
      <4>1. Touch(FALSE, fuel, fuel') = touched \cup Keys(fuel, ks) \cup Keys(fuel', ks)
        BY <3>0 DEF Touch
      <4>2. /\ Keys(fuel, ks) = {KeyOf(f, k, fuel[k]) : k \in ks}
            /\ Keys(fuel', ks) = {KeyOf(f, k, fuel'[k]) : k \in ks}
        BY DEF Keys
      <4>3. QED BY <2>1, <4>1, <4>2
    <3>2. Facts(f) = fuel /\ Facts(f)' = fuel'
      BY <2>3 DEF Facts
    <3>3. QED BY <3>1, <3>2 DEF Apart
  <2>4. QED BY <2>2, <2>3
<1>2. CASE ChangeDispatch
  <2>1. touched' = Touch(TRUE, dispatch, dispatch') /\ fuel' = fuel
    BY <1>2 DEF ChangeDispatch
  <2>2. CASE f.type \notin DispatchReports
    <3>1. touched' = touched
      BY <2>1, <2>2 DEF Touch
    <3>2. Facts(f)' = Facts(f)
      BY <2>1, <2>2 DEF Facts
    <3>3. QED BY <3>1, <3>2 DEF Apart
  <2>3. CASE f.type \in DispatchReports
    <3> DEFINE ks == {k \in DOMAIN dispatch : dispatch[k] # dispatch'[k]}
    <3>1. touched' = touched \cup {KeyOf(f, k, dispatch[k]) : k \in ks}
                             \cup {KeyOf(f, k, dispatch'[k]) : k \in ks}
      BY <2>1, <2>3 DEF Touch, Keys
    <3>2. Facts(f) = dispatch /\ Facts(f)' = dispatch'
      BY <2>3 DEF Facts
    <3>3. QED BY <3>1, <3>2 DEF Apart
  <2>4. QED BY <2>2, <2>3
<1>3. QED BY <1>1, <1>2

\* Whatever is posted, voided or moved, what is read stays right but for touched rows.
LEMMA ChangesKeepReads ==
    ASSUME FactsTyped, FactsTyped', ReaderTyped, ReadSoFar, ChangeFuel \/ ChangeDispatch
    PROVE  ReaderTyped' /\ ReadSoFar'
<1>1. reader' = reader
  BY DEF ChangeFuel, ChangeDispatch
<1>2. ASSUME reader # NoReader, reader.phase # "refused", NEW f \in Requests, f = reader.filters,
             NEW phase, phase = reader.phase, NEW c, c = reader.cursor,
             NEW s \in Seq(RowSpace), s = reader.rows
      PROVE  Reads(f, phase, c, s)'
  <2>1. Reads(f, phase, c, s)
    BY <1>2 DEF ReadSoFar
  <2>2. \A v : v \notin touched' => v \notin touched /\ Apart(f, v)
    BY <1>2, ChangesTouch
  <2>3. \A r \in RowSpace : r.key \notin touched' => (r \in Rows(f) <=> r \in Rows(f)')
    BY <2>2, RowStays
  <2>4. Rows(f)' \subseteq RowSpace
    BY RowsRightNext DEF RowsRight
  <2>5. \A r \in Rows(f)' : r.key \notin touched' =>
            Holds(s, r) \/ ((phase = "page" \/ c # None) /\ (c = None \/ After(f, c, r)))
            \/ phase = "failed"
    BY <2>1, <2>2, <2>3, <2>4 DEF Reads, Rest
  <2>6. \A i \in 1 .. Len(s) : s[i].key \notin touched' => s[i] \in Rows(f)'
    <3>1. \A i \in 1 .. Len(s) : s[i] \in RowSpace
      BY <1>2
    <3>2. QED BY <2>1, <2>2, <2>3, <3>1 DEF Reads
  <2>7. QED BY <2>1, <2>5, <2>6 DEF Reads, Rest
<1>3. ReaderTyped'
  BY <1>1 DEF ReaderTyped
<1>4. ReadSoFar'
  <2>1. SUFFICES ASSUME reader # NoReader, reader.phase # "refused"
                 PROVE  Reads(reader.filters, reader.phase, reader.cursor, reader.rows)'
    BY <1>1 DEF ReadSoFar
  <2>2. /\ reader.filters \in Requests /\ reader.rows \in Seq(RowSpace)
        /\ reader'.filters = reader.filters /\ reader'.phase = reader.phase
        /\ reader'.cursor = reader.cursor /\ reader'.rows = reader.rows
    BY <1>1, <2>1, ReaderParts
  <2>3. PICK f \in Requests, s \in Seq(RowSpace) : f = reader.filters /\ s = reader.rows
    BY <2>2
  <2>4. PICK phase : phase = reader.phase
    OBVIOUS
  <2>5. PICK c : c = reader.cursor
    OBVIOUS
  <2>6. Reads(f, phase, c, s)'
    BY <1>2, <2>1, <2>3, <2>4, <2>5
  <2>7. f = reader'.filters /\ phase = reader'.phase /\ c = reader'.cursor /\ s = reader'.rows
    BY <2>2, <2>3, <2>4, <2>5
  <2>8. QED BY <2>6, <2>7
<1>5. QED BY <1>3, <1>4

\* Every step leaves what is read right.
LEMMA ReportInvGoesOn == ReportInv /\ [ReportNext]_reportVars => ReportInv'
<1> SUFFICES ASSUME ReportInv, [ReportNext]_reportVars PROVE ReportInv'
  OBVIOUS
<1>1. FactsTyped /\ FactsTyped' /\ ReaderTyped /\ ReadSoFar
  BY FactsStayTyped DEF ReportInv
<1>2. ASSUME NEW filters \in Requests, GetReport(filters) \/ RequestReportExport(filters)
      PROVE  ReportInv'
  <2>1. PICK mode \in {"READ", "EXPORT"}, phase \in {"page", "refused"} :
            reader' = Reader(mode, phase, filters)
    BY <1>2 DEF GetReport, RequestReportExport
  <2>2. /\ reader'.filters = filters /\ reader'.phase = phase
        /\ reader'.cursor = None /\ reader'.rows = <<>>
    BY <2>1 DEF Reader
  <2>3. ReaderTyped'
    BY <2>1 DEF ReaderTyped, Reader
  <2>4. phase = "page" => Reads(filters, phase, None, <<>>)'
    BY DEF Reads, SortedRows, Rest
  <2>5. ReadSoFar'
    BY <2>1, <2>2, <2>4 DEF ReadSoFar
  <2>6. QED BY <1>1, <2>3, <2>5 DEF ReportInv
<1>3. ASSUME NEW filters \in Requests, NextPage(filters)
      PROVE  ReportInv'
  <2>1. reader # NoReader /\ UNCHANGED <<fuel, dispatch, touched>>
    BY <1>3 DEF NextPage, NoReader
  <2>2. PICK f \in Requests : f = reader.filters
    BY <1>1, <2>1, ReaderParts
  <2>3. PICK c \in Cursors : c = reader.cursor
    BY <1>1, <1>3, <2>1, ReaderParts DEF NextPage
  <2>4. PICK s \in Seq(RowSpace) : s = reader.rows
    BY <1>1, <2>1, ReaderParts
  <2>5. Reads(f, "shown", c, s) /\ c # None
    BY <1>1, <1>3, <2>1, <2>2, <2>3, <2>4 DEF ReadSoFar, NextPage
  <2>6. CASE ~decodes(filters, c)
    <3>1. reader' = [reader EXCEPT !.phase = "refused"]
      BY <1>3, <2>3, <2>6 DEF NextPage
    <3>2. ReaderTyped' /\ reader'.phase = "refused"
      BY <1>1, <2>1, <3>1 DEF ReaderTyped
    <3>3. QED BY <1>1, <3>2 DEF ReportInv, ReadSoFar
  <2>7. CASE decodes(filters, c)
    <3>1. reader' = [reader EXCEPT !.phase = "page", !.filters = filters]
      BY <1>3, <2>3, <2>7 DEF NextPage
    <3>2. filters = f
      <4>1. c = encodeCursor(f, Last(s))
        BY <2>5 DEF Reads
      <4>2. c.fingerprint = f
        BY <4>1 DEF encodeCursor, filterFingerprint
      <4>3. QED BY <2>5, <2>7, <4>2 DEF decodes, filterFingerprint
    <3>3. ReaderTyped' /\ reader' # NoReader
      BY <1>1, <2>1, <3>1 DEF ReaderTyped, NoReader
    <3>4. reader'.filters = f /\ reader'.phase = "page" /\ reader'.cursor = c /\ reader'.rows = s
      BY <1>1, <2>1, <2>3, <2>4, <3>1, <3>2 DEF ReaderTyped
    <3>5. Reads(f, "page", c, s)
      BY <2>5 DEF Reads
    <3>6. Reads(f, "page", c, s)'
      BY <2>1, <3>5, ReadsStays
    <3>7. QED BY <1>1, <3>3, <3>4, <3>6 DEF ReportInv, ReadSoFar
  <2>8. QED BY <2>6, <2>7
<1>4. CASE ReadPage
  <2>1. reader # NoReader /\ UNCHANGED <<fuel, dispatch, touched>> /\ reader.phase = "page"
    BY <1>4 DEF ReadPage, NoReader
  <2>2. PICK f \in Requests : f = reader.filters
    BY <1>1, <2>1, ReaderParts
  <2>3. PICK c \in {None} \cup Cursors : c = reader.cursor
    BY <1>1, <2>1, ReaderParts
  <2>4. PICK s \in Seq(RowSpace) : s = reader.rows
    BY <1>1, <2>1, ReaderParts
  <2> DEFINE d == fetchPage(f, c).nextCursor
             q == s \o fetchPage(f, c).rows
  <2>5. PICK phase \in {"page", "totals", "failed"} :
            /\ reader' = [reader EXCEPT !.rows = q, !.cursor = d, !.phase = phase]
            /\ phase = "page" => d # None
    BY <1>4, <2>2, <2>3, <2>4 DEF ReadPage
  <2>6. Reads(f, "page", c, s)
    BY <1>1, <2>1, <2>2, <2>3, <2>4 DEF ReadSoFar
  <2>7. q \in Seq(RowSpace) /\ d \in {None} \cup Cursors /\ Reads(f, phase, d, q)
    BY <1>1, <2>5, <2>6, PageJoins
  <2> HIDE DEF d, q
  <2>8. ReaderTyped' /\ reader' # NoReader
    BY <1>1, <2>1, <2>5, <2>7 DEF ReaderTyped, NoReader
  <2>9. reader'.filters = f /\ reader'.phase = phase /\ reader'.cursor = d /\ reader'.rows = q
    BY <1>1, <2>1, <2>2, <2>5 DEF ReaderTyped
  <2>10. PICK e : e = d
    OBVIOUS
  <2>11. PICK t : t = q
    OBVIOUS
  <2>12. Reads(f, phase, e, t)'
    BY <2>1, <2>7, <2>10, <2>11, ReadsStays
  <2>13. reader'.cursor = e /\ reader'.rows = t
    BY <2>9, <2>10, <2>11
  <2>14. ReadSoFar'
    BY <2>9, <2>12, <2>13 DEF ReadSoFar
  <2>15. QED BY <1>1, <2>8, <2>14 DEF ReportInv
<1>5. CASE Totals \/ ExportFails
  <2>1. reader # NoReader /\ UNCHANGED <<fuel, dispatch, touched>>
    BY <1>5 DEF Totals, ExportFails, NoReader
  <2>2. PICK f \in Requests : f = reader.filters
    BY <1>1, <2>1, ReaderParts
  <2>3. PICK c \in {None} \cup Cursors : c = reader.cursor
    BY <1>1, <2>1, ReaderParts
  <2>4. PICK s \in Seq(RowSpace) : s = reader.rows
    BY <1>1, <2>1, ReaderParts
  <2>5. PICK phase \in {"shown", "failed"} :
            /\ reader' = [reader EXCEPT !.phase = phase]
            /\ phase = "shown" => reader.phase = "totals"
    BY <1>5 DEF Totals, ExportFails
  <2>6. Reads(f, reader.phase, c, s)
    BY <1>1, <1>5, <2>1, <2>2, <2>3, <2>4 DEF ReadSoFar, Totals, ExportFails
  <2>7. Reads(f, phase, c, s)
    BY <2>5, <2>6 DEF Reads
  <2>8. ReaderTyped' /\ reader' # NoReader
    BY <1>1, <2>1, <2>5 DEF ReaderTyped, NoReader
  <2>9. reader'.filters = f /\ reader'.phase = phase /\ reader'.cursor = c /\ reader'.rows = s
    BY <1>1, <2>1, <2>2, <2>3, <2>4, <2>5 DEF ReaderTyped
  <2>10. Reads(f, phase, c, s)'
    BY <2>1, <2>7, ReadsStays
  <2>11. QED BY <1>1, <2>8, <2>9, <2>10 DEF ReportInv, ReadSoFar
<1>6. CASE Leave
  BY <1>1, <1>6 DEF Leave, ReportInv, ReaderTyped, ReadSoFar
<1>7. CASE ChangeFuel \/ ChangeDispatch
  BY <1>1, <1>7, ChangesKeepReads DEF ReportInv
<1>8. CASE UNCHANGED reportVars
  <2>1. UNCHANGED <<fuel, dispatch, touched, reader>>
    BY <1>8 DEF reportVars
  <2>2. ReaderTyped'
    BY <1>1, <2>1 DEF ReaderTyped
  <2>3. ReadSoFar'
    <3>1. SUFFICES ASSUME reader # NoReader, reader.phase # "refused"
                   PROVE  Reads(reader.filters, reader.phase, reader.cursor, reader.rows)'
      BY <2>1 DEF ReadSoFar
    <3>2. PICK f : f = reader.filters
      OBVIOUS
    <3>3. PICK phase : phase = reader.phase
      OBVIOUS
    <3>4. PICK c : c = reader.cursor
      OBVIOUS
    <3>5. PICK s : s = reader.rows
      OBVIOUS
    <3>6. Reads(f, phase, c, s)
      BY <1>1, <3>1, <3>2, <3>3, <3>4, <3>5 DEF ReadSoFar
    <3>7. Reads(f, phase, c, s)'
      BY <2>1, <3>6, ReadsStays
    <3>8. f = reader'.filters /\ phase = reader'.phase /\ c = reader'.cursor /\ s = reader'.rows
      BY <2>1, <3>2, <3>3, <3>4, <3>5
    <3>9. QED BY <3>7, <3>8
  <2>4. QED BY <1>1, <2>2, <2>3 DEF ReportInv
<1>9. QED
  BY <1>2, <1>3, <1>4, <1>5, <1>6, <1>7, <1>8 DEF ReportNext

\* A report read to its end holds what its rows are, but for touched rows.
LEMMA ReadWhole == ReportInv => NothingMissed
<1> SUFFICES ASSUME ReportInv PROVE NothingMissed
  OBVIOUS
<1>1. CASE reader = NoReader \/ reader.phase = "refused"
  BY <1>1 DEF NothingMissed, Whole
<1>2. CASE reader # NoReader /\ reader.phase # "refused"
  <2> DEFINE f == reader.filters
             s == reader.rows
  <2>1. Reads(f, reader.phase, reader.cursor, s) /\ s \in Seq(RowSpace)
    BY <1>2, ReaderParts DEF ReportInv, ReadSoFar
  <2>2. DOMAIN s = 1 .. Len(s)
    BY <2>1
  <2> HIDE DEF f, s
  <2>3. \A i, j \in DOMAIN s : i < j => Before(f, s[i], s[j])
    BY <2>1, <2>2 DEF Reads, SortedRows
  <2>4. ASSUME Whole
        PROVE  {r \in Range(s) : r.key \notin touched} = {r \in Rows(f) : r.key \notin touched}
    <3>1. \A r \in Rows(f) : r.key \notin touched => Holds(s, r)
      BY <2>1, <2>4 DEF Reads, Whole
    <3>2. \A r : Holds(s, r) <=> r \in Range(s)
      BY <2>2 DEF Holds, Range
    <3>3. \A r \in Range(s) : r.key \notin touched => r \in Rows(f)
      BY <2>1, <2>2 DEF Range, Reads
    <3>4. QED BY <3>1, <3>2, <3>3
  <2>5. QED BY <2>3, <2>4 DEF NothingMissed, f, s
<1>3. QED BY <1>1, <1>2

\* A report read page by page, or streamed into a workbook, misses no row and
\* holds none twice, for any issuances, dispatches, filters, page sizes and number
\* of changes between two pages (fetchPage, GetReport, the exporter's stream).
THEOREM PagesMissNothing == ReportSpec => []NothingMissed
<1>1. ReportInit => ReportInv
  BY FactsAssumption DEF ReportInit, ReportInv, FactsTyped, ReaderTyped, ReadSoFar
<1>2. QED BY <1>1, ReportInvGoesOn, ReadWhole, PTL DEF ReportSpec

(***************************************************************************)
(* Totals of reports.  What is measured of the facts is a sum over them,   *)
(* and the rows group them without overlap: so the rows add up to what a   *)
(* query over all facts finds, and pages that hold all rows do too.  The   *)
(* row of totals puts each total under the heading whose column it is of.  *)
(***************************************************************************)
Amounts == {"count", "liters", "amount", "distance"}

\* A sum of what a function says of a set's members.
LEMMA SumOver ==
    ASSUME NEW ks, IsFiniteSet(ks), NEW w, \A k \in ks : w[k] \in Int,
           NEW h, DOMAIN h = ks, \A k \in ks : h[k] = w[k]
    PROVE  Sum(h) = Total(w, ks)
  BY SumIsTotal, TotalSame

\* What a report measures of a group is a sum over the group's facts.
LEMMA MeasuresAdd ==
    ASSUME FactsTyped, NEW f \in Requests, NEW m \in Amounts
    PROVE  \E w : /\ \A k \in DOMAIN Facts(f) : w[k] \in Int
                  /\ \A ks \in SUBSET DOMAIN Facts(f) : Measures(f, ks)[m] = Total(w, ks)
<1> DEFINE D == DOMAIN Facts(f)
<1>1. \A ks \in SUBSET D : IsFiniteSet(ks)
  BY FactsOf, FS_Subset
<1>2. CASE m = "count"
  <2> DEFINE w == [k \in D |-> 1]
  <2>1. \A ks \in SUBSET D : Measures(f, ks).count = Cardinality(ks)
    BY DEF Measures
  <2>2. ASSUME NEW ks \in SUBSET D
        PROVE  Measures(f, ks)[m] = Total(w, ks)
    <3>1. \A k \in ks : w[k] = 1
      OBVIOUS
    <3> HIDE DEF w, D
    <3>2. Total(w, ks) = Cardinality(ks)
      BY <1>1, <3>1, TotalOfOnes
    <3>3. QED BY <1>2, <2>1, <3>2
  <2>3. \A k \in D : w[k] \in Int
    OBVIOUS
  <2> HIDE DEF w
  <2>4. QED BY <2>2, <2>3
<1>3. CASE \/ f.type \in DispatchReports /\ m \in {"liters", "amount"}
           \/ f.type \notin DispatchReports /\ m = "distance"
  <2> DEFINE w == [k \in D |-> 0]
  <2>1. \A ks \in SUBSET D : Measures(f, ks)[m] = 0
    <3>1. CASE f.type \in DispatchReports
      BY <1>3, <3>1 DEF Measures
    <3>2. CASE f.type \notin DispatchReports
      BY <1>3, <3>2 DEF Measures
    <3>3. QED BY <3>1, <3>2
  <2>2. ASSUME NEW ks \in SUBSET D
        PROVE  Measures(f, ks)[m] = Total(w, ks)
    <3>1. \A k \in ks : w[k] = 0
      OBVIOUS
    <3> HIDE DEF w, D
    <3>2. Total(w, ks) = 0
      BY <1>1, <3>1, TotalOfZeros
    <3>3. QED BY <2>1, <3>2
  <2>3. \A k \in D : w[k] \in Int
    OBVIOUS
  <2> HIDE DEF w
  <2>4. QED BY <2>2, <2>3
<1>4. CASE f.type \notin DispatchReports /\ m = "liters"
  <2> DEFINE w == [k \in D |-> fuel[k].liters]
  <2>1. \A k \in D : fuel[k].liters \in Int
    BY <1>4 DEF Facts, FactsTyped, FuelFacts
  <2>2. ASSUME NEW ks \in SUBSET D
        PROVE  Measures(f, ks)[m] = Total(w, ks)
    <3> DEFINE h == [k \in ks |-> fuel[k].liters]
    <3>1. Measures(f, ks)[m] = Sum(h)
      BY <1>4 DEF Measures
    <3>2. DOMAIN h = ks /\ \A k \in ks : h[k] = w[k] /\ w[k] \in Int
      BY <2>1
    <3> HIDE DEF w, h, D
    <3>3. QED BY <1>1, <3>1, <3>2, SumOver
  <2>3. \A k \in D : w[k] \in Int
    BY <2>1
  <2> HIDE DEF w
  <2>4. QED BY <2>2, <2>3
<1>5. CASE f.type \notin DispatchReports /\ m = "amount"
  <2> DEFINE w == [k \in D |-> fuel[k].amount]
  <2>1. \A k \in D : fuel[k].amount \in Int
    BY <1>5 DEF Facts, FactsTyped, FuelFacts
  <2>2. ASSUME NEW ks \in SUBSET D
        PROVE  Measures(f, ks)[m] = Total(w, ks)
    <3> DEFINE h == [k \in ks |-> fuel[k].amount]
    <3>1. Measures(f, ks)[m] = Sum(h)
      BY <1>5 DEF Measures
    <3>2. DOMAIN h = ks /\ \A k \in ks : h[k] = w[k] /\ w[k] \in Int
      BY <2>1
    <3> HIDE DEF w, h, D
    <3>3. QED BY <1>1, <3>1, <3>2, SumOver
  <2>3. \A k \in D : w[k] \in Int
    BY <2>1
  <2> HIDE DEF w
  <2>4. QED BY <2>2, <2>3
<1>6. CASE f.type \in DispatchReports /\ m = "distance"
  <2> DEFINE w == [k \in D |-> Distance(dispatch[k])]
  <2>1. \A k \in D : Distance(dispatch[k]) \in Int
    BY <1>6 DEF Facts, FactsTyped, DispatchFacts, Distance
  <2>2. ASSUME NEW ks \in SUBSET D
        PROVE  Measures(f, ks)[m] = Total(w, ks)
    <3> DEFINE h == [k \in ks |-> Distance(dispatch[k])]
    <3>1. Measures(f, ks)[m] = Sum(h)
      BY <1>6 DEF Measures
    <3>2. DOMAIN h = ks /\ \A k \in ks : h[k] = w[k] /\ w[k] \in Int
      BY <2>1
    <3> HIDE DEF w, h, D
    <3>3. QED BY <1>1, <3>1, <3>2, SumOver
  <2>3. \A k \in D : w[k] \in Int
    BY <2>1
  <2> HIDE DEF w
  <2>4. QED BY <2>2, <2>3
<1>7. QED BY <1>2, <1>3, <1>4, <1>5, <1>6 DEF Amounts

\* What the rows of a report measure adds up to what the report measures as a whole.
LEMMA RowsAddUp ==
    ASSUME FactsTyped, NEW f \in Requests, NEW m \in Amounts,
           NEW h, \A r \in Rows(f) : h[r] = r.of[m]
    PROVE  Total(h, Rows(f)) = Measures(f, Base(f, Facts(f)))[m]
<1> DEFINE base == Base(f, Facts(f))
           key == [k \in base |-> KeyOf(f, k, Facts(f)[k])]
           vs == {key[k] : k \in base}
           row == [v \in vs |-> Row(f, v, Group(f, v))]
<1>1. base \subseteq DOMAIN Facts(f) /\ IsFiniteSet(base)
  BY FactsOf, FS_Subset DEF Base
<1>2. Rows(f) = {row[v] : v \in vs}
  BY ONLY DEF Rows, Group, base, key, vs, row
<1>3. IsFiniteSet(vs)
  <2>1. key \in [base -> vs] /\ \A v \in vs : \E k \in base : key[k] = v
    OBVIOUS
  <2> HIDE DEF key, vs, base
  <2>2. key \in Surjection(base, vs)
    BY <2>1 DEF Surjection
  <2>3. QED BY <1>1, <2>2, FS_Surjection
<1>4. \A v \in vs : Group(f, v) = {k \in base : key[k] = v} /\ Group(f, v) \subseteq DOMAIN Facts(f)
  BY <1>1 DEF Group
<1>5. PICK w : /\ \A k \in DOMAIN Facts(f) : w[k] \in Int
               /\ \A ks \in SUBSET DOMAIN Facts(f) : Measures(f, ks)[m] = Total(w, ks)
  BY MeasuresAdd
<1> DEFINE g == [v \in vs |-> Total(w, Group(f, v))]
<1>6. \A v \in vs : row[v].key = v /\ row[v].of = Measures(f, Group(f, v)) /\ row[v] \in Rows(f)
  BY <1>2 DEF Row
<1>7. \A v \in vs : g[v] \in Int /\ h[row[v]] = g[v] /\ g[v] = Total(w, {k \in base : key[k] = v})
  <2>1. ASSUME NEW v \in vs
        PROVE  g[v] \in Int /\ h[row[v]] = g[v] /\ g[v] = Total(w, {k \in base : key[k] = v})
    <3>1. g[v] = Total(w, Group(f, v))
      OBVIOUS
    <3> HIDE DEF g, row, vs
    <3>2. h[row[v]] = Total(w, Group(f, v))
      BY <1>4, <1>5, <1>6
    <3>3. IsFiniteSet(Group(f, v)) /\ \A k \in Group(f, v) : w[k] \in Int
      <4>1. IsFiniteSet(DOMAIN Facts(f)) /\ Group(f, v) \subseteq DOMAIN Facts(f)
        BY <1>4, FactsOf
      <4>2. QED BY <1>5, <4>1, FS_Subset
    <3>4. Total(w, Group(f, v)) \in Int
      BY <3>3, TotalIsInt
    <3> HIDE DEF key, base
    <3>5. QED BY <1>4, <3>1, <3>2, <3>4
  <2> HIDE DEF g, row, vs, key, base
  <2>2. QED BY <2>1
<1>8. Total(g, vs) = Total(w, base)
  <2>1. (\A k \in base : key[k] \in vs) /\ \A k \in base : w[k] \in Int
    BY <1>1, <1>5
  <2> HIDE DEF base, key, vs, g
  <2>2. QED BY <1>1, <1>3, <1>7, <2>1, TotalGrouped
<1>9. Total(h, Rows(f)) = Total(g, vs)
  <2>1. \A u, v \in vs : row[u] = row[v] => u = v
    <3> HIDE DEF row, vs
    <3>1. QED BY <1>6
  <2> HIDE DEF row, vs, g
  <2>2. Total(h, {row[v] : v \in vs}) = Total(g, vs)
    <3>1. \A v \in vs : g[v] \in Int /\ h[row[v]] = g[v]
      BY <1>7
    <3>2. QED BY ONLY <1>3, <2>1, <3>1, TotalRenamed
  <2>3. QED BY <1>2, <2>2
<1>10. Measures(f, base)[m] = Total(w, base)
  BY <1>1, <1>5
<1>11. QED
  <2> HIDE DEF base, g, vs
  <2>1. QED BY <1>8, <1>9, <1>10 DEF base

\* Rows read to the end are as many as the report has, and add up to what it measures.
LEMMA PagesAddUp ==
    ASSUME FactsTyped, NEW f \in Requests, NEW s, s \in Seq(RowSpace), SortedRows(f, s),
           {s[i] : i \in DOMAIN s} = Rows(f)
    PROVE  /\ Len(s) = Cardinality(Rows(f))
           /\ \A m \in Amounts : Sum([i \in DOMAIN s |-> s[i].of[m]]) = Measures(f, Base(f, Facts(f)))[m]
<1> DEFINE n == Len(s)
<1>1. n \in Nat /\ DOMAIN s = 1 .. n /\ s \in [1 .. n -> RowSpace]
  BY SeqDef
<1>2. \A i, j \in 1 .. n : s[i] = s[j] => i = j
  <2>1. ASSUME NEW i \in 1 .. n, NEW j \in 1 .. n, i < j
        PROVE  s[i] # s[j]
    <3>1. Before(f, s[i], s[j])
      BY <2>1 DEF SortedRows
    <3>2. s[i].key \in Int /\ s[i].date \in Int
      BY <1>1 DEF RowSpace
    <3>3. QED BY <3>1, <3>2 DEF Before
  <2> HIDE DEF n
  <2>2. QED BY <1>1, <2>1
<1>3. Rows(f) = {s[i] : i \in 1 .. n}
  BY <1>1
<1>4. IsFiniteSet(1 .. n) /\ Cardinality(1 .. n) = n
  BY <1>1, FS_Interval
<1> HIDE DEF n
<1>5. n = Cardinality(Rows(f))
  <2>1. s \in Surjection(1 .. n, Rows(f)) /\ s \in Injection(1 .. n, Rows(f))
    <3>1. s \in [1 .. n -> Rows(f)] /\ \A r \in Rows(f) : \E i \in 1 .. n : s[i] = r
      BY <1>1, <1>3
    <3>2. QED BY <1>2, <3>1 DEF Surjection, Injection, IsInjective
  <2>2. QED BY <1>4, <2>1, FS_Surjection
<1>6. ASSUME NEW m \in Amounts
      PROVE  Sum([i \in DOMAIN s |-> s[i].of[m]]) = Measures(f, Base(f, Facts(f)))[m]
  <2> DEFINE h == [r \in Rows(f) |-> r.of[m]]
             g == [i \in 1 .. n |-> s[i].of[m]]
  <2>1. \A i \in 1 .. n : g[i] \in Int /\ h[s[i]] = g[i]
    <3>1. \A i \in 1 .. n : s[i] \in Rows(f) /\ s[i] \in RowSpace
      BY <1>1, <1>3
    <3>2. \A r \in RowSpace : r.of[m] \in Int
      BY DEF RowSpace, Measured, Amounts
    <3>3. QED BY <3>1, <3>2
  <2>2. \A r \in Rows(f) : h[r] = r.of[m]
    OBVIOUS
  <2>3. DOMAIN g = 1 .. n /\ g = [i \in DOMAIN s |-> s[i].of[m]]
    BY <1>1
  <2> HIDE DEF h, g
  <2>4. Total(h, Rows(f)) = Measures(f, Base(f, Facts(f)))[m]
    BY <2>2, RowsAddUp
  <2>5. Total(h, {s[i] : i \in 1 .. n}) = Total(g, 1 .. n)
    <3>1. PICK d : d = 1 .. n
      OBVIOUS
    <3>2. IsFiniteSet(d) /\ (\A i, j \in d : s[i] = s[j] => i = j) /\ \A i \in d : g[i] \in Int /\ h[s[i]] = g[i]
      BY ONLY <1>2, <1>4, <2>1, <3>1
    <3>3. Total(h, {s[i] : i \in d}) = Total(g, d)
      BY ONLY <3>2, TotalRenamed
    <3>4. QED BY ONLY <3>1, <3>3
  <2>6. Sum(g) = Total(g, 1 .. n)
    BY <2>3, SumIsTotal
  <2>7. QED BY <1>3, <2>3, <2>4, <2>5, <2>6
<1>7. QED BY <1>5, <1>6 DEF n

\* The smaller of two numbers.
LEMMA MinOf ==
    ASSUME NEW a \in Int, NEW b \in Int
    PROVE  Min({a, b}) = IF a <= b THEN a ELSE b
<1>1. \E x \in {a, b} : \A y \in {a, b} : x <= y
  OBVIOUS
<1>2. Min({a, b}) \in {a, b} /\ \A y \in {a, b} : Min({a, b}) <= y
  BY <1>1 DEF Min
<1>3. QED BY <1>2

\* Totals queried and totals added up are the same, where they are added up.
LEMMA AddedIsQueried ==
    ASSUME FactsTyped, NEW f \in Requests, NEW s, s \in Seq(RowSpace), SortedRows(f, s),
           {s[i] : i \in DOMAIN s} = Rows(f)
    PROVE  /\ \A m \in AddedUp(f.type) : collectTotals(f, s)[m] = getTotals(f)[m]
           /\ collectTotals(f, s).rowCount = Len(s) /\ Len(s) \in Nat
           /\ getTotals(f).rowCount = Min({Len(s), CountedRows + 1})
<1> DEFINE all == Measures(f, Base(f, Facts(f)))
           sum(m) == Sum([i \in DOMAIN s |-> s[i].of[m]])
<1>1. /\ sum("count") = all.count /\ sum("liters") = all.liters
      /\ sum("amount") = all.amount /\ sum("distance") = all.distance
      /\ Len(s) = Cardinality(Rows(f))
  BY PagesAddUp DEF Amounts
<1>2. getTotals(f) = [rowCount |-> Min({Cardinality(Rows(f)), CountedRows + 1}),
                      trips |-> CountsTrips(f, all.count), liters |-> all.liters,
                      amount |-> all.amount, distance |-> all.distance]
  BY DEF getTotals, estimateRows
<1>3. collectTotals(f, s) =
          [rowCount |-> Len(s), trips |-> CountsTrips(f, sum("count")),
           liters |-> IF f.type = "FUEL_AMOUNT_BY_PERIOD" THEN 0 ELSE sum("liters"),
           amount |-> sum("amount"),
           distance |-> IF f.type = "DISPATCH_COUNT_BY_OFFICE" THEN 0 ELSE sum("distance")]
  BY DEF collectTotals
<1> HIDE DEF all, sum
<1>4. ASSUME NEW m \in AddedUp(f.type)
      PROVE  collectTotals(f, s)[m] = getTotals(f)[m]
  BY <1>1, <1>2, <1>3 DEF AddedUp
<1>5. collectTotals(f, s).rowCount = Len(s)
  BY <1>3
<1>6. getTotals(f).rowCount = Min({Len(s), CountedRows + 1})
  <2>1. getTotals(f).rowCount = Min({Cardinality(Rows(f)), CountedRows + 1})
    BY ONLY <1>2
  <2>2. QED BY ONLY <1>1, <2>1
<1>7. Len(s) \in Nat
  OBVIOUS
<1>8. QED BY <1>4, <1>5, <1>6, <1>7

-----------------------------------------------------------------------------
\* The total that belongs under a heading.
TotalOfHeading(heading) ==
    IF heading = "Issued liters" THEN "liters"
    ELSE IF heading = "Total amount" THEN "amount"
    ELSE IF heading \in {"Dispatches", "Completed trips"} THEN "trips" ELSE "distance"
Zeros(n) == [i \in 1 .. n |-> 0]

\* Columns c and the values v under them, with n blanks before both.
Pasted(n, c, v, C, V, top, below) ==
    /\ n \in Nat /\ c \in Seq(C) /\ v \in Seq(V) /\ Len(c) = Len(v)
    /\ top = Blank(n) \o c /\ below = Zeros(n) \o v
\* What the blanks before them push aside: columns and totals alike.
LEMMA PastBlanks ==
    ASSUME NEW n, NEW C, NEW V, NEW c, NEW v, NEW top, NEW below, Pasted(n, c, v, C, V, top, below),
           NEW i \in DOMAIN top, top[i] # "blank"
    PROVE  \E j \in 1 .. Len(c) : c[j] = top[i] /\ v[j] = below[i]
<1>0. /\ n \in Nat /\ c \in Seq(C) /\ v \in Seq(V) /\ Len(c) = Len(v)
      /\ top = Blank(n) \o c /\ below = Zeros(n) \o v
  BY DEF Pasted
<1> DEFINE b == Blank(n)
           z == Zeros(n)
<1>1. b \in Seq(C \cup {"blank"}) /\ Len(b) = n /\ c \in Seq(C \cup {"blank"}) /\ \A k \in 1 .. n : b[k] = "blank"
  BY <1>0 DEF Blank
<1>2. z \in Seq(V \cup {0}) /\ Len(z) = n /\ v \in Seq(V \cup {0})
  BY <1>0 DEF Zeros
<1>3. Len(c) \in Nat /\ n \in Nat /\ Len(v) = Len(c)
  BY <1>0
<1> HIDE DEF b, z
<1>4. b \o c \in Seq(C \cup {"blank"}) /\ Len(b \o c) = n + Len(c)
  BY ONLY <1>1, ConcatProperties
<1>5. \A k \in 1 .. n + Len(c) : (b \o c)[k] = IF k <= n THEN b[k] ELSE c[k - n]
  BY ONLY <1>1, ConcatProperties
<1>6. \A k \in 1 .. n + Len(c) : (z \o v)[k] = IF k <= n THEN z[k] ELSE v[k - n]
  BY ONLY <1>2, <1>3, ConcatProperties
<1>7. i \in 1 .. n + Len(c)
  <2>1. DOMAIN (b \o c) = 1 .. n + Len(c)
    BY <1>3, <1>4
  <2>2. QED BY <1>0, <2>1 DEF b
<1>8. i > n
  <2>1. (b \o c)[i] # "blank"
    BY <1>0 DEF b
  <2>2. QED BY <1>1, <1>3, <1>5, <1>7, <2>1
<1>9. i - n \in 1 .. Len(c)
  BY <1>3, <1>7, <1>8
<1>10. (b \o c)[i] = c[i - n] /\ (z \o v)[i] = v[i - n]
  <2>1. ~(i <= n)
    BY <1>3, <1>7, <1>8
  <2>2. (b \o c)[i] = c[i - n]
    BY ONLY <1>5, <1>7, <2>1
  <2>3. (z \o v)[i] = v[i - n]
    BY ONLY <1>6, <1>7, <2>1
  <2>4. QED BY ONLY <2>2, <2>3
<1>11. QED BY <1>0, <1>9, <1>10 DEF b, z

\* The total x stands rightly under a heading.
Stands(type, t, heading, x) ==
    heading \in Headed =>
        /\ TotalOfHeading(heading) \in AddedUp(type)
        /\ TotalOfHeading(heading) = "trips" => type \in DispatchReports
        /\ x = t[TotalOfHeading(heading)]
\* The headings under which each total stands rightly, by the type of the report.
LEMMA StandsRight ==
    ASSUME NEW type, NEW t
    PROVE  /\ type # "FUEL_AMOUNT_BY_PERIOD" => Stands(type, t, "Issued liters", t.liters)
           /\ Stands(type, t, "Total amount", t.amount)
           /\ type \in DispatchReports =>
                  /\ Stands(type, t, "Dispatches", t.trips)
                  /\ Stands(type, t, "Completed trips", t.trips)
           /\ type # "DISPATCH_COUNT_BY_OFFICE" =>
                  /\ Stands(type, t, "Distance", t.distance)
                  /\ Stands(type, t, "Completed distance", t.distance)
           /\ \A x : /\ Stands(type, t, "blank", x) /\ Stands(type, t, "Issuances", x)
                     /\ Stands(type, t, "Passengers", x)
<1>1. type # "FUEL_AMOUNT_BY_PERIOD" => Stands(type, t, "Issued liters", t.liters)
  BY DEF Stands, TotalOfHeading, AddedUp
<1>2. Stands(type, t, "Total amount", t.amount)
  BY DEF Stands, TotalOfHeading, AddedUp
<1>3. type \in DispatchReports =>
                  /\ Stands(type, t, "Dispatches", t.trips)
                  /\ Stands(type, t, "Completed trips", t.trips)
  BY DEF Stands, TotalOfHeading, AddedUp
<1>4. type # "DISPATCH_COUNT_BY_OFFICE" =>
                  /\ Stands(type, t, "Distance", t.distance)
                  /\ Stands(type, t, "Completed distance", t.distance)
  BY DEF Stands, TotalOfHeading, AddedUp
<1>5. \A x : /\ Stands(type, t, "blank", x) /\ Stands(type, t, "Issuances", x)
            /\ Stands(type, t, "Passengers", x)
  BY DEF Stands, Headed
<1>6. QED BY <1>1, <1>2, <1>3, <1>4, <1>5

\* The columns of the sheet of a type and the values of its row of totals: as many
\* blanks before the first total, and under the headings the totals they are of.
Headings == Headed \cup {"blank", "Issuances", "Passengers"}
Sheet(type, t, n, c, v) ==
    /\ columnsFor(type) = Blank(n) \o c /\ totalValues(type, t) = Zeros(n) \o v
    /\ c \in Seq(Headings) /\ v \in Seq({0, t.rowCount, t.trips, t.liters, t.amount, t.distance})
    /\ Len(c) = Len(v) /\ \A j \in 1 .. Len(c) : Stands(type, t, c[j], v[j])
\* Every type but that of fuel types has such columns and values.
LEMMA SheetParts ==
    ASSUME NEW type \in DOMAIN IncludedStatuses, type # "FUEL_TYPE_TOTALS", NEW t
    PROVE  \E n \in Nat : \E c, v : Sheet(type, t, n, c, v)
<1>1. CASE type = "FUEL_ISSUANCE"
  <2> DEFINE c == <<"Issued liters", "blank", "Total amount", "blank">>
             v == <<t.liters, 0, t.amount, 0>>
  <2>1. columnsFor(type) = Blank(10) \o c
    BY <1>1 DEF columnsFor
  <2>2. totalValues(type, t) = Zeros(10) \o v
    BY <1>1 DEF totalValues, Zeros
  <2>3. c \in Seq(Headings) /\ Len(c) = 4 /\ Len(v) = 4
    BY DEF Headings, Headed
  <2>4. v \in Seq({0, t.rowCount, t.trips, t.liters, t.amount, t.distance})
    OBVIOUS
  <2>5. /\ Stands(type, t, "Issued liters", t.liters)
      /\ Stands(type, t, "blank", 0)
      /\ Stands(type, t, "Total amount", t.amount)
      /\ Stands(type, t, "blank", 0)
    BY <1>1, StandsRight DEF DispatchReports
  <2>6. \A j \in 1 .. 4 : Stands(type, t, c[j], v[j])
    <3>1. /\ Stands(type, t, c[1], v[1])
          /\ Stands(type, t, c[2], v[2])
          /\ Stands(type, t, c[3], v[3])
          /\ Stands(type, t, c[4], v[4])
      BY <2>5
    <3> HIDE DEF c, v
    <3>2. QED BY <3>1
  <2> HIDE DEF c, v
  <2>7. Sheet(type, t, 10, c, v)
    BY <2>1, <2>2, <2>3, <2>4, <2>6 DEF Sheet
  <2>8. QED BY <2>7
<1>2. CASE type = "FUEL_BY_OFFICE"
  <2> DEFINE c == <<"Issuances", "Issued liters", "Total amount">>
             v == <<t.rowCount, t.liters, t.amount>>
  <2>1. columnsFor(type) = Blank(1) \o c
    BY <1>2 DEF columnsFor
  <2>2. totalValues(type, t) = Zeros(1) \o v
    BY <1>2 DEF totalValues, Zeros
  <2>3. c \in Seq(Headings) /\ Len(c) = 3 /\ Len(v) = 3
    BY DEF Headings, Headed
  <2>4. v \in Seq({0, t.rowCount, t.trips, t.liters, t.amount, t.distance})
    OBVIOUS
  <2>5. /\ Stands(type, t, "Issuances", t.rowCount)
      /\ Stands(type, t, "Issued liters", t.liters)
      /\ Stands(type, t, "Total amount", t.amount)
    BY <1>2, StandsRight DEF DispatchReports
  <2>6. \A j \in 1 .. 3 : Stands(type, t, c[j], v[j])
    <3>1. /\ Stands(type, t, c[1], v[1])
          /\ Stands(type, t, c[2], v[2])
          /\ Stands(type, t, c[3], v[3])
      BY <2>5
    <3> HIDE DEF c, v
    <3>2. QED BY <3>1
  <2> HIDE DEF c, v
  <2>7. Sheet(type, t, 1, c, v)
    BY <2>1, <2>2, <2>3, <2>4, <2>6 DEF Sheet
  <2>8. QED BY <2>7
<1>3. CASE type = "FUEL_BY_VEHICLE"
  <2> DEFINE c == <<"Issuances", "Issued liters", "Total amount">>
             v == <<t.rowCount, t.liters, t.amount>>
  <2>1. columnsFor(type) = Blank(2) \o c
    BY <1>3 DEF columnsFor
  <2>2. totalValues(type, t) = Zeros(2) \o v
    BY <1>3 DEF totalValues, Zeros
  <2>3. c \in Seq(Headings) /\ Len(c) = 3 /\ Len(v) = 3
    BY DEF Headings, Headed
  <2>4. v \in Seq({0, t.rowCount, t.trips, t.liters, t.amount, t.distance})
    OBVIOUS
  <2>5. /\ Stands(type, t, "Issuances", t.rowCount)
      /\ Stands(type, t, "Issued liters", t.liters)
      /\ Stands(type, t, "Total amount", t.amount)
    BY <1>3, StandsRight DEF DispatchReports
  <2>6. \A j \in 1 .. 3 : Stands(type, t, c[j], v[j])
    <3>1. /\ Stands(type, t, c[1], v[1])
          /\ Stands(type, t, c[2], v[2])
          /\ Stands(type, t, c[3], v[3])
      BY <2>5
    <3> HIDE DEF c, v
    <3>2. QED BY <3>1
  <2> HIDE DEF c, v
  <2>7. Sheet(type, t, 2, c, v)
    BY <2>1, <2>2, <2>3, <2>4, <2>6 DEF Sheet
  <2>8. QED BY <2>7
<1>4. CASE type = "FUEL_AMOUNT_BY_PERIOD"
  <2> DEFINE c == <<"Issuances", "Total amount">>
             v == <<t.rowCount, t.amount>>
  <2>1. columnsFor(type) = Blank(3) \o c
    BY <1>4 DEF columnsFor
  <2>2. totalValues(type, t) = Zeros(3) \o v
    BY <1>4 DEF totalValues, Zeros
  <2>3. c \in Seq(Headings) /\ Len(c) = 2 /\ Len(v) = 2
    BY DEF Headings, Headed
  <2>4. v \in Seq({0, t.rowCount, t.trips, t.liters, t.amount, t.distance})
    OBVIOUS
  <2>5. Stands(type, t, "Issuances", t.rowCount) /\ Stands(type, t, "Total amount", t.amount)
    BY <1>4, StandsRight DEF DispatchReports
  <2>6. \A j \in 1 .. 2 : Stands(type, t, c[j], v[j])
    <3>1. /\ Stands(type, t, c[1], v[1])
          /\ Stands(type, t, c[2], v[2])
      BY <2>5
    <3> HIDE DEF c, v
    <3>2. QED BY <3>1
  <2> HIDE DEF c, v
  <2>7. Sheet(type, t, 3, c, v)
    BY <2>1, <2>2, <2>3, <2>4, <2>6 DEF Sheet
  <2>8. QED BY <2>7
<1>5. CASE type = "BUDGET_ALLOCATION_ACTIVITY"
  <2> DEFINE c == <<"Issuances", "Issued liters", "Total amount">>
             v == <<t.rowCount, t.liters, t.amount>>
  <2>1. columnsFor(type) = Blank(4) \o c
    BY <1>5 DEF columnsFor
  <2>2. totalValues(type, t) = Zeros(4) \o v
    BY <1>5 DEF totalValues, Zeros
  <2>3. c \in Seq(Headings) /\ Len(c) = 3 /\ Len(v) = 3
    BY DEF Headings, Headed
  <2>4. v \in Seq({0, t.rowCount, t.trips, t.liters, t.amount, t.distance})
    OBVIOUS
  <2>5. /\ Stands(type, t, "Issuances", t.rowCount)
      /\ Stands(type, t, "Issued liters", t.liters)
      /\ Stands(type, t, "Total amount", t.amount)
    BY <1>5, StandsRight DEF DispatchReports
  <2>6. \A j \in 1 .. 3 : Stands(type, t, c[j], v[j])
    <3>1. /\ Stands(type, t, c[1], v[1])
          /\ Stands(type, t, c[2], v[2])
          /\ Stands(type, t, c[3], v[3])
      BY <2>5
    <3> HIDE DEF c, v
    <3>2. QED BY <3>1
  <2> HIDE DEF c, v
  <2>7. Sheet(type, t, 4, c, v)
    BY <2>1, <2>2, <2>3, <2>4, <2>6 DEF Sheet
  <2>8. QED BY <2>7
<1>6. CASE type = "DISPATCH"
  <2> DEFINE c == <<"Passengers", "blank", "blank", "Distance", "blank">>
             v == <<t.trips, 0, 0, t.distance, 0>>
  <2>1. columnsFor(type) = Blank(8) \o c
    BY <1>6 DEF columnsFor
  <2>2. totalValues(type, t) = Zeros(8) \o v
    BY <1>6 DEF totalValues, Zeros
  <2>3. c \in Seq(Headings) /\ Len(c) = 5 /\ Len(v) = 5
    BY DEF Headings, Headed
  <2>4. v \in Seq({0, t.rowCount, t.trips, t.liters, t.amount, t.distance})
    OBVIOUS
  <2>5. /\ Stands(type, t, "Passengers", t.trips)
      /\ Stands(type, t, "blank", 0)
      /\ Stands(type, t, "blank", 0)
      /\ Stands(type, t, "Distance", t.distance)
      /\ Stands(type, t, "blank", 0)
    BY <1>6, StandsRight DEF DispatchReports
  <2>6. \A j \in 1 .. 5 : Stands(type, t, c[j], v[j])
    <3>1. /\ Stands(type, t, c[1], v[1])
          /\ Stands(type, t, c[2], v[2])
          /\ Stands(type, t, c[3], v[3])
          /\ Stands(type, t, c[4], v[4])
          /\ Stands(type, t, c[5], v[5])
      BY <2>5
    <3> HIDE DEF c, v
    <3>2. QED BY <3>1
  <2> HIDE DEF c, v
  <2>7. Sheet(type, t, 8, c, v)
    BY <2>1, <2>2, <2>3, <2>4, <2>6 DEF Sheet
  <2>8. QED BY <2>7
<1>7. CASE type = "DISPATCH_COUNT_BY_OFFICE"
  <2> DEFINE c == <<"Dispatches">>
             v == <<t.trips>>
  <2>1. columnsFor(type) = Blank(1) \o c
    BY <1>7 DEF columnsFor
  <2>2. totalValues(type, t) = Zeros(1) \o v
    BY <1>7 DEF totalValues, Zeros
  <2>3. c \in Seq(Headings) /\ Len(c) = 1 /\ Len(v) = 1
    BY DEF Headings, Headed
  <2>4. v \in Seq({0, t.rowCount, t.trips, t.liters, t.amount, t.distance})
    OBVIOUS
  <2>5. Stands(type, t, "Dispatches", t.trips)
    BY <1>7, StandsRight DEF DispatchReports
  <2>6. \A j \in 1 .. 1 : Stands(type, t, c[j], v[j])
    <3>1. Stands(type, t, c[1], v[1])
      BY <2>5
    <3> HIDE DEF c, v
    <3>2. QED BY <3>1
  <2> HIDE DEF c, v
  <2>7. Sheet(type, t, 1, c, v)
    BY <2>1, <2>2, <2>3, <2>4, <2>6 DEF Sheet
  <2>8. QED BY <2>7
<1>8. CASE type = "VEHICLE_UTILIZATION"
  <2> DEFINE c == <<"Completed trips", "Completed distance">>
             v == <<t.trips, t.distance>>
  <2>1. columnsFor(type) = Blank(2) \o c
    BY <1>8 DEF columnsFor
  <2>2. totalValues(type, t) = Zeros(2) \o v
    BY <1>8 DEF totalValues, Zeros
  <2>3. c \in Seq(Headings) /\ Len(c) = 2 /\ Len(v) = 2
    BY DEF Headings, Headed
  <2>4. v \in Seq({0, t.rowCount, t.trips, t.liters, t.amount, t.distance})
    OBVIOUS
  <2>5. Stands(type, t, "Completed trips", t.trips) /\ Stands(type, t, "Completed distance", t.distance)
    BY <1>8, StandsRight DEF DispatchReports
  <2>6. \A j \in 1 .. 2 : Stands(type, t, c[j], v[j])
    <3>1. /\ Stands(type, t, c[1], v[1])
          /\ Stands(type, t, c[2], v[2])
      BY <2>5
    <3> HIDE DEF c, v
    <3>2. QED BY <3>1
  <2> HIDE DEF c, v
  <2>7. Sheet(type, t, 2, c, v)
    BY <2>1, <2>2, <2>3, <2>4, <2>6 DEF Sheet
  <2>8. QED BY <2>7
<1>9. QED BY <1>1, <1>2, <1>3, <1>4, <1>5, <1>6, <1>7, <1>8 DEF IncludedStatuses

\* The values under a heading that has a total add up to what the exporter adds up.
LEMMA ColumnAddsUp ==
    ASSUME NEW f, NEW s, NEW h \in Headed, TotalOfHeading(h) \in AddedUp(f.type),
           TotalOfHeading(h) = "trips" => f.type \in DispatchReports
    PROVE  Sum([i \in DOMAIN s |-> valuesFor(s[i], h)]) = collectTotals(f, s)[TotalOfHeading(h)]
<1> DEFINE sum(m) == Sum([i \in DOMAIN s |-> s[i].of[m]])
<1>1. collectTotals(f, s) =
          [rowCount |-> Len(s), trips |-> CountsTrips(f, sum("count")),
           liters |-> IF f.type = "FUEL_AMOUNT_BY_PERIOD" THEN 0 ELSE sum("liters"),
           amount |-> sum("amount"),
           distance |-> IF f.type = "DISPATCH_COUNT_BY_OFFICE" THEN 0 ELSE sum("distance")]
  BY DEF collectTotals
<1>2. CASE h = "Issued liters"
  <2>1. \A r : valuesFor(r, h) = r.of.liters
    BY <1>2 DEF valuesFor
  <2>2. Sum([i \in DOMAIN s |-> valuesFor(s[i], h)]) = sum("liters")
    BY <2>1
  <2>3. TotalOfHeading(h) = "liters" /\ f.type # "FUEL_AMOUNT_BY_PERIOD"
    BY <1>2 DEF TotalOfHeading, AddedUp
  <2> HIDE DEF sum
  <2>4. QED BY <1>1, <2>2, <2>3
<1>3. CASE h = "Total amount"
  <2>1. \A r : valuesFor(r, h) = r.of.amount
    BY <1>3 DEF valuesFor
  <2>2. Sum([i \in DOMAIN s |-> valuesFor(s[i], h)]) = sum("amount")
    BY <2>1
  <2>3. TotalOfHeading(h) = "amount"
    BY <1>3 DEF TotalOfHeading
  <2> HIDE DEF sum
  <2>4. QED BY <1>1, <2>2, <2>3
<1>4. CASE h \in {"Dispatches", "Completed trips"}
  <2>1. \A r : valuesFor(r, h) = r.of.count
    BY <1>4 DEF valuesFor
  <2>2. Sum([i \in DOMAIN s |-> valuesFor(s[i], h)]) = sum("count")
    BY <2>1
  <2>3. TotalOfHeading(h) = "trips" /\ f.type \in DispatchReports
    BY <1>4 DEF TotalOfHeading
  <2>4. \A n : CountsTrips(f, n) = n
    BY <2>3 DEF CountsTrips
  <2> HIDE DEF sum
  <2>5. QED BY <1>1, <2>2, <2>3, <2>4
<1>5. CASE h \in {"Distance", "Completed distance"}
  <2>1. \A r : valuesFor(r, h) = r.of.distance
    BY <1>5 DEF valuesFor
  <2>2. Sum([i \in DOMAIN s |-> valuesFor(s[i], h)]) = sum("distance")
    BY <2>1
  <2>3. TotalOfHeading(h) = "distance" /\ f.type # "DISPATCH_COUNT_BY_OFFICE"
    BY <1>5 DEF TotalOfHeading, AddedUp
  <2> HIDE DEF sum
  <2>4. QED BY <1>1, <2>2, <2>3
<1>6. QED BY <1>2, <1>3, <1>4, <1>5 DEF Headed

\* The totals shown are those of the rows and the facts, while nobody touches them.
Shows(f, s, mode, t) == t = IF mode = "READ" THEN getTotals(f) ELSE collectTotals(f, s)
TotalsShown ==
    reader # NoReader /\ reader.phase = "shown" /\ touched = {} =>
        Shows(reader.filters, reader.rows, reader.mode, totals)
TotalsInv == ReportInv /\ TotalsShown

\* What is queried stays the same while the facts do.
LEMMA QueriedStays ==
    ASSUME NEW f, Facts(f)' = Facts(f)
    PROVE  getTotals(f)' = getTotals(f)
<1>1. \A ks : Measures(f, ks)' = Measures(f, ks)
  <2>1. CASE f.type \in DispatchReports
    BY <2>1 DEF Measures, Facts
  <2>2. CASE f.type \notin DispatchReports
    BY <2>2 DEF Measures, Facts
  <2>3. QED BY <2>1, <2>2
<1>2. Rows(f)' = Rows(f)
  BY <1>1 DEF Rows, Row
<1>3. QED BY <1>1, <1>2 DEF getTotals, estimateRows

\* Totals that are right stay right while the facts they are of do.
LEMMA ShowsStays ==
    ASSUME NEW CONSTANT f, NEW CONSTANT s, NEW CONSTANT mode, NEW CONSTANT t,
           Facts(f)' = Facts(f) \/ UNCHANGED <<fuel, dispatch>>, Shows(f, s, mode, t)
    PROVE  Shows(f, s, mode, t)'
<1>1. Facts(f)' = Facts(f)
  BY DEF Facts
<1>2. getTotals(f)' = getTotals(f)
  BY <1>1, QueriedStays
<1>3. collectTotals(f, s)' = collectTotals(f, s)
  BY DEF collectTotals
<1>4. QED BY <1>2, <1>3 DEF Shows

\* What the reader has asked for, read and been shown.
IsShown(f, s, mode, t) ==
    /\ reader.filters = f /\ reader.rows = s /\ reader.mode = mode /\ totals = t
    /\ Shows(f, s, mode, t)
\* The totals shown are right after a step when what they are of is.
LEMMA ShownNext ==
    ASSUME NEW CONSTANT f, NEW CONSTANT s, NEW CONSTANT mode, NEW CONSTANT t
    PROVE  IsShown(f, s, mode, t)' => TotalsShown'
<1>1. IsShown(f, s, mode, t) => TotalsShown
  BY DEF IsShown, TotalsShown
<1>2. QED BY <1>1, PTL

\* A report just left, or not shown, has no totals to be wrong.
LEMMA NotShown ==
    ASSUME reader' = NoReader \/ reader'.phase # "shown"
    PROVE  TotalsShown'
BY DEF TotalsShown

\* Every step leaves the totals shown those of the report.
LEMMA TotalsStayRight == TotalsInv /\ [ReportNext]_reportVars => TotalsShown'
<1> SUFFICES ASSUME TotalsInv, [ReportNext]_reportVars PROVE TotalsShown'
  OBVIOUS
<1>1. ReportInv' /\ ReportInv /\ TotalsShown
  BY ReportInvGoesOn DEF TotalsInv
<1>2. ASSUME NEW filters \in Requests, GetReport(filters) \/ RequestReportExport(filters)
      PROVE  TotalsShown'
  BY <1>2 DEF GetReport, RequestReportExport, Reader, TotalsShown
<1>4. ASSUME NEW filters \in Requests, NextPage(filters)
      PROVE  TotalsShown'
  <2>1. reader # NoReader
    BY <1>4 DEF NextPage, NoReader
  <2>2. reader'.phase \in {"page", "refused"}
    BY <1>1, <1>4, <2>1 DEF NextPage, ReportInv, ReaderTyped
  <2>3. reader'.phase # "shown"
    BY <2>2
  <2>4. QED BY ONLY <2>3, NotShown
<1>5. CASE ReadPage \/ ExportFails
  <2>1. reader # NoReader
    BY <1>5 DEF ReadPage, ExportFails, NoReader
  <2>2. PICK phase, c, s : /\ reader' = [reader EXCEPT !.rows = s, !.cursor = c, !.phase = phase]
                           /\ phase \in {"page", "totals", "failed"}
    <3>1. CASE ReadPage
      BY <3>1 DEF ReadPage
    <3>2. CASE ExportFails
      <4>1. reader' = [reader EXCEPT !.rows = reader.rows, !.cursor = reader.cursor, !.phase = "failed"]
        BY <1>1, <2>1, <3>2 DEF ExportFails, ReportInv, ReaderTyped
      <4>2. QED BY <4>1
    <3>3. QED BY <1>5, <3>1, <3>2
  <2>3. reader'.phase = phase
    BY <1>1, <2>1, <2>2 DEF ReportInv, ReaderTyped
  <2>4. reader'.phase # "shown"
    BY <2>2, <2>3
  <2>5. QED BY ONLY <2>4, NotShown
<1>6. CASE Totals
  <2>1. /\ reader # NoReader /\ UNCHANGED <<fuel, dispatch, touched>>
        /\ Shows(reader.filters, reader.rows, reader.mode, totals')
    BY <1>6 DEF Totals, NoReader, Shows
  <2>2. /\ reader'.mode = reader.mode /\ reader'.filters = reader.filters
        /\ reader'.rows = reader.rows
    BY <1>1, <1>6, <2>1 DEF Totals, ReportInv, ReaderTyped
  <2>3. PICK f, s, m, t : f = reader.filters /\ s = reader.rows /\ m = reader.mode /\ t = totals'
    OBVIOUS
  <2>4. Shows(f, s, m, t)
    BY <2>1, <2>3
  <2>5. Shows(f, s, m, t)'
    BY <2>1, <2>4, ShowsStays
  <2>6. IsShown(f, s, m, t)'
    BY <2>2, <2>3, <2>5 DEF IsShown
  <2>7. QED BY ONLY <2>6, ShownNext
<1>7. CASE Leave
  <2>1. reader' = NoReader
    BY <1>7 DEF Leave
  <2>2. QED BY ONLY <2>1, NotShown
<1>8. CASE (ChangeFuel \/ ChangeDispatch) /\ reader # NoReader /\ reader.phase = "shown" /\ touched' = {}
  <2>1. reader' = reader /\ totals' = totals
    BY <1>8 DEF ChangeFuel, ChangeDispatch
  <2>2. PICK f, s, m, t : f = reader.filters /\ s = reader.rows /\ m = reader.mode /\ t = totals
    OBVIOUS
  <2>3. f \in Requests
    BY <1>1, <1>8, <2>2, ReaderParts DEF ReportInv
  <2>4. \A v : v \notin touched /\ Apart(f, v)
    BY <1>1, <1>8, <2>2, ChangesTouch DEF ReportInv
  <2>5. touched = {}
    BY <2>4
  <2>6. Facts(f)' = Facts(f)
    <3>1. \A k \in DOMAIN Facts(f) : Facts(f)[k] = Facts(f)'[k]
      BY <2>4 DEF Apart
    <3>2. /\ DOMAIN Facts(f) = DOMAIN Facts(f)'
          /\ Facts(f) = [k \in DOMAIN Facts(f) |-> Facts(f)[k]]
          /\ Facts(f)' = [k \in DOMAIN Facts(f)' |-> Facts(f)'[k]]
      BY <1>1 DEF ReportInv, FactsTyped, Facts
    <3>3. QED BY <3>1, <3>2
  <2>7. Shows(f, s, m, t)
    BY <1>1, <1>8, <2>2, <2>5 DEF TotalsShown
  <2>8. Shows(f, s, m, t)'
    BY <2>6, <2>7, ShowsStays
  <2>9. IsShown(f, s, m, t)'
    BY <2>1, <2>2, <2>8 DEF IsShown
  <2>10. QED BY ONLY <2>9, ShownNext
<1>9. CASE UNCHANGED reportVars /\ reader # NoReader /\ reader.phase = "shown" /\ touched = {}
  <2>1. UNCHANGED <<fuel, dispatch, reader, totals, touched>>
    BY <1>9 DEF reportVars
  <2>2. PICK f, s, m, t : f = reader.filters /\ s = reader.rows /\ m = reader.mode /\ t = totals
    OBVIOUS
  <2>3. Shows(f, s, m, t)
    BY <1>1, <1>9, <2>2 DEF TotalsShown
  <2>4. Facts(f)' = Facts(f)
    BY <2>1 DEF Facts
  <2>5. Shows(f, s, m, t)'
    BY <2>3, <2>4, ShowsStays
  <2>6. IsShown(f, s, m, t)'
    BY <2>1, <2>2, <2>5 DEF IsShown
  <2>7. QED BY ONLY <2>6, ShownNext
<1>10. CASE /\ ChangeFuel \/ ChangeDispatch \/ UNCHANGED reportVars
            /\ ~(reader # NoReader /\ reader.phase = "shown" /\ touched' = {})
  <2>1. reader' = reader
    BY <1>10 DEF ChangeFuel, ChangeDispatch, reportVars
  <2>2. ~(reader' # NoReader /\ reader'.phase = "shown" /\ touched' = {})
    BY <1>10, <2>1
  <2>3. QED BY <2>2 DEF TotalsShown
<1>11. UNCHANGED reportVars => touched' = touched
  BY DEF reportVars
<1>12. CASE UNCHANGED reportVars
  BY <1>9, <1>10, <1>11, <1>12
<1>13. CASE ChangeFuel \/ ChangeDispatch
  BY <1>8, <1>10, <1>13
<1>14. QED
  BY <1>2, <1>4, <1>5, <1>6, <1>7, <1>12, <1>13 DEF ReportNext

\* The invariant of the totals holds in every state.
LEMMA TotalsInvGoesOn == TotalsInv /\ [ReportNext]_reportVars => TotalsInv'
BY ReportInvGoesOn, TotalsStayRight DEF TotalsInv

\* Totals shown agree with the rows, and with the headings they stand under.
LEMMA ShownAgree == TotalsInv => TotalsAgree
<1> SUFFICES ASSUME TotalsInv, Whole, reader.phase = "shown", touched = {}
             PROVE  TotalsAgree
  BY DEF TotalsAgree
<1>1. reader # NoReader /\ reader.cursor = None
  BY DEF Whole
<1>2. PICK f \in Requests, s \in Seq(RowSpace) : f = reader.filters /\ s = reader.rows
  BY <1>1, ReaderParts DEF TotalsInv, ReportInv
<1> DEFINE queried == getTotals(f)
           added == collectTotals(f, s)
           columns == columnsFor(f.type)
           sheet == totalValues(f.type, totals)
           ofColumn(heading) == Sum([i \in DOMAIN s |-> valuesFor(s[i], heading)])
<1>3. SortedRows(f, s) /\ {s[i] : i \in DOMAIN s} = Rows(f)
  <2>1. Reads(f, "shown", None, s)
    BY <1>1, <1>2 DEF TotalsInv, ReportInv, ReadSoFar
  <2>2. \A r \in Rows(f) : Holds(s, r)
    BY <2>1 DEF Reads
  <2>3. \A i \in 1 .. Len(s) : s[i] \in Rows(f)
    BY <2>1 DEF Reads
  <2>4. DOMAIN s = 1 .. Len(s)
    BY <1>2
  <2>5. SortedRows(f, s)
    BY <2>1 DEF Reads
  <2>6. QED BY <2>2, <2>3, <2>4, <2>5 DEF Holds
<1>4. /\ \A m \in AddedUp(f.type) : added[m] = queried[m]
      /\ added.rowCount = Len(s) /\ Len(s) \in Nat
      /\ queried.rowCount = Min({Len(s), CountedRows + 1})
  <2>1. s \in Seq(RowSpace) /\ f \in Requests
    BY <1>2
  <2>2. FactsTyped
    BY DEF TotalsInv, ReportInv
  <2>3. /\ \A m \in AddedUp(f.type) : collectTotals(f, s)[m] = getTotals(f)[m]
        /\ collectTotals(f, s).rowCount = Len(s) /\ Len(s) \in Nat
        /\ getTotals(f).rowCount = Min({Len(s), CountedRows + 1})
    BY ONLY <1>3, <2>1, <2>2, AddedIsQueried
  <2>4. QED BY <2>3 DEF added, queried
<1>5. totals \in {queried, added}
  BY <1>1, <1>2 DEF TotalsInv, TotalsShown, Shows
<1> HIDE DEF queried, added
<1>6. \A m \in AddedUp(f.type) : totals[m] = queried[m] /\ totals[m] = added[m]
  BY <1>4, <1>5
<1>7. \A count \in {totals.rowCount, queried.rowCount} :
          Min({count, CountedRows + 1}) = Min({added.rowCount, CountedRows + 1})
  <2> DEFINE few == Min({Len(s), CountedRows + 1})
  <2>1. CountedRows + 1 \in Int /\ Len(s) \in Int
    BY <1>4, RequestsAssumption
  <2>2. few \in Int /\ Min({few, CountedRows + 1}) = few
    <3>1. few \in Int /\ few <= CountedRows + 1
      BY <2>1, MinOf
    <3> HIDE DEF few
    <3>2. QED BY <2>1, <3>1, MinOf
  <2>3. \A count \in {totals.rowCount, queried.rowCount} : count = Len(s) \/ count = few
    BY <1>4, <1>5
  <2>4. Min({added.rowCount, CountedRows + 1}) = few
    BY <1>4
  <2>5. ASSUME NEW count \in {totals.rowCount, queried.rowCount}
        PROVE  Min({count, CountedRows + 1}) = few
    <3>1. CASE count = Len(s)
      BY <3>1
    <3>2. CASE count = few
      <4> HIDE DEF few
      <4>1. QED BY <2>2, <3>2
    <3>3. QED BY <2>3, <3>1, <3>2
  <2> HIDE DEF few
  <2>6. QED BY <2>4, <2>5
<1>8. ASSUME f.type # "FUEL_TYPE_TOTALS", NEW i \in DOMAIN columns, columns[i] \in Headed
      PROVE  sheet[i] = ofColumn(columns[i])
  <2>1. f.type \in DOMAIN IncludedStatuses
    BY RequestsAssumption
  <2>2. PICK t : t = totals
    OBVIOUS
  <2>3. PICK type : type = f.type
    OBVIOUS
  <2>4. \E n \in Nat : \E c, v : Sheet(type, t, n, c, v)
    BY <1>8, <2>1, <2>3, SheetParts
  <2>5. PICK n \in Nat : \E c, v : Sheet(type, t, n, c, v)
    BY <2>4
  <2>6. PICK c, v : Sheet(type, t, n, c, v)
    BY <2>5
  <2>7. columns = Blank(n) \o c /\ sheet = Zeros(n) \o v
    BY <2>2, <2>3, <2>6 DEF Sheet
  <2>8. PICK j \in 1 .. Len(c) : c[j] = columns[i] /\ v[j] = sheet[i]
    <3> HIDE DEF columns, sheet
    <3>1. columns[i] # "blank"
      BY <1>8 DEF Headed
    <3>2. PICK W : v \in Seq(W)
      BY <2>6 DEF Sheet
    <3>3. c \in Seq(Headings) /\ Len(c) = Len(v)
      BY <2>6 DEF Sheet
    <3>4. PICK top, below, k : top = columns /\ below = sheet /\ k = i
      OBVIOUS
    <3>5. Pasted(n, c, v, Headings, W, top, below)
      BY <2>7, <3>2, <3>3, <3>4 DEF Pasted
    <3>6. k \in DOMAIN top /\ top[k] # "blank"
      BY <1>8, <3>1, <3>4
    <3>7. \E j \in 1 .. Len(c) : c[j] = top[k] /\ v[j] = below[k]
      BY ONLY <3>5, <3>6, PastBlanks
    <3>8. QED BY <3>4, <3>7
  <2>9. PICK h \in Headed : h = columns[i]
    BY <1>8
  <2>10. Stands(type, t, h, v[j])
    BY <2>6, <2>8, <2>9 DEF Sheet
  <2>11. /\ TotalOfHeading(h) \in AddedUp(f.type)
         /\ TotalOfHeading(h) = "trips" => f.type \in DispatchReports
         /\ sheet[i] = totals[TotalOfHeading(h)]
    BY <2>2, <2>3, <2>8, <2>10 DEF Stands
  <2>12. ofColumn(h) = added[TotalOfHeading(h)]
    BY <2>11, ColumnAddsUp DEF added
  <2>13. sheet[i] = ofColumn(h)
    <3> HIDE DEF ofColumn, sheet, columns
    <3>1. QED BY <1>6, <2>11, <2>12
  <2>14. QED
    <3> HIDE DEF sheet, columns
    <3>1. QED BY <2>9, <2>13
<1> HIDE DEF columns, sheet, ofColumn
<1>9. QED
  BY <1>2, <1>6, <1>7, <1>8 DEF TotalsAgree, queried, added, columns, sheet, ofColumn

\* Of a report that nothing disturbed the totals named in AddedUp agree, queried or
\* added up from the pages, and so does the number of rows as far as it is counted;
\* those named in Headed stand under their headings, except in the sheet of fuel
\* types.  For any facts, filters and page sizes (getTotals, collectTotals,
\* columnsFor and totalValues of the exporter).
THEOREM TotalsOfReports == ReportSpec => []TotalsAgree
<1>1. ReportInit => TotalsInv
  BY FactsAssumption DEF ReportInit, TotalsInv, TotalsShown, ReportInv, FactsTyped, ReaderTyped, ReadSoFar
<1>2. QED BY <1>1, TotalsInvGoesOn, ShownAgree, PTL DEF ReportSpec

-----------------------------------------------------------------------------
(***************************************************************************)
(* Lists of records.  A page ends where its cursor says, and its link leads*)
(* on from there; so what nobody edited was on a page already turned, or is*)
(* beyond the last row of the page on show.                                *)
(***************************************************************************)
Depth == Len(orderBy(resource))
Places == {p \in Seq(Int) : Len(p) = Depth}
RegistryTyped ==
    /\ resource \in Resources
    /\ IsFiniteSet(DOMAIN rows) /\ DOMAIN rows \subseteq Int
    /\ rows \in [DOMAIN rows -> RowFields]
    /\ \A r \in DOMAIN rows : Len(rows[r].key) = Depth - 1

\* The records there are at first are well formed.
LEMMA FirstTyped == RegistryInit => RegistryTyped
  BY RegistryAssumption DEF RegistryInit, RegistryTyped, Depth

\* What a list is sorted by: two values, or three.
LEMMA DepthIs ==
    ASSUME resource \in Resources
    PROVE  /\ Depth \in {2, 3}
           /\ \A p \in Places : Len(p) = Depth /\ DOMAIN p = 1 .. Depth /\ \A i \in 1 .. Depth : p[i] \in Int
           /\ \A p, q \in Places : (\A i \in 1 .. Depth : p[i] = q[i]) => p = q
<1>1. resource \in MasterData \cup {"issuance", "dispatch", "allocation"}
  BY RegistryAssumption
<1>2. \/ orderBy(resource) = <<"asc", "asc">>
      \/ orderBy(resource) = <<"desc", "desc">>
      \/ orderBy(resource) = <<"desc", "asc", "asc">>
  BY <1>1 DEF orderBy, MasterData
<1>3. Depth \in {2, 3}
  BY <1>2 DEF Depth
<1>4. \A p \in Places : Len(p) = Depth /\ DOMAIN p = 1 .. Depth /\ \A i \in 1 .. Depth : p[i] \in Int
  BY DEF Places
<1>5. ASSUME NEW p \in Places, NEW q \in Places, \A i \in 1 .. Depth : p[i] = q[i]
      PROVE  p = q
  <2>1. p \in Seq(Int) /\ q \in Seq(Int) /\ Len(p) = Len(q) /\ \A i \in 1 .. Len(p) : p[i] = q[i]
    BY <1>5 DEF Places
  <2>2. QED BY <2>1, SeqEqual
<1>6. QED BY <1>3, <1>4, <1>5

\* The places of records, which end with the records' ids.
LEMMA PlacesOf ==
    ASSUME RegistryTyped, NEW r \in DOMAIN rows
    PROVE  Place(r) \in Places /\ Last(Place(r)) = r
<1>1. rows[r].key \in Seq(Int) /\ Len(rows[r].key) = Depth - 1 /\ r \in Int
  BY DEF RegistryTyped, RowFields
<1>2. Depth \in {2, 3}
  BY DepthIs DEF RegistryTyped
<1>3. /\ Place(r) \in Seq(Int) /\ Len(Place(r)) = Depth /\ Place(r)[Depth] = r
  BY <1>1, <1>2 DEF Place
<1>4. QED BY <1>3 DEF Places, Last

\* The order of a list: by the first value, then by the second, then by the third.
Less(i, a, b) == IF orderBy(resource)[i] = "asc" THEN a < b ELSE a > b
\* Precedes, which compares place by place, is that order.
LEMMA PrecedesIs ==
    ASSUME resource \in Resources, NEW p \in Places, NEW q \in Places
    PROVE  Precedes(p, q) <=> \/ Less(1, p[1], q[1])
                              \/ p[1] = q[1] /\ Less(2, p[2], q[2])
                              \/ Depth = 3 /\ p[1] = q[1] /\ p[2] = q[2] /\ Less(3, p[3], q[3])
<1>1. DOMAIN p = 1 .. Depth /\ Depth \in {2, 3}
  BY DepthIs
<1>2. Precedes(p, q) <=> \E i \in 1 .. Depth : /\ \A j \in 1 .. i - 1 : p[j] = q[j]
                                               /\ Less(i, p[i], q[i])
  BY <1>1 DEF Precedes, Less
<1>3. 1 .. 2 = {1, 2} /\ 1 .. 3 = {1, 2, 3} /\ 1 .. 1 - 1 = {} /\ 1 .. 2 - 1 = {1} /\ 1 .. 3 - 1 = {1, 2}
  OBVIOUS
<1>4. CASE Depth = 2
  BY <1>2, <1>3, <1>4
<1>5. CASE Depth = 3
  BY <1>2, <1>3, <1>5
<1>6. QED BY <1>1, <1>4, <1>5

\* A place before another is before those the other is before.
LEMMA PlacesTransitive ==
    ASSUME resource \in Resources
    PROVE  \A p, q, u \in Places : Precedes(p, q) /\ Precedes(q, u) => Precedes(p, u)
<1>1. \A p \in Places : \A i \in 1 .. Depth : p[i] \in Int
  BY DepthIs
<1>2. \A p \in Places : p[1] \in Int /\ p[2] \in Int /\ (Depth = 3 => p[3] \in Int)
  BY <1>1, DepthIs
<1>3. QED BY <1>2, PrecedesIs DEF Less

\* It puts any two places one before the other; back, it is turned round.
Sooner(back) ==
    {pq \in Places \X Places : IF back THEN Precedes(pq[2], pq[1]) ELSE Precedes(pq[1], pq[2])}
\* The order of either direction is a total order of any places.
LEMMA PlacesAreOrdered ==
    ASSUME resource \in Resources, NEW S \in SUBSET Places, NEW back \in BOOLEAN
    PROVE  TotalOrder(S, Sooner(back))
<1>1. Depth \in {2, 3} /\ \A p \in Places : \A i \in 1 .. Depth : p[i] \in Int
  BY DepthIs
<1>2. \A p \in Places : p[1] \in Int /\ p[2] \in Int /\ (Depth = 3 => p[3] \in Int)
  BY <1>1
<1>3. ASSUME NEW p \in Places
      PROVE  ~Precedes(p, p)
  BY <1>2, PrecedesIs DEF Less
<1>4. ASSUME NEW p \in Places, NEW q \in Places, p # q
      PROVE  Precedes(p, q) \/ Precedes(q, p)
  <2>1. \E i \in 1 .. Depth : p[i] # q[i]
    BY <1>4, DepthIs
  <2>2. p[1] # q[1] \/ p[2] # q[2] \/ (Depth = 3 /\ p[3] # q[3])
    BY <1>1, <2>1
  <2>3. QED BY <1>2, <2>2, PrecedesIs DEF Less
<1>5. ASSUME NEW p \in Places, NEW q \in Places, NEW u \in Places, Precedes(p, q), Precedes(q, u)
      PROVE  Precedes(p, u)
  BY <1>5, PlacesTransitive
<1>6. QED
  BY <1>3, <1>4, <1>5 DEF TotalOrder, Sooner

\* Places put in order are in order, each of them once.
LEMMA InOrderIsSorted ==
    ASSUME resource \in Resources, NEW S \in SUBSET Places, IsFiniteSet(S), NEW back \in BOOLEAN
    PROVE  /\ InOrder(S, back) \in [1 .. Cardinality(S) -> S]
           /\ \A i, j \in 1 .. Cardinality(S) : i < j =>
                  IF back THEN Precedes(InOrder(S, back)[j], InOrder(S, back)[i])
                          ELSE Precedes(InOrder(S, back)[i], InOrder(S, back)[j])
           /\ \A p \in S : \E i \in 1 .. Cardinality(S) : InOrder(S, back)[i] = p
<1> DEFINE n == Cardinality(S)
           InOrderOf(e) == \A i, j \in 1 .. n :
                               i < j => IF back THEN Precedes(e[j], e[i]) ELSE Precedes(e[i], e[j])
<1>1. TotalOrder(S, Sooner(back))
  BY PlacesAreOrdered
<1>2. PICK g : Sorts(g, S, Sooner(back))
  BY <1>1, SortedExists
<1>3. g \in [1 .. n -> S] /\ InOrderOf(g)
  BY <1>2 DEF Sorts, Sooner
<1>4. InOrder(S, back) = CHOOSE e \in [1 .. n -> S] : InOrderOf(e)
  BY DEF InOrder
<1>5. InOrder(S, back) \in [1 .. n -> S] /\ InOrderOf(InOrder(S, back))
  <2> HIDE DEF InOrderOf, n
  <2>1. QED BY <1>3, <1>4
<1>6. Sorts(InOrder(S, back), S, Sooner(back))
  <2> DEFINE e == InOrder(S, back)
  <2>1. \A i \in 1 .. n : e[i] \in Places
    BY <1>5
  <2>2. \A i, j \in 1 .. n : i < j => <<e[i], e[j]>> \in Sooner(back)
    <3> HIDE DEF e
    <3>1. QED BY <1>5, <2>1 DEF Sooner, e
  <2>3. QED BY <1>5, <2>2 DEF Sorts
<1>7. QED
  <2>1. \A p \in S : \E i \in 1 .. n : InOrder(S, back)[i] = p
    BY <1>1, <1>6, SortedCovers
  <2>2. QED BY <1>5, <2>1

\* A page is in order and its links lead on from its ends.  Read on from a place it
\* holds what comes next or links on to it; read back it links on, unless it is empty.
PageRight(page) ==
    /\ page.items \in Seq(Places)
    /\ \A i, j \in 1 .. Len(page.items) : i < j => Precedes(page.items[i], page.items[j])
    /\ page.next # NoCursor =>
           page.items # <<>> /\ page.next = [direction |-> "next", place |-> Last(page.items)]
    /\ page.previous # NoCursor =>
           page.items # <<>> /\ page.previous = [direction |-> "previous", place |-> page.items[1]]
Found(v, c) ==
    {p \in {Place(r) : r \in {r \in DOMAIN rows : InView(v, rows[r])}} : keyset(c, p)}
\* listPage answers with such a page of what it found, empty only if it found nothing.
LEMMA PageOf ==
    ASSUME RegistryTyped, NEW v, NEW c
    PROVE  LET page == listPage(v, c)
               back == c.direction = "previous"
           IN  /\ PageRight(page) /\ page.from = c
               /\ \A i \in 1 .. Len(page.items) : page.items[i] \in Found(v, c)
               /\ page.items = <<>> => Found(v, c) = {}
               /\ back /\ page.items # <<>> => page.next # NoCursor
               /\ ~back => \A p \in Found(v, c) :
                               \/ \E i \in 1 .. Len(page.items) : page.items[i] = p
                               \/ page.next # NoCursor /\ Precedes(Last(page.items), p)
<1> DEFINE back == c.direction = "previous"
           found == Found(v, c)
           n == Cardinality(found)
           fetched == InOrder(found, back)
           m == Min({PageSize, Len(fetched)})
           taken == SubSeq(fetched, 1, m)
           items == IF back THEN Reverse(taken) ELSE taken
           page == listPage(v, c)
<1>1. found \in SUBSET Places /\ IsFiniteSet(found)
  <2> DEFINE within == {r \in DOMAIN rows : InView(v, rows[r])}
             place == [r \in within |-> Place(r)]
             ends == {place[r] : r \in within}
  <2>1. IsFiniteSet(within) /\ within \subseteq DOMAIN rows
    BY FS_Subset DEF RegistryTyped
  <2>2. place \in Surjection(within, ends)
    <3>1. place \in [within -> ends] /\ \A p \in ends : \E r \in within : place[r] = p
      OBVIOUS
    <3> HIDE DEF within, place, ends
    <3>2. QED BY <3>1 DEF Surjection
  <2>3. IsFiniteSet(ends)
    <3> HIDE DEF within, place, ends
    <3>1. QED BY <2>1, <2>2, FS_Surjection
  <2>4. found \subseteq ends
    BY DEF Found
  <2>5. ends \subseteq Places
    BY <2>1, PlacesOf
  <2>6. QED
    <3> HIDE DEF ends, found
    <3>1. QED BY <2>3, <2>4, <2>5, FS_Subset
<1>2. n \in Nat /\ PageSize \in Nat \ {0}
  BY <1>1, FS_CardinalityType, RegistryAssumption
<1>3. back \in BOOLEAN /\ resource \in Resources
  BY DEF RegistryTyped
<1> HIDE DEF found, n, back
<1>4. /\ fetched \in [1 .. n -> found]
      /\ \A i, j \in 1 .. n : i < j => IF back THEN Precedes(fetched[j], fetched[i])
                                               ELSE Precedes(fetched[i], fetched[j])
      /\ \A p \in found : \E i \in 1 .. n : fetched[i] = p
  BY <1>1, <1>3, InOrderIsSorted DEF n
<1> HIDE DEF fetched
<1>5. Len(fetched) = n
  BY <1>2, <1>4
<1>6. m = IF n > PageSize THEN PageSize ELSE n
  <2>1. \E x \in {PageSize, n} : \A y \in {PageSize, n} : x <= y
    BY <1>2
  <2>2. m \in {PageSize, n} /\ \A y \in {PageSize, n} : m <= y
    BY <1>5, <2>1 DEF Min
  <2>3. QED BY <1>2, <2>2
<1> HIDE DEF m
<1>7. m \in 0 .. n /\ m \in Nat /\ (m = 0 => n = 0)
  BY <1>2, <1>6
<1>8. taken \in Seq(Places) /\ Len(taken) = m /\ \A i \in 1 .. m : taken[i] = fetched[i] /\ taken[i] \in found
  <2>1. \A i \in 1 .. m : fetched[i] \in found /\ fetched[i] \in Places
    BY <1>1, <1>2, <1>4, <1>7
  <2>2. /\ taken \in Seq(Places) /\ Len(taken) = IF 1 <= m THEN m - 1 + 1 ELSE 0
        /\ \A i \in 1 .. m - 1 + 1 : taken[i] = fetched[1 + i - 1]
    BY <1>7, <2>1, SubSeqProperties
  <2>3. QED BY <1>7, <2>1, <2>2
<1> HIDE DEF taken
<1>9. /\ items \in Seq(Places) /\ Len(items) = m
      /\ \A i \in 1 .. m : /\ ~back => items[i] = fetched[i]
                           /\ back => m - i + 1 \in 1 .. m /\ items[i] = fetched[m - i + 1]
                           /\ items[i] \in found
  <2>1. CASE back
    <3>1. items = [i \in 1 .. m |-> taken[m - i + 1]]
      BY <1>8, <2>1 DEF Reverse
    <3>2. \A i \in 1 .. m : m - i + 1 \in 1 .. m /\ taken[m - i + 1] \in Places /\ taken[m - i + 1] \in found
      BY <1>1, <1>7, <1>8
    <3> HIDE DEF items
    <3>3. \A i \in 1 .. m : items[i] = taken[m - i + 1]
      BY <3>1
    <3>4. items \in [1 .. m -> Places]
      BY <3>1, <3>2
    <3>5. items \in Seq(Places) /\ Len(items) = m
      BY <1>7, <3>4
    <3>6. QED BY <1>8, <2>1, <3>2, <3>3, <3>5
  <2>2. CASE ~back
    BY <1>8, <2>2
  <2>3. QED BY <2>1, <2>2
<1>10. /\ page.items = items /\ page.from = c
       /\ page.previous = IF items # <<>> /\ c # NoCursor
                          THEN [direction |-> "previous", place |-> items[1]] ELSE NoCursor
       /\ page.next = IF items # <<>> /\ (n > PageSize \/ back)
                      THEN [direction |-> "next", place |-> Last(items)] ELSE NoCursor
  BY <1>5 DEF listPage, Found, found, fetched, taken, m, back
<1> HIDE DEF items, page
<1>11. \A i, j \in 1 .. m : i < j => Precedes(items[i], items[j])
  <2> SUFFICES ASSUME NEW i \in 1 .. m, NEW j \in 1 .. m, i < j
               PROVE  Precedes(items[i], items[j])
    OBVIOUS
  <2>1. i \in 1 .. n /\ j \in 1 .. n
    BY <1>2, <1>7
  <2>2. CASE back
    <3>1. /\ m - j + 1 \in 1 .. n /\ m - i + 1 \in 1 .. n /\ m - j + 1 < m - i + 1
          /\ items[i] = fetched[m - i + 1] /\ items[j] = fetched[m - j + 1]
      BY <1>2, <1>7, <1>9, <2>2
    <3>2. QED BY <1>4, <2>2, <3>1
  <2>3. CASE ~back
    BY <1>4, <1>9, <2>1, <2>3
  <2>4. QED BY <2>2, <2>3
<1>12. PageRight(page)
  BY <1>9, <1>10, <1>11 DEF PageRight
<1>13. items = <<>> => found = {}
  BY <1>4, <1>7, <1>9
<1>14. back /\ items # <<>> => page.next # NoCursor
  BY <1>10 DEF NoCursor
<1>15. ASSUME ~back, NEW p \in found
       PROVE  \/ \E i \in 1 .. Len(items) : items[i] = p
              \/ page.next # NoCursor /\ Precedes(Last(items), p)
  <2>1. PICK i \in 1 .. n : fetched[i] = p
    BY <1>4
  <2>2. CASE i <= m
    BY <1>7, <1>9, <1>15, <2>1, <2>2
  <2>3. CASE i > m
    <3>1. m \in 1 .. m /\ m \in 1 .. n /\ n > PageSize
      BY <1>2, <1>6, <1>7, <2>3
    <3>2. Last(items) = fetched[m] /\ items # <<>>
      BY <1>7, <1>9, <1>15, <3>1 DEF Last
    <3>3. Precedes(fetched[m], fetched[i])
      BY <1>4, <1>15, <2>3, <3>1
    <3>4. page.next # NoCursor
      BY <1>10, <3>1, <3>2 DEF NoCursor
    <3>5. QED BY <2>1, <3>2, <3>3, <3>4
  <2>4. QED BY <1>2, <1>7, <2>2, <2>3
<1>16. QED
  BY <1>9, <1>10, <1>12, <1>13, <1>14, <1>15 DEF found, back, page

\* What a command does to the rows: one row, which the trail then tells of, or nothing.
Edits(r, row) ==
    /\ r \in Int /\ row \in RowFields /\ Len(row.key) = Depth - 1
    /\ rows' = With(rows, r, row)
    /\ edited \subseteq edited' /\ UNCHANGED <<resource, list, seen>>
    /\ r \in edited' \/ (r \in DOMAIN rows /\ row = rows[r])
\* WriteRow does that when its events are of the row, or the row stays as it was.
LEMMA WritesEdit ==
    ASSUME NEW r \in Int, NEW row \in RowFields, Len(row.key) = Depth - 1, NEW events,
           WriteRow(r, row, events),
           (\E i \in DOMAIN events : events[i].record = r) \/ (r \in DOMAIN rows /\ row = rows[r])
    PROVE  Edits(r, row)
<1>1. edited' = edited \cup {e.record : e \in Range(events)}
  BY DEF WriteRow
<1>2. (\E i \in DOMAIN events : events[i].record = r) => r \in edited'
  BY <1>1 DEF Range
<1>3. QED BY <1>1, <1>2 DEF WriteRow, Edits

\* A command on a record of the master data, or a change of any other record, is an edit.
LEMMA CommandsEdit ==
    ASSUME RegistryTyped,
           \/ \E r \in Records, name \in Names : CreateRecord(r, name)
           \/ \E r \in DOMAIN rows, name \in Names, s \in {"on", "off"} : UpdateRecord(r, name, s)
           \/ \E r \in DOMAIN rows : SoftDeleteRecord(r) \/ RestoreRecord(r)
           \/ \E r \in Records, key \in {<<m>> : m \in Names} \cup (Names \X Names), s \in {"on", "off"} :
                  OtherRecord(r, key, s)
    PROVE  \E r, row : Edits(r, row)
<1>1. Records \subseteq Int /\ Names \subseteq Int /\ DOMAIN rows \subseteq Int
  BY RegistryAssumption DEF RegistryTyped
<1>2. \A r \in DOMAIN rows : rows[r] \in RowFields /\ Len(rows[r].key) = Depth - 1
  BY DEF RegistryTyped
<1>3. resource \in MasterData => Depth = 2
  BY DEF Depth, orderBy, MasterData
<1>4. \A name \in Names : <<name>> \in Seq(Int) /\ Len(<<name>>) = 1
  BY <1>1
<1>5. ASSUME NEW r \in Records, NEW name \in Names, CreateRecord(r, name)
      PROVE  \E x, row : Edits(x, row)
  <2> DEFINE row == [key |-> <<name>>, status |-> "on", deleted |-> FALSE]
             events == <<Event(r, "created", NoSnapshot, snapshot(row))>>
  <2>1. WriteRow(r, row, events) /\ resource \in MasterData
    BY <1>5 DEF CreateRecord
  <2>2. row \in RowFields /\ Len(row.key) = Depth - 1
    BY <1>3, <1>4, <2>1 DEF RowFields
  <2>3. 1 \in DOMAIN events /\ events[1].record = r
    BY DEF Event
  <2>4. Edits(r, row)
    <3> HIDE DEF row, events
    <3>1. QED BY <1>1, <2>1, <2>2, <2>3, WritesEdit
  <2>5. QED BY <2>4
<1>6. ASSUME NEW r \in DOMAIN rows, NEW name \in Names, NEW s \in {"on", "off"},
             UpdateRecord(r, name, s)
      PROVE  \E x, row : Edits(x, row)
  <2> DEFINE old == rows[r]
             renamed == [old EXCEPT !.key = <<name>>]
             row == [renamed EXCEPT !.status = s]
             one == IF name = old.key[1] THEN <<>>
                    ELSE <<Event(r, "updated", snapshot(old), snapshot(renamed))>>
             two == IF s = old.status THEN <<>> ELSE <<StatusEvent(r, old.status, s)>>
             events == one \o two
  <2>1. WriteRow(r, row, events) /\ resource \in MasterData
    BY <1>6 DEF UpdateRecord
  <2>2. old \in RowFields /\ Len(old.key) = 1
    BY <1>2, <1>3, <2>1
  <2>3. row \in RowFields /\ Len(row.key) = Depth - 1
    <3>1. row \in RowFields /\ row.key = <<name>>
      BY <1>4, <2>2 DEF RowFields
    <3> HIDE DEF row
    <3>2. QED BY <1>3, <1>4, <2>1, <3>1
  <2>4. CASE name # old.key[1]
    <3>1. one = <<Event(r, "updated", snapshot(old), snapshot(renamed))>>
      BY <2>4
    <3>2. two = <<>> \/ two = <<StatusEvent(r, old.status, s)>>
      OBVIOUS
    <3>3. 1 \in DOMAIN events /\ events[1] = Event(r, "updated", snapshot(old), snapshot(renamed))
      <4> HIDE DEF one, two
      <4>1. QED BY <3>1, <3>2
    <3>4. events[1].record = r
      BY <3>3 DEF Event
    <3>5. Edits(r, row)
      <4> HIDE DEF row, events
      <4>1. QED BY <1>1, <2>1, <2>3, <3>3, <3>4, WritesEdit
    <3>6. QED BY <3>5
  <2>5. CASE name = old.key[1] /\ s # old.status
    <3>1. one = <<>> /\ two = <<StatusEvent(r, old.status, s)>>
      BY <2>5
    <3>2. 1 \in DOMAIN events /\ events[1] = StatusEvent(r, old.status, s)
      <4> HIDE DEF one, two
      <4>1. QED BY <3>1
    <3>3. events[1].record = r
      BY <3>2 DEF StatusEvent, Event
    <3>4. Edits(r, row)
      <4> HIDE DEF row, events
      <4>1. QED BY <1>1, <2>1, <2>3, <3>2, <3>3, WritesEdit
    <3>5. QED BY <3>4
  <2>6. CASE name = old.key[1] /\ s = old.status
    <3>1. old.key = <<name>>
      BY <2>2, <2>6 DEF RowFields
    <3>2. row = old
      BY <2>2, <2>6, <3>1 DEF RowFields
    <3>3. Edits(r, row)
      <4> HIDE DEF row, events
      <4>1. QED BY <1>1, <2>1, <2>3, <3>2, WritesEdit
    <3>4. QED BY <3>3
  <2>7. QED BY <2>4, <2>5, <2>6
<1>7. ASSUME NEW r \in DOMAIN rows, SoftDeleteRecord(r)
      PROVE  \E x, row : Edits(x, row)
  <2> DEFINE row == [rows[r] EXCEPT !.deleted = TRUE]
             events == <<Event(r, "deleted", snapshot(rows[r]), NoSnapshot)>>
  <2>1. WriteRow(r, row, events)
    BY <1>7 DEF SoftDeleteRecord
  <2>2. row \in RowFields /\ Len(row.key) = Depth - 1
    BY <1>2 DEF RowFields
  <2>3. 1 \in DOMAIN events /\ events[1].record = r
    BY DEF Event
  <2>4. Edits(r, row)
    <3> HIDE DEF row, events
    <3>1. QED BY <1>1, <2>1, <2>2, <2>3, WritesEdit
  <2>5. QED BY <2>4
<1>8. ASSUME NEW r \in DOMAIN rows, RestoreRecord(r)
      PROVE  \E x, row : Edits(x, row)
  <2> DEFINE row == [rows[r] EXCEPT !.deleted = FALSE, !.status = "off"]
             events == <<Event(r, "restored", snapshot(rows[r]), snapshot(row))>>
  <2>1. WriteRow(r, row, events)
    BY <1>8 DEF RestoreRecord
  <2>2. row \in RowFields /\ Len(row.key) = Depth - 1
    BY <1>2 DEF RowFields
  <2>3. 1 \in DOMAIN events /\ events[1].record = r
    BY DEF Event
  <2>4. Edits(r, row)
    <3> HIDE DEF row, events
    <3>1. QED BY <1>1, <2>1, <2>2, <2>3, WritesEdit
  <2>5. QED BY <2>4
<1>9. ASSUME NEW r \in Records, NEW key \in {<<m>> : m \in Names} \cup (Names \X Names),
             NEW s \in {"on", "off"}, OtherRecord(r, key, s)
      PROVE  \E x, row : Edits(x, row)
  <2> DEFINE row == [key |-> key, status |-> s, deleted |-> FALSE]
             events == <<Event(r, "changed", NoSnapshot, NoSnapshot)>>
  <2>1. WriteRow(r, row, events) /\ Len(key) = Depth - 1
    BY <1>9 DEF OtherRecord, Depth
  <2>2. key \in Seq(Int)
    <3>1. CASE key \in {<<m>> : m \in Names}
      BY <1>4, <3>1
    <3>2. CASE key \in Names \X Names
      <4>1. PICK a \in Names, b \in Names : key = <<a, b>>
        BY <3>2
      <4>2. QED BY <1>1, <4>1
    <3>3. QED BY <3>1, <3>2
  <2>3. row \in RowFields /\ Len(row.key) = Depth - 1
    BY <2>1, <2>2 DEF RowFields
  <2>4. 1 \in DOMAIN events /\ events[1].record = r
    BY DEF Event
  <2>5. Edits(r, row)
    <3> HIDE DEF row, events
    <3>1. QED BY <1>1, <2>1, <2>3, <2>4, WritesEdit
  <2>6. QED BY <2>5
<1>10. QED BY <1>5, <1>6, <1>7, <1>8, <1>9

\* The list on the screen, and the rows behind it.
ListRight ==
    list = Closed \/ (list = [open |-> TRUE, view |-> list.view, page |-> list.page] /\ PageRight(list.page))
RegistryInv == RegistryTyped /\ ListRight /\ WalkMissesNothing

\* An edit leaves the rows well formed.
LEMMA EditsType ==
    ASSUME RegistryTyped, NEW r, NEW row, Edits(r, row)
    PROVE  RegistryTyped'
<1>1. /\ resource' = resource
      /\ DOMAIN rows' = DOMAIN rows \cup {r} /\ rows' = [s \in DOMAIN rows \cup {r} |-> rows'[s]]
      /\ rows'[r] = row /\ \A s \in DOMAIN rows : s # r => rows'[s] = rows[s]
  BY DEF Edits, With
<1>2. Depth' = Depth
  BY <1>1 DEF Depth
<1>3. IsFiniteSet(DOMAIN rows \cup {r})
  BY FS_AddElement DEF RegistryTyped
<1>4. \A s \in DOMAIN rows' : rows'[s] \in RowFields /\ Len(rows'[s].key) = Depth - 1 /\ s \in Int
  BY <1>1 DEF RegistryTyped, Edits
<1>5. rows' \in [DOMAIN rows' -> RowFields]
  BY <1>1, <1>4
<1>6. resource' \in Resources
  BY <1>1 DEF RegistryTyped
<1>7. QED BY <1>1, <1>2, <1>3, <1>4, <1>5, <1>6 DEF RegistryTyped

\* An edit leaves right what is on the screen, and what is still to come, but for its own row.
LEMMA EditsKeep ==
    ASSUME RegistryInv, NEW r, NEW row, Edits(r, row)
    PROVE  RegistryInv'
<1>1. /\ resource' = resource /\ list' = list /\ seen' = seen
      /\ DOMAIN rows' = DOMAIN rows \cup {r} /\ rows' = [s \in DOMAIN rows \cup {r} |-> rows'[s]]
      /\ rows'[r] = row /\ \A s \in DOMAIN rows : s # r => rows'[s] = rows[s]
  BY DEF Edits, With
<1>2. Depth' = Depth /\ Places' = Places
  BY <1>1 DEF Depth, Places
<1>3. \A p, q : Precedes(p, q)' <=> Precedes(p, q)
  BY <1>1 DEF Precedes
<1>4. RegistryTyped'
  BY EditsType DEF RegistryInv
<1>5. ListRight'
  BY <1>1, <1>2, <1>3 DEF RegistryInv, ListRight, PageRight
<1>6. WalkMissesNothing'
  <2> SUFFICES ASSUME list.open, NEW x \in DOMAIN rows', x \notin edited' \cup seen,
                      InView(list.view, rows'[x])
               PROVE  \/ list.page.next # NoCursor /\ Precedes(Last(list.page.items), Place(x))'
                      \/ list.page.items = <<>> /\ list.page.from.direction = "previous"
    BY <1>1 DEF WalkMissesNothing
  <2>1. x \in DOMAIN rows /\ rows'[x] = rows[x]
    BY <1>1 DEF Edits
  <2>2. Place(x)' = Place(x)
    BY <2>1 DEF Place
  <2>3. x \notin edited \cup seen
    BY DEF Edits
  <2>4. \/ list.page.next # NoCursor /\ Precedes(Last(list.page.items), Place(x))
        \/ list.page.items = <<>> /\ list.page.from.direction = "previous"
    BY <2>1, <2>3 DEF RegistryInv, WalkMissesNothing
  <2>5. PICK last : last = Last(list.page.items)
    OBVIOUS
  <2>6. PICK p : p = Place(x)
    OBVIOUS
  <2>7. Precedes(last, p)' <=> Precedes(last, p)
    BY <1>3
  <2>8. last = Last(list.page.items)' /\ p = Place(x)'
    BY <1>1, <2>2, <2>5, <2>6
  <2>9. QED BY <2>4, <2>5, <2>6, <2>7, <2>8
<1>7. QED BY <1>4, <1>5, <1>6 DEF RegistryInv

\* A page shown anew misses nothing: what an unedited record's place is found at is
\* on it, comes after it, or the page was reached backwards.
LEMMA ShownMissesNothing ==
    ASSUME RegistryTyped, NEW v, NEW c, NEW page, page = listPage(v, c),
           NEW r \in DOMAIN rows, r \notin ShownOn(page), Place(r) \in Found(v, c)
    PROVE  page.next # NoCursor /\ (c.direction # "previous" => Precedes(Last(page.items), Place(r)))
<1>1. /\ PageRight(page)
      /\ page.items = <<>> => Found(v, c) = {}
      /\ c.direction = "previous" /\ page.items # <<>> => page.next # NoCursor
      /\ c.direction # "previous" =>
             \A p \in Found(v, c) : \/ \E i \in 1 .. Len(page.items) : page.items[i] = p
                                    \/ page.next # NoCursor /\ Precedes(Last(page.items), p)
  BY PageOf
<1>2. \A i \in 1 .. Len(page.items) : page.items[i] # Place(r)
  <2>1. DOMAIN page.items = 1 .. Len(page.items)
    BY <1>1 DEF PageRight
  <2>2. Last(Place(r)) = r
    BY PlacesOf
  <2>3. QED BY <2>1, <2>2 DEF ShownOn
<1>3. QED BY <1>1, <1>2

\* Turning a page, or opening the list, misses nothing.
LEMMA RegistryInvGoesOn == RegistryInv /\ [RegistryNext]_registryVars => RegistryInv'
<1> SUFFICES ASSUME RegistryInv, [RegistryNext]_registryVars PROVE RegistryInv'
  OBVIOUS
<1>1. RegistryTyped /\ ListRight /\ WalkMissesNothing
  BY DEF RegistryInv
<1>2. CASE \/ \E r \in Records, name \in Names : CreateRecord(r, name)
           \/ \E r \in DOMAIN rows, name \in Names, s \in {"on", "off"} : UpdateRecord(r, name, s)
           \/ \E r \in DOMAIN rows : SoftDeleteRecord(r) \/ RestoreRecord(r)
           \/ \E r \in Records, key \in {<<m>> : m \in Names} \cup (Names \X Names), s \in {"on", "off"} :
                  OtherRecord(r, key, s)
  <2>1. PICK r, row : Edits(r, row)
    BY <1>1, <1>2, CommandsEdit
  <2>2. QED BY <2>1, EditsKeep
<1>3. ASSUME UNCHANGED <<resource, rows>>
      PROVE  /\ RegistryTyped'
             /\ \A p, q : Precedes(p, q)' <=> Precedes(p, q)
             /\ \A page : PageRight(page)' <=> PageRight(page)
             /\ \A r : Place(r)' = Place(r)
  <2>1. Depth' = Depth /\ Places' = Places
    BY <1>3 DEF Depth, Places
  <2>2. \A p, q : Precedes(p, q)' <=> Precedes(p, q)
    BY <1>3 DEF Precedes
  <2>3. RegistryTyped'
    BY <1>1, <1>3, <2>1 DEF RegistryTyped
  <2>4. \A page : PageRight(page)' <=> PageRight(page)
    BY <2>1, <2>2 DEF PageRight
  <2>5. \A r : Place(r)' = Place(r)
    BY <1>3 DEF Place
  <2>6. QED BY <2>2, <2>3, <2>4, <2>5
<1>4. ASSUME UNCHANGED <<resource, rows>>, NEW v, NEW page,
             list' = [open |-> TRUE, view |-> v, page |-> page], PageRight(page),
             \A r \in DOMAIN rows \ (edited' \cup seen') :
                 InView(v, rows[r]) =>
                     \/ page.next # NoCursor /\ Precedes(Last(page.items), Place(r))
                     \/ page.items = <<>> /\ page.from.direction = "previous"
      PROVE  RegistryInv'
  <2>1. list'.open = TRUE /\ list'.view = v /\ list'.page = page
    BY <1>4
  <2>2. ListRight'
    BY <1>3, <1>4, <2>1 DEF ListRight
  <2>3. WalkMissesNothing'
    <3> SUFFICES ASSUME NEW r \in DOMAIN rows \ (edited' \cup seen'), InView(v, rows[r])
                 PROVE  \/ page.next # NoCursor /\ Precedes(Last(page.items), Place(r))'
                        \/ page.items = <<>> /\ page.from.direction = "previous"
      BY <1>4, <2>1 DEF WalkMissesNothing
    <3>1. PICK p : p = Place(r)
      OBVIOUS
    <3>2. Precedes(Last(page.items), p)' <=> Precedes(Last(page.items), p)
      BY <1>3, <1>4
    <3>3. p = Place(r)'
      BY <1>3, <1>4, <3>1
    <3>4. QED BY <1>4, <3>1, <3>2, <3>3
  <2>4. QED BY <1>3, <1>4, <2>2, <2>3 DEF RegistryInv
<1>5. ASSUME NEW v \in Views, OpenList(v)
      PROVE  RegistryInv'
  <2>1. PICK page : page = listPage(v, NoCursor)
    OBVIOUS
  <2>2. /\ list' = [open |-> TRUE, view |-> v, page |-> page]
        /\ seen' = ShownOn(page) /\ UNCHANGED <<resource, rows>>
    BY <1>5, <2>1 DEF OpenList
  <2>3. ASSUME NEW r \in DOMAIN rows \ (edited' \cup seen'), InView(v, rows[r])
        PROVE  page.next # NoCursor /\ Precedes(Last(page.items), Place(r))
    <3>1. Place(r) \in Found(v, NoCursor)
      BY <2>3 DEF Found, keyset, NoCursor
    <3>2. NoCursor.direction # "previous"
      BY DEF NoCursor
    <3>3. QED BY <1>1, <2>1, <2>2, <2>3, <3>1, <3>2, ShownMissesNothing
  <2>4. PageRight(page)
    BY <1>1, <2>1, PageOf
  <2>5. QED BY <1>4, <2>2, <2>3, <2>4
<1>6. ASSUME NEW direction \in {"next", "previous"}, TurnPage(direction)
      PROVE  RegistryInv'
  <2>1. list.open /\ list # Closed
    BY <1>6 DEF TurnPage, Closed
  <2>2. PICK v : v = list.view
    OBVIOUS
  <2>3. PICK old : old = list.page
    OBVIOUS
  <2>4. PageRight(old) /\ list = [open |-> TRUE, view |-> v, page |-> old]
    BY <1>1, <2>1, <2>2, <2>3 DEF ListRight
  <2>5. PICK c : c = IF direction = "next" THEN old.next ELSE old.previous
    OBVIOUS
  <2>6. PICK page : page = listPage(v, c)
    OBVIOUS
  <2>7. c # NoCursor /\ seen' = seen \cup ShownOn(page) /\ UNCHANGED <<resource, rows, edited>>
        /\ list' = [open |-> TRUE, view |-> v, page |-> page]
    BY <1>6, <2>2, <2>3, <2>4, <2>5, <2>6 DEF TurnPage
  <2>8. /\ old.items # <<>> /\ old.items \in Seq(Places)
        /\ direction = "next" => c = [direction |-> "next", place |-> Last(old.items)]
        /\ direction = "previous" => c = [direction |-> "previous", place |-> old.items[1]]
    BY <2>4, <2>5, <2>7 DEF PageRight
  <2>9. Len(old.items) > 0 /\ 1 \in 1 .. Len(old.items) /\ Len(old.items) \in 1 .. Len(old.items)
        /\ Last(old.items) \in Places /\ old.items[1] \in Places
    BY <2>8 DEF Last
  <2>10. old.items[1] = Last(old.items) \/ Precedes(old.items[1], Last(old.items))
    BY <2>4, <2>9 DEF PageRight, Last
  <2>11. ASSUME NEW r \in DOMAIN rows \ (edited' \cup seen'), InView(v, rows[r])
         PROVE  \/ page.next # NoCursor /\ Precedes(Last(page.items), Place(r))
                \/ page.items = <<>> /\ page.from.direction = "previous"
    <3>1. Precedes(Last(old.items), Place(r))
      BY <1>1, <2>1, <2>2, <2>3, <2>7, <2>8, <2>11 DEF WalkMissesNothing
    <3>2. Place(r) \in Places /\ r \notin ShownOn(page) /\ resource \in Resources
      BY <1>1, <2>7, <2>11, PlacesOf DEF RegistryTyped
    <3>3. CASE direction = "next"
      <4>1. c # NoCursor /\ c.direction = "next" /\ c.place = Last(old.items)
        BY <2>7, <2>8, <3>3
      <4>2. Place(r) \in Found(v, c)
        BY <2>11, <3>1, <4>1 DEF Found, keyset
      <4>3. QED BY <1>1, <2>6, <2>11, <3>2, <4>1, <4>2, ShownMissesNothing
    <3>4. CASE direction = "previous"
      <4>1. c # NoCursor /\ c.direction = "previous" /\ c.place = old.items[1]
        BY <2>7, <2>8, <3>4
      <4>2. /\ page.from = c /\ PageRight(page)
            /\ \A i \in 1 .. Len(page.items) : page.items[i] \in Found(v, c)
            /\ page.items # <<>> => page.next # NoCursor
        BY <1>1, <2>6, <4>1, PageOf
      <4>3. CASE page.items # <<>>
        <5>1. Last(page.items) \in Found(v, c) /\ Last(page.items) \in Places
          BY <4>2, <4>3 DEF PageRight, Last
        <5>2. Precedes(Last(page.items), old.items[1])
          BY <4>1, <5>1 DEF Found, keyset
        <5>3. \A p, q, u \in Places : Precedes(p, q) /\ Precedes(q, u) => Precedes(p, u)
          BY <3>2, PlacesTransitive
        <5>4. Precedes(old.items[1], Place(r))
          BY <2>9, <2>10, <3>1, <3>2, <5>3
        <5>5. Precedes(Last(page.items), Place(r))
          BY <2>9, <3>2, <5>1, <5>2, <5>3, <5>4
        <5>6. QED BY <4>2, <4>3, <5>5
      <4>4. CASE page.items = <<>>
        BY <4>1, <4>2, <4>4
      <4>5. QED BY <4>3, <4>4
    <3>5. QED BY <3>3, <3>4
  <2>12. PageRight(page)
    BY <1>1, <2>6, PageOf
  <2>13. QED BY <1>4, <2>7, <2>11, <2>12
<1>7. CASE LeaveList
  <2>1. UNCHANGED <<resource, rows>> /\ list' = Closed
    BY <1>7 DEF LeaveList
  <2>2. list'.open = FALSE
    BY <2>1 DEF Closed
  <2>3. WalkMissesNothing'
    BY <2>2 DEF WalkMissesNothing
  <2>4. QED BY <1>3, <2>1, <2>3 DEF RegistryInv, ListRight
<1>8. CASE UNCHANGED registryVars
  <2>1. UNCHANGED <<resource, rows, list, seen, edited>>
    BY <1>8 DEF registryVars
  <2>2. CASE list = Closed
    <3>1. list'.open = FALSE
      BY <2>1, <2>2 DEF Closed
    <3>2. QED BY <1>3, <2>1, <2>2, <3>1 DEF RegistryInv, ListRight, WalkMissesNothing
  <2>3. CASE list # Closed
    <3>1. PICK v : v = list.view
      OBVIOUS
    <3>2. PICK page : page = list.page
      OBVIOUS
    <3>3. list' = [open |-> TRUE, view |-> v, page |-> page] /\ PageRight(page) /\ list.open
      BY <1>1, <2>1, <2>3, <3>1, <3>2 DEF ListRight
    <3>4. \A r \in DOMAIN rows \ (edited' \cup seen') :
              InView(v, rows[r]) =>
                  \/ page.next # NoCursor /\ Precedes(Last(page.items), Place(r))
                  \/ page.items = <<>> /\ page.from.direction = "previous"
      BY <1>1, <2>1, <3>1, <3>2, <3>3 DEF WalkMissesNothing
    <3>5. QED BY <1>4, <2>1, <3>3, <3>4
  <2>4. QED BY <2>2, <2>3
<1>9. QED
  BY <1>2, <1>5, <1>6, <1>7, <1>8 DEF RegistryNext

\* However records are created, renamed, moved, deleted and restored between two
\* pages, and whichever way the pages are turned, a record nobody changed is shown
\* or still ahead, for any kind of records, page size and number of edits (listPage,
\* the keyset conditions of the list repositories).
THEOREM ListsMissNothing == RegistrySpec => []WalkMissesNothing
<1>1. RegistryInit => RegistryInv
  <2> SUFFICES ASSUME RegistryInit PROVE RegistryInv
    OBVIOUS
  <2>1. RegistryTyped
    BY FirstTyped
  <2>2. list = Closed /\ list.open = FALSE
    BY DEF RegistryInit, Closed
  <2>3. QED BY <2>1, <2>2 DEF RegistryInv, ListRight, WalkMissesNothing
<1>2. RegistryInv => WalkMissesNothing
  BY DEF RegistryInv
<1>3. QED BY <1>1, <1>2, RegistryInvGoesOn, PTL DEF RegistrySpec

-----------------------------------------------------------------------------
(***************************************************************************)
(* What the audit trail tells of the records.  Told from its beginning     *)
(* (FoldLeft), a trail one event longer tells of one record more; each     *)
(* command writes the event that tells what it did.                        *)
(***************************************************************************)
\* A set of numbers up to n has a greatest one.
LEMMA GreatestOf ==
    ASSUME NEW n \in Nat, NEW u \in SUBSET (1 .. n), u # {}
    PROVE  Max(u) \in u /\ \A x \in u : x <= Max(u)
<1> DEFINE v == {n - x : x \in u}
<1>1. v \in SUBSET Nat /\ v # {}
  <2>1. \A x \in u : n - x \in Nat
    OBVIOUS
  <2>2. QED BY <2>1
<1>2. PICK y \in v : \A z \in v : y <= z
  <2> HIDE DEF v
  <2>1. QED BY <1>1, LeastNumber
<1>3. PICK x \in u : y = n - x
  OBVIOUS
<1>4. \A z \in u : x >= z
  <2>1. \A z \in u : n - x <= n - z
    BY <1>2, <1>3
  <2>2. QED BY <2>1
<1>5. Max(u) \in u /\ \A z \in u : Max(u) >= z
  BY <1>3, <1>4 DEF Max
<1>6. QED BY <1>5

\* So have finite sets of positive numbers, and their parts.
Numbers(D) == \E n \in Nat : D \in SUBSET (1 .. n)
\* They are finite, and each of their parts but the empty one has a greatest number.
LEMMA NumbersAre ==
    ASSUME NEW D, Numbers(D)
    PROVE  /\ IsFiniteSet(D)
           /\ \A u \in SUBSET D : Numbers(u) /\ (u # {} => Max(u) \in u)
<1>1. PICK n \in Nat : D \in SUBSET (1 .. n)
  BY DEF Numbers
<1>2. IsFiniteSet(D)
  <2> DEFINE all == 1 .. n
  <2>1. IsFiniteSet(all) /\ D \subseteq all
    BY <1>1, FS_Interval
  <2> HIDE DEF all
  <2>2. QED BY ONLY <2>1, FS_Subset
<1>3. ASSUME NEW u \in SUBSET D
      PROVE  Numbers(u) /\ (u # {} => Max(u) \in u)
  <2>1. u \in SUBSET (1 .. n)
    BY <1>1
  <2>2. QED BY <2>1, GreatestOf DEF Numbers
<1>4. QED BY <1>2, <1>3

\* The steps of FoldLeft(Tell, b, s), from nothing to all of s.
Tellings(g, b, s, D) ==
    g = [u \in SUBSET D |-> IF u = {} THEN b ELSE Tell(g[u \ {Max(u)}], s[Max(u)])]
\* Telling a trail from its beginning (FoldLeft) is the last of those steps.
LEMMA TrailFolds ==
    ASSUME NEW b, NEW s
    PROVE  FoldLeft(Tell, b, s) = (CHOOSE g : Tellings(g, b, s, DOMAIN s))[DOMAIN s]
  BY DEF FoldLeft, MapThenFoldSet, Tellings

\* Trails that begin alike tell the same of their common beginning.
LEMMA TellingsAgree ==
    ASSUME NEW D, Numbers(D), NEW E, D \subseteq E, NEW b, NEW s, NEW t, \A i \in D : s[i] = t[i],
           NEW g, Tellings(g, b, s, D), NEW h, Tellings(h, b, t, E)
    PROVE  \A u \in SUBSET D : g[u] = h[u]
<1> DEFINE P == {u \in SUBSET D : g[u] # h[u]}
<1>1. ASSUME P # {}
      PROVE  FALSE
  <2>1. IsFiniteSet(D)
    BY NumbersAre
  <2>2. PICK u \in P : \A v \in P : v \subseteq u => v = u
    <3>1. P \in SUBSET (SUBSET D)
      OBVIOUS
    <3> HIDE DEF P
    <3>2. QED BY ONLY <1>1, <2>1, <3>1, LeastSubset
  <2>3. CASE u = {}
    BY <2>2, <2>3 DEF Tellings
  <2>4. CASE u # {}
    <3> DEFINE x == Max(u)
               v == u \ {x}
    <3>1. x \in u
      BY <2>2, <2>4, NumbersAre
    <3>2. v \in SUBSET D /\ v \subseteq u /\ v # u
      BY <2>2, <3>1
    <3>3. g[v] = h[v]
      BY <2>2, <3>2
    <3>4. g[u] = Tell(g[v], s[x]) /\ h[u] = Tell(h[v], t[x])
      BY <2>2, <2>4 DEF Tellings
    <3>5. s[x] = t[x]
      BY <2>2, <3>1
    <3>6. QED
      <4> HIDE DEF v, x
      <4>1. QED BY <2>2, <3>3, <3>4, <3>5
  <2>5. QED BY <2>3, <2>4
<1>2. QED BY <1>1

\* Every trail tells something.
LEMMA TellingsExist ==
    ASSUME NEW D, Numbers(D), NEW b, NEW s
    PROVE  \E g : Tellings(g, b, s, D)
<1> DEFINE Q == {d \in SUBSET D : ~\E g : Tellings(g, b, s, d)}
<1>1. ASSUME Q # {}
      PROVE  FALSE
  <2>1. PICK d \in Q : \A u \in Q : u \subseteq d => u = d
    <3>1. Q \in SUBSET (SUBSET D) /\ IsFiniteSet(D)
      BY NumbersAre
    <3> HIDE DEF Q
    <3>2. QED BY ONLY <1>1, <3>1, LeastSubset
  <2> HIDE DEF Q
  <2> DEFINE TellingOf(u) == CHOOSE g : Tellings(g, b, s, u)
             below == [u \in SUBSET d |-> TellingOf(u)[u]]
             G == [u \in SUBSET d |->
                      IF u = {} THEN b ELSE Tell(below[u \ {Max(u)}], s[Max(u)])]
  <2>0. d \in SUBSET D /\ ~\E g : Tellings(g, b, s, d)
    BY DEF Q
  <2>2. \A u \in SUBSET d : u # d => Tellings(TellingOf(u), b, s, u)
    <3>1. ASSUME NEW u \in SUBSET d, u # d
          PROVE  \E g : Tellings(g, b, s, u)
      BY <2>0, <2>1, <3>1 DEF Q
    <3>2. QED BY <3>1
  <2>3. ASSUME NEW u \in SUBSET d, u # d
        PROVE  G[u] = below[u]
    <3>1. Tellings(TellingOf(u), b, s, u)
      BY <2>2, <2>3
    <3>2. Numbers(u) /\ (u # {} => Max(u) \in u)
      BY <2>0, NumbersAre
    <3>3. CASE u = {}
      <4>1. TellingOf(u)[u] = b
        <5> HIDE DEF TellingOf
        <5>1. QED BY <3>1, <3>3 DEF Tellings
      <4>2. QED BY <3>3, <4>1
    <3>4. CASE u # {}
      <4> DEFINE x == Max(u)
                 v == u \ {x}
      <4>1. x \in u
        BY <3>2, <3>4
      <4>2. v \in SUBSET u /\ v \in SUBSET d /\ v # d /\ Numbers(v)
        BY <3>2, <4>1, NumbersAre
      <4>3. Tellings(TellingOf(v), b, s, v)
        BY <2>2, <4>2
      <4>4. TellingOf(v)[v] = TellingOf(u)[v]
        <5> HIDE DEF TellingOf, v
        <5>1. \A w \in SUBSET v : TellingOf(v)[w] = TellingOf(u)[w]
          <6>1. PICK t : t = s
            OBVIOUS
          <6>2. PICK w : w = v
            OBVIOUS
          <6>3. PICK a : a = TellingOf(v)
            OBVIOUS
          <6>4. PICK c : c = TellingOf(u)
            OBVIOUS
          <6>5. /\ Numbers(w) /\ w \subseteq u /\ \A i \in w : s[i] = t[i]
                /\ Tellings(a, b, s, w) /\ Tellings(c, b, t, u)
            BY <3>1, <4>2, <4>3, <6>1, <6>2, <6>3, <6>4
          <6>6. \A y \in SUBSET w : a[y] = c[y]
            BY ONLY <6>5, TellingsAgree
          <6>7. QED BY <6>2, <6>3, <6>4, <6>6
        <5>2. QED BY <5>1
      <4>5. TellingOf(u)[u] = Tell(TellingOf(u)[v], s[x])
        <5> HIDE DEF TellingOf
        <5>1. QED BY <3>1, <3>4 DEF Tellings
      <4>6. below[u] = TellingOf(u)[u] /\ below[v] = TellingOf(v)[v]
        BY <4>2
      <4>7. G[u] = Tell(below[v], s[x])
        BY <3>4
      <4>8. QED
        <5> HIDE DEF TellingOf, below, G, v, x
        <5>1. QED BY <4>4, <4>5, <4>6, <4>7
    <3>5. QED BY <3>3, <3>4
  <2>4. Tellings(G, b, s, d)
    <3>1. ASSUME NEW u \in SUBSET d
          PROVE  G[u] = IF u = {} THEN b ELSE Tell(G[u \ {Max(u)}], s[Max(u)])
      <4>1. CASE u = {}
        BY <4>1
      <4>2. CASE u # {}
        <5>1. Max(u) \in u
          BY <2>0, <4>2, NumbersAre
        <5>2. u \ {Max(u)} \in SUBSET d /\ u \ {Max(u)} # d
          BY <5>1
        <5>3. G[u] = Tell(below[u \ {Max(u)}], s[Max(u)])
          BY <4>2
        <5>4. G[u \ {Max(u)}] = below[u \ {Max(u)}]
          BY <2>3, <5>2
        <5>5. QED
          <6> HIDE DEF G, below
          <6>1. QED BY <4>2, <5>3, <5>4
      <4>3. QED BY <4>1, <4>2
    <3>2. G = [u \in SUBSET d |-> G[u]]
      <4> HIDE DEF below
      <4>1. QED OBVIOUS
    <3>3. QED
      <4> HIDE DEF G
      <4>1. QED BY <3>1, <3>2 DEF Tellings
  <2>5. QED
    <3> HIDE DEF G
    <3>1. QED BY <2>0, <2>4
<1>2. D \notin Q
  BY <1>1
<1>3. QED BY <1>2

\* An event more tells of one thing more.
LEMMA TrailWith ==
    ASSUME NEW S, NEW s, s \in Seq(S), NEW e, e \in S, NEW b
    PROVE  FoldLeft(Tell, b, Append(s, e)) = Tell(FoldLeft(Tell, b, s), e)
<1> DEFINE n == Len(s)
           t == Append(s, e)
           g == CHOOSE g : Tellings(g, b, s, 1 .. n)
           h == CHOOSE h : Tellings(h, b, t, 1 .. n + 1)
<1>1. /\ n \in Nat /\ DOMAIN s = 1 .. n /\ DOMAIN t = 1 .. n + 1 /\ t[n + 1] = e
      /\ \A i \in 1 .. n : s[i] = t[i]
  OBVIOUS
<1> HIDE DEF n, t
<1>2. FoldLeft(Tell, b, s) = g[1 .. n] /\ FoldLeft(Tell, b, t) = h[1 .. n + 1]
  <2>1. FoldLeft(Tell, b, s) = g[1 .. n]
    <3>1. PICK u : u = DOMAIN s
      OBVIOUS
    <3>2. u = 1 .. n
      BY ONLY <1>1, <3>1
    <3>3. FoldLeft(Tell, b, s) = (CHOOSE x : Tellings(x, b, s, u))[u]
      BY ONLY <3>1, TrailFolds
    <3>4. QED BY ONLY <3>2, <3>3
  <2>2. FoldLeft(Tell, b, t) = h[1 .. n + 1]
    <3>1. PICK u : u = DOMAIN t
      OBVIOUS
    <3>2. u = 1 .. n + 1
      BY ONLY <1>1, <3>1
    <3>3. FoldLeft(Tell, b, t) = (CHOOSE x : Tellings(x, b, t, u))[u]
      BY ONLY <3>1, TrailFolds
    <3>4. QED BY ONLY <3>2, <3>3
  <2>3. QED BY <2>1, <2>2
<1>3. Tellings(g, b, s, 1 .. n) /\ Tellings(h, b, t, 1 .. n + 1)
  <2>0. Numbers(1 .. n) /\ Numbers(1 .. n + 1)
    <3>1. n + 1 \in Nat /\ n \in Nat /\ 1 .. n \in SUBSET (1 .. n) /\ 1 .. n + 1 \in SUBSET (1 .. n + 1)
      BY <1>1
    <3>2. QED BY <3>1 DEF Numbers
  <2>1. \E a : Tellings(a, b, s, 1 .. n)
    BY <2>0, TellingsExist
  <2>2. \E a : Tellings(a, b, t, 1 .. n + 1)
    BY <2>0, TellingsExist
  <2>3. QED BY <2>1, <2>2
<1> HIDE DEF g, h
<1>4. g[1 .. n] = h[1 .. n]
  <2>1. /\ 1 .. n \in SUBSET (1 .. n) /\ 1 .. n + 1 \in SUBSET (1 .. n + 1) /\ n + 1 \in Nat
        /\ 1 .. n \subseteq 1 .. n + 1
    BY <1>1
  <2>2. \A u \in SUBSET (1 .. n) : g[u] = h[u]
    <3> DEFINE less == 1 .. n
               more == 1 .. n + 1
    <3>1. Numbers(less) /\ less \subseteq more /\ \A i \in less : s[i] = t[i]
      BY <1>1, <2>1 DEF Numbers
    <3>2. Tellings(g, b, s, less) /\ Tellings(h, b, t, more)
      BY <1>3
    <3>3. \A u \in SUBSET less : g[u] = h[u]
      <4> HIDE DEF less, more
      <4>1. QED BY ONLY <3>1, <3>2, TellingsAgree
    <3>4. QED BY <3>3
  <2>3. QED BY <2>1, <2>2
<1>5. h[1 .. n + 1] = Tell(h[1 .. n], e)
  <2> DEFINE all == 1 .. n + 1
  <2>0. n + 1 \in Nat /\ n + 1 \in all
    BY <1>1
  <2>1. all # {} /\ all \in SUBSET (1 .. n + 1)
    BY <2>0
  <2>2. Max(all) \in all /\ \A x \in all : x <= Max(all)
    BY <2>0, <2>1, GreatestOf
  <2>3. Max(all) = n + 1
    BY <1>1, <2>0, <2>2
  <2>4. all \ {n + 1} = 1 .. n
    BY <1>1
  <2>5. h[all] = Tell(h[all \ {Max(all)}], t[Max(all)])
    <3> HIDE DEF all
    <3>1. QED BY <1>3, <2>1 DEF Tellings, all
  <2>6. QED BY <1>1, <2>3, <2>4, <2>5
<1>6. QED BY <1>2, <1>4, <1>5 DEF t

\* Nothing told, nothing changed.
LEMMA TrailOfNone == ASSUME NEW b PROVE FoldLeft(Tell, b, <<>>) = b
<1> DEFINE g == CHOOSE g : Tellings(g, b, <<>>, 1 .. 0)
<1>1. DOMAIN <<>> = 1 .. 0 /\ 1 .. 0 = {}
  OBVIOUS
<1>2. FoldLeft(Tell, b, <<>>) = g[1 .. 0]
  BY <1>1, TrailFolds
<1>3. Tellings(g, b, <<>>, 1 .. 0)
  <2>1. \E a : Tellings(a, b, <<>>, 1 .. 0)
    <3>1. Numbers(1 .. 0)
      BY DEF Numbers
    <3>2. QED BY <3>1, TellingsExist
  <2>2. QED BY <2>1
<1> HIDE DEF g
<1>4. {} \in SUBSET {} /\ g[{}] = b
  BY <1>1, <1>3 DEF Tellings
<1>5. QED BY <1>1, <1>2, <1>4

\* What the rows are, in the trail's words, and what an event says.
AtFirst(kind) == [r \in DOMAIN Registered[kind] |-> Told(Registered[kind][r])]
Now == [r \in DOMAIN rows |-> Told(rows[r])]
Events == [record : Int,
           action : {"created", "updated", "status_changed", "deleted", "restored"},
           before : [name : Int, status : {"on", "off", "none"}],
           after : [name : Int, status : {"on", "off", "none"}]]
TrailTyped == resource \in MasterData => trail \in Seq(Events)
TrailInv == RegistryTyped /\ TrailTyped /\ TrailTells

\* The rows with one more, in the trail's words.
LEMMA NowWith ==
    ASSUME NEW r, NEW row, rows' = With(rows, r, row)
    PROVE  Now' = With(Now, r, Told(row))
<1>1. /\ DOMAIN rows' = DOMAIN rows \cup {r}
      /\ \A s \in DOMAIN rows' : rows'[s] = IF s = r THEN row ELSE rows[s]
  BY DEF With
<1>2. Now' = [s \in DOMAIN rows' |-> Told(rows'[s])]
  BY DEF Now, Told, snapshot
<1>3. DOMAIN Now = DOMAIN rows /\ \A s \in DOMAIN rows : Now[s] = Told(rows[s])
  BY DEF Now
<1>4. With(Now, r, Told(row)) = [s \in DOMAIN rows \cup {r} |-> IF s = r THEN Told(row) ELSE Now[s]]
  BY <1>3 DEF With
<1>5. \A s \in DOMAIN rows' : Told(rows'[s]) = IF s = r THEN Told(row) ELSE Now[s]
  BY <1>1, <1>3
<1>6. QED BY <1>1, <1>2, <1>4, <1>5

\* One event of a row that tells of it as it is.
LEMMA OneTold ==
    ASSUME TrailInv, resource \in MasterData, NEW r, NEW row, NEW e \in Events,
           WriteRow(r, row, <<e>>), Tell(Now, e) = With(Now, r, Told(row))
    PROVE  TrailTyped' /\ TrailTells'
<1>1. /\ resource' = resource /\ trail \in Seq(Events) /\ trail' = Append(trail, e)
      /\ rows' = With(rows, r, row)
  BY DEF TrailInv, TrailTyped, WriteRow
<1>2. FoldLeft(Tell, AtFirst(resource), trail) = Now
  BY DEF TrailInv, TrailTells, AtFirst, Now
<1>3. FoldLeft(Tell, AtFirst(resource), trail') = Tell(Now, e)
  <2>1. PICK b, s : b = AtFirst(resource) /\ s = trail
    OBVIOUS
  <2>2. s \in Seq(Events) /\ e \in Events
    BY <1>1, <2>1
  <2>3. FoldLeft(Tell, b, Append(s, e)) = Tell(FoldLeft(Tell, b, s), e)
    BY ONLY <2>2, TrailWith
  <2>4. QED BY ONLY <1>1, <1>2, <2>1, <2>3
<1>4. Now' = With(Now, r, Told(row))
  BY <1>1, NowWith
<1>5. TrailTyped'
  BY <1>1 DEF TrailTyped
<1>6. TrailTells'
  BY <1>1, <1>3, <1>4 DEF TrailTells, AtFirst, Now, Told, snapshot
<1>7. QED BY <1>5, <1>6

\* Two events of a row: the second follows the first.
LEMMA BothTold ==
    ASSUME TrailInv, resource \in MasterData, NEW r, NEW row, NEW e \in Events, NEW f \in Events,
           WriteRow(r, row, <<e, f>>), Tell(Tell(Now, e), f) = With(Now, r, Told(row))
    PROVE  TrailTyped' /\ TrailTells'
<1>1. /\ resource' = resource /\ trail \in Seq(Events) /\ trail' = Append(Append(trail, e), f)
      /\ rows' = With(rows, r, row)
  BY DEF TrailInv, TrailTyped, WriteRow
<1>2. FoldLeft(Tell, AtFirst(resource), trail) = Now
  BY DEF TrailInv, TrailTells, AtFirst, Now
<1>3. PICK b, one : b = AtFirst(resource) /\ one = Append(trail, e)
  OBVIOUS
<1>4. one \in Seq(Events) /\ trail' = Append(one, f)
  BY <1>1, <1>3
<1>5. FoldLeft(Tell, b, one) = Tell(Now, e)
  <2>1. PICK s : s = trail
    OBVIOUS
  <2>2. s \in Seq(Events) /\ e \in Events
    BY <1>1, <2>1
  <2>3. FoldLeft(Tell, b, Append(s, e)) = Tell(FoldLeft(Tell, b, s), e)
    BY ONLY <2>2, TrailWith
  <2>4. QED BY ONLY <1>2, <1>3, <2>1, <2>3
<1>6. FoldLeft(Tell, b, Append(one, f)) = Tell(FoldLeft(Tell, b, one), f)
  <2>1. one \in Seq(Events) /\ f \in Events
    BY <1>4
  <2>2. QED BY ONLY <2>1, TrailWith
<1>7. FoldLeft(Tell, AtFirst(resource), trail') = Tell(Tell(Now, e), f)
  BY ONLY <1>3, <1>4, <1>5, <1>6
<1>8. Now' = With(Now, r, Told(row))
  BY <1>1, NowWith
<1>9. TrailTyped'
  BY <1>1, <1>4 DEF TrailTyped
<1>10. TrailTells'
  BY <1>1, <1>7, <1>8 DEF TrailTells, AtFirst, Now, Told, snapshot
<1>11. QED BY <1>9, <1>10

\* No event, and the row as it was.
LEMMA NothingTold ==
    ASSUME TrailInv, resource \in MasterData, NEW r \in DOMAIN rows, WriteRow(r, rows[r], <<>>)
    PROVE  TrailTyped' /\ TrailTells'
<1>1. resource' = resource /\ trail \in Seq(Events) /\ trail' = trail /\ rows' = With(rows, r, rows[r])
  BY DEF TrailInv, TrailTyped, WriteRow
<1>2. rows' = rows
  <2>1. rows = [s \in DOMAIN rows |-> rows[s]]
    BY DEF TrailInv, RegistryTyped
  <2>2. DOMAIN rows \cup {r} = DOMAIN rows
    OBVIOUS
  <2>3. QED BY <1>1, <2>1, <2>2 DEF With
<1>3. TrailTyped'
  BY <1>1 DEF TrailTyped
<1>4. TrailTells'
  BY <1>1, <1>2 DEF TrailInv, TrailTells, Told, snapshot
<1>5. QED BY <1>3, <1>4

\* What each kind of event makes of a record it follows.
ToldOf(old, r) == IF r \in DOMAIN old THEN old[r] ELSE [is |-> NoSnapshot, deleted |-> FALSE]
\* A creation or an update makes it what the event says it is after it.
LEMMA ChangeSays ==
    ASSUME NEW old, NEW e, NEW r, e.record = r, NEW is, ToldOf(old, r) = [is |-> is, deleted |-> FALSE],
           e.action \in {"created", "updated"}, is = e.before
    PROVE  Tell(old, e) = With(old, r, [is |-> e.after, deleted |-> FALSE])
<1> DEFINE was == ToldOf(old, r)
           now == [is |-> CASE e.action = "status_changed" -> [was.is EXCEPT !.status = e.after.status]
                            [] e.action = "deleted" -> was.is
                            [] OTHER -> e.after,
                   deleted |-> e.action = "deleted"]
           follows == /\ was.deleted = (e.action = "restored")
                      /\ IF e.action = "status_changed" THEN was.is.status = e.before.status
                                                        ELSE was.is = e.before
<1>1. follows => Tell(old, e) = With(old, r, now)
  BY DEF Tell, ToldOf
<1>2. was.is = is /\ was.deleted = FALSE
  OBVIOUS
<1>3. (e.action = "restored") = FALSE /\ (e.action = "deleted") = FALSE /\ e.action # "status_changed"
  OBVIOUS
<1>4. follows
  <2> HIDE DEF was
  <2>1. QED BY <1>2, <1>3
<1>5. now = [is |-> e.after, deleted |-> FALSE]
  <2> HIDE DEF was
  <2>1. QED BY <1>2, <1>3
<1>6. QED
  <2> HIDE DEF now, follows
  <2>1. QED BY <1>1, <1>4, <1>5
\* A change of status changes that alone.
LEMMA StatusSays ==
    ASSUME NEW old, NEW e, NEW r, e.record = r, NEW is, ToldOf(old, r) = [is |-> is, deleted |-> FALSE],
           e.action = "status_changed", is.status = e.before.status,
           NEW next, next = [is EXCEPT !.status = e.after.status]
    PROVE  Tell(old, e) = With(old, r, [is |-> next, deleted |-> FALSE])
<1> DEFINE was == ToldOf(old, r)
           now == [is |-> CASE e.action = "status_changed" -> [was.is EXCEPT !.status = e.after.status]
                            [] e.action = "deleted" -> was.is
                            [] OTHER -> e.after,
                   deleted |-> e.action = "deleted"]
           follows == /\ was.deleted = (e.action = "restored")
                      /\ IF e.action = "status_changed" THEN was.is.status = e.before.status
                                                        ELSE was.is = e.before
<1>1. follows => Tell(old, e) = With(old, r, now)
  BY DEF Tell, ToldOf
<1>2. was.is = is /\ was.deleted = FALSE
  OBVIOUS
<1>3. (e.action = "restored") = FALSE /\ (e.action = "deleted") = FALSE /\ e.action = "status_changed"
  OBVIOUS
<1>4. follows
  <2> HIDE DEF was
  <2>1. QED BY <1>2, <1>3
<1>5. now = [is |-> next, deleted |-> FALSE]
  <2> HIDE DEF was
  <2>1. QED BY <1>2, <1>3
<1>6. QED
  <2> HIDE DEF now, follows
  <2>1. QED BY <1>1, <1>4, <1>5
\* A deletion leaves it what it was, deleted.
LEMMA DeletionSays ==
    ASSUME NEW old, NEW e, NEW r, e.record = r, NEW is, ToldOf(old, r) = [is |-> is, deleted |-> FALSE],
           e.action = "deleted", is = e.before
    PROVE  Tell(old, e) = With(old, r, [is |-> is, deleted |-> TRUE])
<1> DEFINE was == ToldOf(old, r)
           now == [is |-> CASE e.action = "status_changed" -> [was.is EXCEPT !.status = e.after.status]
                            [] e.action = "deleted" -> was.is
                            [] OTHER -> e.after,
                   deleted |-> e.action = "deleted"]
           follows == /\ was.deleted = (e.action = "restored")
                      /\ IF e.action = "status_changed" THEN was.is.status = e.before.status
                                                        ELSE was.is = e.before
<1>1. follows => Tell(old, e) = With(old, r, now)
  BY DEF Tell, ToldOf
<1>2. was.is = is /\ was.deleted = FALSE
  OBVIOUS
<1>3. (e.action = "restored") = FALSE /\ (e.action = "deleted") = TRUE /\ e.action # "status_changed"
  OBVIOUS
<1>4. follows
  <2> HIDE DEF was
  <2>1. QED BY <1>2, <1>3
<1>5. now = [is |-> is, deleted |-> TRUE]
  <2> HIDE DEF was
  <2>1. QED BY <1>2, <1>3
<1>6. QED
  <2> HIDE DEF now, follows
  <2>1. QED BY <1>1, <1>4, <1>5
\* A restore makes it what the event says, not deleted.
LEMMA RestoreSays ==
    ASSUME NEW old, NEW e, NEW r, e.record = r, NEW is, ToldOf(old, r) = [is |-> is, deleted |-> TRUE],
           e.action = "restored", is = e.before
    PROVE  Tell(old, e) = With(old, r, [is |-> e.after, deleted |-> FALSE])
<1> DEFINE was == ToldOf(old, r)
           now == [is |-> CASE e.action = "status_changed" -> [was.is EXCEPT !.status = e.after.status]
                            [] e.action = "deleted" -> was.is
                            [] OTHER -> e.after,
                   deleted |-> e.action = "deleted"]
           follows == /\ was.deleted = (e.action = "restored")
                      /\ IF e.action = "status_changed" THEN was.is.status = e.before.status
                                                        ELSE was.is = e.before
<1>1. follows => Tell(old, e) = With(old, r, now)
  BY DEF Tell, ToldOf
<1>2. was.is = is /\ was.deleted = TRUE
  OBVIOUS
<1>3. (e.action = "restored") = TRUE /\ (e.action = "deleted") = FALSE /\ e.action # "status_changed"
  OBVIOUS
<1>4. follows
  <2> HIDE DEF was
  <2>1. QED BY <1>2, <1>3
<1>5. now = [is |-> e.after, deleted |-> FALSE]
  <2> HIDE DEF was
  <2>1. QED BY <1>2, <1>3
<1>6. QED
  <2> HIDE DEF now, follows
  <2>1. QED BY <1>1, <1>4, <1>5

\* What is written last of a record is what holds.
LEMMA LastWord == ASSUME NEW f, NEW r, NEW a, NEW c PROVE With(With(f, r, a), r, c) = With(f, r, c)
<1>1. DOMAIN With(f, r, a) = DOMAIN f \cup {r} /\ \A s \in DOMAIN f \cup {r} : s # r => With(f, r, a)[s] = f[s]
  BY DEF With
<1>2. With(With(f, r, a), r, c) = [s \in DOMAIN f \cup {r} |-> IF s = r THEN c ELSE f[s]]
  <2> DEFINE g == With(f, r, a)
  <2>1. With(g, r, c) = [s \in DOMAIN g \cup {r} |-> IF s = r THEN c ELSE g[s]]
    BY DEF With
  <2>2. DOMAIN g \cup {r} = DOMAIN f \cup {r} /\ \A s \in DOMAIN f : s # r => g[s] = f[s]
    BY <1>1
  <2> HIDE DEF g
  <2>3. \A s \in DOMAIN f \cup {r} : (IF s = r THEN c ELSE g[s]) = (IF s = r THEN c ELSE f[s])
    <3>1. ASSUME NEW s \in DOMAIN f \cup {r} PROVE (IF s = r THEN c ELSE g[s]) = (IF s = r THEN c ELSE f[s])
      <4>1. CASE s = r
        BY <4>1
      <4>2. CASE s # r
        BY <2>2, <4>2
      <4>3. QED BY <4>1, <4>2
    <3>2. QED BY <3>1
  <2>4. QED BY <2>1, <2>2, <2>3 DEF g
<1>3. QED BY <1>2 DEF With

\* A row and an event of it are well formed.
LEMMA WordsTyped ==
    ASSUME RegistryTyped, resource \in MasterData
    PROVE  /\ \A r \in DOMAIN rows :
                  /\ r \in Int /\ rows[r] \in RowFields
                  /\ rows[r].key \in Seq(Int) /\ Len(rows[r].key) = 1 /\ rows[r].key[1] \in Int
                  /\ rows[r].status \in {"on", "off"} /\ rows[r].deleted \in BOOLEAN
                  /\ ToldOf(Now, r) = [is |-> [name |-> rows[r].key[1], status |-> rows[r].status],
                                       deleted |-> rows[r].deleted]
           /\ \A r \in Int \ DOMAIN rows : ToldOf(Now, r) = [is |-> NoSnapshot, deleted |-> FALSE]
<1>1. Depth = 2
  BY DEF Depth, orderBy, MasterData
<1>2. ASSUME NEW r \in DOMAIN rows
      PROVE  /\ r \in Int /\ rows[r] \in RowFields
             /\ rows[r].key \in Seq(Int) /\ Len(rows[r].key) = 1 /\ rows[r].key[1] \in Int
             /\ rows[r].status \in {"on", "off"} /\ rows[r].deleted \in BOOLEAN
  <2>1. rows[r] \in RowFields /\ Len(rows[r].key) = 1 /\ r \in Int
    BY <1>1 DEF RegistryTyped
  <2>2. QED BY <2>1 DEF RowFields
<1>3. \A r \in DOMAIN rows : ToldOf(Now, r) = [is |-> [name |-> rows[r].key[1], status |-> rows[r].status],
                                               deleted |-> rows[r].deleted]
  BY DEF ToldOf, Now, Told, snapshot
<1>4. \A r \in Int \ DOMAIN rows : ToldOf(Now, r) = [is |-> NoSnapshot, deleted |-> FALSE]
  BY DEF ToldOf, Now
<1>5. QED BY <1>2, <1>3, <1>4

\* A record is created.
LEMMA CreateTells ==
    ASSUME TrailInv, NEW r \in Records, NEW name \in Names, CreateRecord(r, name)
    PROVE  TrailTyped' /\ TrailTells'
<1> DEFINE row == [key |-> <<name>>, status |-> "on", deleted |-> FALSE]
           e == Event(r, "created", NoSnapshot, snapshot(row))
<1>1. WriteRow(r, row, <<e>>) /\ resource \in MasterData /\ r \notin DOMAIN rows /\ r \in Int /\ name \in Int
  BY RegistryAssumption DEF CreateRecord
<1>2. /\ e \in Events /\ e.record = r /\ e.action = "created" /\ e.before = NoSnapshot
      /\ e.after = [name |-> name, status |-> "on"]
  BY <1>1 DEF Event, Events, NoSnapshot, snapshot
<1>3. ToldOf(Now, r) = [is |-> NoSnapshot, deleted |-> FALSE]
  BY <1>1, WordsTyped DEF TrailInv
<1>4. Told(row) = [is |-> e.after, deleted |-> FALSE]
  BY <1>2 DEF Told, snapshot
<1> HIDE DEF e, row
<1>5. Tell(Now, e) = With(Now, r, [is |-> e.after, deleted |-> FALSE])
  BY <1>2, <1>3, ChangeSays
<1>6. QED BY <1>1, <1>2, <1>4, <1>5, OneTold

\* A record is deleted.
LEMMA DeleteTells ==
    ASSUME TrailInv, NEW r \in DOMAIN rows, SoftDeleteRecord(r)
    PROVE  TrailTyped' /\ TrailTells'
<1> DEFINE row == [rows[r] EXCEPT !.deleted = TRUE]
           is == [name |-> rows[r].key[1], status |-> rows[r].status]
           e == Event(r, "deleted", snapshot(rows[r]), NoSnapshot)
<1>1. WriteRow(r, row, <<e>>) /\ resource \in MasterData /\ ~rows[r].deleted
  BY DEF SoftDeleteRecord
<1>2. /\ r \in Int /\ rows[r] \in RowFields /\ rows[r].key[1] \in Int /\ rows[r].status \in {"on", "off"}
      /\ rows[r].deleted \in BOOLEAN /\ ToldOf(Now, r) = [is |-> is, deleted |-> rows[r].deleted]
  BY <1>1, WordsTyped DEF TrailInv
<1>3. e \in Events /\ e.record = r /\ e.action = "deleted" /\ e.before = is
  BY <1>2 DEF Event, Events, NoSnapshot, snapshot
<1>4. ToldOf(Now, r) = [is |-> is, deleted |-> FALSE]
  <2>1. rows[r].deleted = FALSE
    BY <1>1, <1>2
  <2>2. QED BY <1>2, <2>1
<1>5. row.key = rows[r].key /\ row.status = rows[r].status /\ row.deleted = TRUE
  BY <1>2 DEF RowFields
<1> HIDE DEF row
<1>6. Told(row) = [is |-> is, deleted |-> TRUE]
  BY <1>5 DEF Told, snapshot
<1> HIDE DEF e, is
<1>7. Tell(Now, e) = With(Now, r, [is |-> is, deleted |-> TRUE])
  BY <1>3, <1>4, DeletionSays
<1>8. QED BY <1>1, <1>3, <1>6, <1>7, OneTold

\* A record is restored.
LEMMA RestoreTells ==
    ASSUME TrailInv, NEW r \in DOMAIN rows, RestoreRecord(r)
    PROVE  TrailTyped' /\ TrailTells'
<1> DEFINE row == [rows[r] EXCEPT !.deleted = FALSE, !.status = "off"]
           is == [name |-> rows[r].key[1], status |-> rows[r].status]
           e == Event(r, "restored", snapshot(rows[r]), snapshot(row))
<1>1. WriteRow(r, row, <<e>>) /\ resource \in MasterData /\ rows[r].deleted
  BY DEF RestoreRecord
<1>2. /\ r \in Int /\ rows[r] \in RowFields /\ rows[r].key[1] \in Int /\ rows[r].status \in {"on", "off"}
      /\ rows[r].deleted \in BOOLEAN /\ ToldOf(Now, r) = [is |-> is, deleted |-> rows[r].deleted]
  BY <1>1, WordsTyped DEF TrailInv
<1>3. ToldOf(Now, r) = [is |-> is, deleted |-> TRUE]
  <2>1. rows[r].deleted = TRUE
    BY <1>1, <1>2
  <2>2. QED BY <1>2, <2>1
<1>4. row.key = rows[r].key /\ row.status = "off" /\ row.deleted = FALSE
  BY <1>2 DEF RowFields
<1> HIDE DEF row
<1>5. snapshot(row) = [name |-> rows[r].key[1], status |-> "off"] /\ snapshot(rows[r]) = is
  BY <1>4 DEF snapshot
<1>6. /\ e \in Events /\ e.record = r /\ e.action = "restored" /\ e.before = is
      /\ e.after = snapshot(row)
  BY <1>2, <1>5 DEF Event, Events
<1>7. Told(row) = [is |-> snapshot(row), deleted |-> FALSE]
  BY <1>4 DEF Told
<1> HIDE DEF e, is
<1>8. Tell(Now, e) = With(Now, r, [is |-> e.after, deleted |-> FALSE])
  BY <1>3, <1>6, RestoreSays
<1>9. QED BY <1>1, <1>6, <1>7, <1>8, OneTold

\* Two events written one after the other are two events.
LEMMA TwoInRow == ASSUME NEW e, NEW f PROVE <<e>> \o <<f>> = <<e, f>>
<1>1. /\ <<e>> \o <<f>> \in Seq({e, f}) /\ Len(<<e>> \o <<f>>) = 2
      /\ (<<e>> \o <<f>>)[1] = e /\ (<<e>> \o <<f>>)[2] = f
  OBVIOUS
<1>2. <<e, f>> \in Seq({e, f}) /\ Len(<<e, f>>) = 2 /\ <<e, f>>[1] = e /\ <<e, f>>[2] = f
  OBVIOUS
<1>3. \A s, t \in Seq({e, f}) : Len(s) = 2 /\ Len(t) = 2 /\ s[1] = t[1] /\ s[2] = t[2] => s = t
  BY SeqEqual
<1>4. QED BY <1>1, <1>2, <1>3

\* A record is renamed, or its status changed, or both, or neither.
LEMMA UpdateTells ==
    ASSUME TrailInv, NEW r \in DOMAIN rows, NEW name \in Names, NEW s \in {"on", "off"},
           UpdateRecord(r, name, s)
    PROVE  TrailTyped' /\ TrailTells'
<1> DEFINE old == rows[r]
           renamed == [old EXCEPT !.key = <<name>>]
           row == [renamed EXCEPT !.status = s]
           e == Event(r, "updated", snapshot(old), snapshot(renamed))
           f == StatusEvent(r, old.status, s)
           one == IF name = old.key[1] THEN <<>> ELSE <<e>>
           two == IF s = old.status THEN <<>> ELSE <<f>>
           was == [name |-> old.key[1], status |-> old.status]
           mid == [name |-> name, status |-> old.status]
           is == [name |-> name, status |-> s]
<1>1. WriteRow(r, row, one \o two) /\ resource \in MasterData /\ ~old.deleted /\ name \in Int
  BY RegistryAssumption DEF UpdateRecord
<1>2. /\ r \in Int /\ old \in RowFields /\ old.key \in Seq(Int) /\ Len(old.key) = 1
      /\ old.key[1] \in Int /\ old.status \in {"on", "off"} /\ old.deleted = FALSE
  BY <1>1, WordsTyped DEF TrailInv
<1>3. ToldOf(Now, r) = [is |-> was, deleted |-> FALSE]
  <2>1. ToldOf(Now, r) = [is |-> was, deleted |-> old.deleted]
    BY <1>1, WordsTyped DEF TrailInv
  <2>2. QED BY <1>2, <2>1
<1>4. /\ renamed.key = <<name>> /\ renamed.status = old.status
      /\ row.key = <<name>> /\ row.status = s /\ row.deleted = FALSE
  <2>1. <<name>> \in Seq(Int)
    BY <1>1
  <2>2. renamed \in RowFields /\ renamed.key = <<name>> /\ renamed.status = old.status /\ renamed.deleted = FALSE
    BY <1>2, <2>1 DEF RowFields
  <2> HIDE DEF renamed
  <2>3. row.key = <<name>> /\ row.status = s /\ row.deleted = FALSE
    BY <2>2 DEF RowFields
  <2>4. QED BY <2>2, <2>3
<1>5. CASE name = old.key[1] /\ s = old.status
  <2>1. one \o two = <<>>
    BY <1>5
  <2>2. old.key = <<name>>
    BY <1>2, <1>5
  <2>3. row = old
    BY <1>2, <1>5, <2>2 DEF RowFields
  <2>4. QED
    <3> HIDE DEF one, two, row
    <3>1. QED BY <1>1, <2>1, <2>3, NothingTold
<1> HIDE DEF renamed, row
<1>6. Told(row) = [is |-> is, deleted |-> FALSE] /\ snapshot(old) = was /\ snapshot(renamed) = mid
  <2>1. Told(row) = [is |-> [name |-> row.key[1], status |-> row.status], deleted |-> row.deleted]
    BY DEF Told, snapshot
  <2>2. snapshot(renamed) = [name |-> renamed.key[1], status |-> renamed.status]
    BY DEF snapshot
  <2>3. row.key[1] = name /\ renamed.key[1] = name
    BY <1>4
  <2>4. snapshot(old) = was
    BY DEF snapshot
  <2>5. QED BY <1>4, <2>1, <2>2, <2>3, <2>4
<1>7. /\ e \in Events /\ e.record = r /\ e.action = "updated" /\ e.before = was /\ e.after = mid
  <2>1. QED BY <1>1, <1>2, <1>6 DEF Event, Events
<1>8. /\ f \in Events /\ f.record = r /\ f.action = "status_changed" /\ f.before.status = old.status
      /\ f.after.status = s
  BY <1>2 DEF StatusEvent, Event, Events, NoSnapshot
<1> HIDE DEF e, f
<1>9. CASE name # old.key[1] /\ s # old.status
  <2>1. one = <<e>> /\ two = <<f>>
    BY <1>9
  <2>2. one \o two = <<e, f>>
    <3> HIDE DEF one, two
    <3>1. QED BY <2>1, TwoInRow
  <2>3. Tell(Now, e) = With(Now, r, [is |-> mid, deleted |-> FALSE])
    <3> HIDE DEF was, mid
    <3>1. QED BY <1>3, <1>7, ChangeSays
  <2>4. ToldOf(With(Now, r, [is |-> mid, deleted |-> FALSE]), r) = [is |-> mid, deleted |-> FALSE]
    BY DEF ToldOf, With
  <2>5. mid.status = old.status /\ [mid EXCEPT !.status = s] = is
    OBVIOUS
  <2>6. Tell(With(Now, r, [is |-> mid, deleted |-> FALSE]), f)
          = With(With(Now, r, [is |-> mid, deleted |-> FALSE]), r, [is |-> is, deleted |-> FALSE])
    <3>1. is = [mid EXCEPT !.status = f.after.status]
      BY <1>8, <2>5
    <3> HIDE DEF mid, is
    <3>2. QED BY <1>8, <2>4, <2>5, <3>1, StatusSays
  <2>7. Tell(Tell(Now, e), f) = With(Now, r, [is |-> is, deleted |-> FALSE])
    <3> HIDE DEF mid, is
    <3>1. QED BY <2>3, <2>6, LastWord
  <2>8. QED
    <3> HIDE DEF mid, is, old, one, two
    <3>1. QED BY <1>1, <1>6, <1>7, <1>8, <2>2, <2>7, BothTold
<1>10. CASE name # old.key[1] /\ s = old.status
  <2>1. one \o two = <<e>>
    BY <1>10
  <2>2. mid = is
    BY <1>10
  <2>3. Tell(Now, e) = With(Now, r, [is |-> is, deleted |-> FALSE])
    <3> HIDE DEF was, mid, is
    <3>1. QED BY <1>3, <1>7, <2>2, ChangeSays
  <2>4. QED
    <3> HIDE DEF is, old, one, two
    <3>1. QED BY <1>1, <1>6, <1>7, <2>1, <2>3, OneTold
<1>11. CASE name = old.key[1] /\ s # old.status
  <2>1. one \o two = <<f>>
    BY <1>11
  <2>2. was.status = old.status /\ [was EXCEPT !.status = s] = is
    BY <1>11
  <2>3. Tell(Now, f) = With(Now, r, [is |-> is, deleted |-> FALSE])
    <3>1. is = [was EXCEPT !.status = f.after.status]
      BY <1>8, <2>2
    <3> HIDE DEF was, is
    <3>2. QED BY <1>3, <1>8, <2>2, <3>1, StatusSays
  <2>4. QED
    <3> HIDE DEF is, old, one, two
    <3>1. QED BY <1>1, <1>6, <1>8, <2>1, <2>3, OneTold
<1>12. QED BY <1>5, <1>9, <1>10, <1>11

\* Every step of the registry leaves a trail that tells its records.
LEMMA TrailInvGoesOn == TrailInv /\ [RegistryNext]_registryVars => TrailInv'
<1> SUFFICES ASSUME TrailInv, [RegistryNext]_registryVars
             PROVE  TrailInv'
  OBVIOUS
<1>1. CASE \/ \E r \in Records, name \in Names : CreateRecord(r, name)
           \/ \E r \in DOMAIN rows, name \in Names, s \in {"on", "off"} : UpdateRecord(r, name, s)
           \/ \E r \in DOMAIN rows : SoftDeleteRecord(r) \/ RestoreRecord(r)
           \/ \E r \in Records, key \in {<<m>> : m \in Names} \cup (Names \X Names), s \in {"on", "off"} :
                  OtherRecord(r, key, s)
  <2>1. RegistryTyped'
    <3>1. PICK r, row : Edits(r, row)
      BY <1>1, CommandsEdit DEF TrailInv
    <3>2. QED BY <3>1, EditsType DEF TrailInv
  <2>2. TrailTyped' /\ TrailTells'
    <3>1. CASE \E r \in Records, name \in Names : CreateRecord(r, name)
      BY <3>1, CreateTells
    <3>2. CASE \E r \in DOMAIN rows, name \in Names, s \in {"on", "off"} : UpdateRecord(r, name, s)
      BY <3>2, UpdateTells
    <3>3. CASE \E r \in DOMAIN rows : SoftDeleteRecord(r) \/ RestoreRecord(r)
      BY <3>3, DeleteTells, RestoreTells
    <3>4. CASE \E r \in Records, key \in {<<m>> : m \in Names} \cup (Names \X Names), s \in {"on", "off"} :
                   OtherRecord(r, key, s)
      <4>1. resource \notin MasterData /\ resource' = resource
        BY <3>4 DEF OtherRecord, WriteRow
      <4>2. QED BY <4>1 DEF TrailTyped, TrailTells
    <3>5. QED BY <1>1, <3>1, <3>2, <3>3, <3>4
  <2>3. QED BY <2>1, <2>2 DEF TrailInv
<1>2. ASSUME UNCHANGED <<resource, rows, trail>>
      PROVE  TrailInv'
  BY <1>2 DEF TrailInv, RegistryTyped, Depth, TrailTyped, TrailTells, Told, snapshot
<1>3. CASE (\E w \in Views : OpenList(w)) \/ TurnPage("next") \/ TurnPage("previous") \/ LeaveList
  BY <1>2, <1>3 DEF OpenList, TurnPage, LeaveList
<1>4. CASE UNCHANGED registryVars
  BY <1>2, <1>4 DEF registryVars
<1>5. QED BY <1>1, <1>3, <1>4 DEF RegistryNext

\* Whatever sequence of commands made the offices, drivers or vehicles what they are,
\* its audit events retell it: each event's before-picture is what the events before it
\* left, and after the last every row is as told.
THEOREM TrailRetellsRecords == RegistrySpec => []TrailTells
<1>1. RegistryInit => TrailInv
  <2> SUFFICES ASSUME RegistryInit
               PROVE  TrailInv
    OBVIOUS
  <2>1. RegistryTyped
    BY FirstTyped
  <2>2. TrailTyped
    BY DEF RegistryInit, TrailTyped
  <2>3. TrailTells
    <3>1. FoldLeft(Tell, AtFirst(resource), trail) = AtFirst(resource)
      BY TrailOfNone DEF RegistryInit
    <3>2. QED BY <3>1 DEF RegistryInit, TrailTells, AtFirst
  <2>4. QED BY <2>1, <2>2, <2>3 DEF TrailInv
<1>2. TrailInv => TrailTells
  BY DEF TrailInv
<1>3. QED BY <1>1, <1>2, TrailInvGoesOn, PTL DEF RegistrySpec

(***************************************************************************)
(* The screens, the forms on them and the navigations on their way: what   *)
(* they agree on, and what follows for the token of a form, the freshness  *)
(* of the screen after a form was saved, the way into and out of the       *)
(* protected screens, and what the screens offer.                          *)
(***************************************************************************)
\* The two screens of a dispatch and of an issuance, and the forms of signing in.
DispatchPlaces == {"dispatch", "edit of dispatch"}
IssuancePlaces == {"issuance", "edit of issuance"}
PublicForms == {LoginForm, PasswordChangeForm, TotpChallengeForm, TotpEnrollmentForm}
PublicIds == {"sign in", "change password", "verify code", "enroll"}
\* A request, and all requests of a control, that only a session may send.
OnSession(route) == route.by = {"SESSION"}
FromSession(c) ==
    /\ \A i \in DOMAIN c.sends : OnSession(c.sends[i])
    /\ Len(c.sends) \in {1, 2} /\ DOMAIN c.sends = 1 .. Len(c.sends)
    /\ c.id \notin PublicIds
    /\ c.token \in {"page", "fresh"}

\* A record has one or two screens.
LEMMA SameRecordCases ==
    \A p, q : SameRecord(p, q) <=> \/ p = q
                                   \/ p \in DispatchPlaces /\ q \in DispatchPlaces
                                   \/ p \in IssuancePlaces /\ q \in IssuancePlaces
<1> SUFFICES ASSUME NEW p, NEW q
             PROVE  SameRecord(p, q) <=> \/ p = q
                                         \/ p \in DispatchPlaces /\ q \in DispatchPlaces
                                         \/ p \in IssuancePlaces /\ q \in IssuancePlaces
  OBVIOUS
<1>1. {p, q} = {"dispatch", "edit of dispatch"}
        => p \in DispatchPlaces /\ q \in DispatchPlaces
  BY DEF DispatchPlaces
<1>2. {p, q} = {"issuance", "edit of issuance"}
        => p \in IssuancePlaces /\ q \in IssuancePlaces
  BY DEF IssuancePlaces
<1>3. p # q /\ p \in DispatchPlaces /\ q \in DispatchPlaces
        => {p, q} = {"dispatch", "edit of dispatch"}
  <2>1. p # q /\ p \in DispatchPlaces /\ q \in DispatchPlaces
          => \A x : x \in {p, q} <=> x \in {"dispatch", "edit of dispatch"}
    BY DEF DispatchPlaces
  <2>2. QED BY <2>1
<1>4. p # q /\ p \in IssuancePlaces /\ q \in IssuancePlaces
        => {p, q} = {"issuance", "edit of issuance"}
  <2>1. p # q /\ p \in IssuancePlaces /\ q \in IssuancePlaces
          => \A x : x \in {p, q} <=> x \in {"issuance", "edit of issuance"}
    BY DEF IssuancePlaces
  <2>2. QED BY <2>1
<1>5. QED BY <1>1, <1>2, <1>3, <1>4 DEF SameRecord

\* A page form is what it is made of.
LEMMA PageFormFields ==
    ASSUME NEW id, NEW route, NEW then, NEW moves
    PROVE  /\ PageForm(id, route, then, moves).id = id
           /\ PageForm(id, route, then, moves).token = "page"
           /\ PageForm(id, route, then, moves).sends = <<route>>
           /\ PageForm(id, route, then, moves).then = then
           /\ PageForm(id, route, then, moves).moves = moves
BY DEF PageForm, Control

\* So is a form that asks for its own token.
LEMMA FreshFormFields ==
    ASSUME NEW id, NEW route, NEW then, NEW moves
    PROVE  /\ FreshForm(id, route, then, moves).id = id
           /\ FreshForm(id, route, then, moves).token = "fresh"
           /\ FreshForm(id, route, then, moves).sends = <<route>>
           /\ FreshForm(id, route, then, moves).then = then
           /\ FreshForm(id, route, then, moves).moves = moves
BY DEF FreshForm, Control

\* A control asks for a session when its one or two requests do.
LEMMA OneRequest ==
    ASSUME NEW c, NEW first, c.sends = <<first>>, OnSession(first),
           c.id \notin PublicIds, c.token \in {"page", "fresh"}
    PROVE  FromSession(c)
<1>1. Len(<<first>>) = 1 /\ DOMAIN <<first>> = 1 .. 1 /\ <<first>>[1] = first
  OBVIOUS
<1>2. QED BY <1>1 DEF FromSession

\* The same, for a control of two requests.
LEMMA TwoRequests ==
    ASSUME NEW c, NEW first, NEW second, c.sends = <<first, second>>, OnSession(first),
           OnSession(second), c.id \notin PublicIds, c.token \in {"page", "fresh"}
    PROVE  FromSession(c)
<1>1. /\ Len(<<first, second>>) = 2 /\ DOMAIN <<first, second>> = 1 .. 2
      /\ <<first, second>>[1] = first /\ <<first, second>>[2] = second
  OBVIOUS
<1>2. QED BY <1>1 DEF FromSession

\* A page form of such a request asks for a session,
LEMMA PageFormFromSession ==
    ASSUME NEW id, NEW route, NEW then, NEW moves, OnSession(route), id \notin PublicIds
    PROVE  FromSession(PageForm(id, route, then, moves))
<1> DEFINE c == PageForm(id, route, then, moves)
<1>1. c.id = id /\ c.token = "page" /\ c.sends = <<route>>
  BY PageFormFields
<1>2. FromSession(c)
  <2> HIDE DEF c
  <2>1. QED BY <1>1, OneRequest
<1>3. QED BY <1>2

\* and so does one that asks for its own token.
LEMMA FreshFormFromSession ==
    ASSUME NEW id, NEW route, NEW then, NEW moves, OnSession(route), id \notin PublicIds
    PROVE  FromSession(FreshForm(id, route, then, moves))
<1> DEFINE c == FreshForm(id, route, then, moves)
<1>1. c.id = id /\ c.token = "fresh" /\ c.sends = <<route>>
  BY FreshFormFields
<1>2. FromSession(c)
  <2> HIDE DEF c
  <2>1. QED BY <1>1, OneRequest
<1>3. QED BY <1>2

\* Every request but those of signing in is one of a session.
LEMMA WritesAskSession ==
    \A needs, within : /\ OnSession(Write(needs))
                       /\ OnSession(Get(needs))
                       /\ OnSession(Inside(Write(needs), within))
                       /\ OnSession(Inside(Get(needs), within))
BY DEF Write, Get, Inside, Route, OnSession

\* The addresses with a page of their own.
KnownScreens == {"dispatches", "new dispatch", "dispatch", "edit of dispatch", "schedule",
           "schedule settings", "issuances", "new issuance", "issuance", "edit of issuance",
           "balances", "allocations", "allocation", "offices", "office", "drivers", "driver",
           "vehicles", "vehicle", "users", "user", "roles", "role", "security", "audit",
           "event", "reports", "account", "login", "password change", "verification",
           "enrollment"}
\* Any other address shows the refusal of access.
LEMMA PageElsewhere ==
    ASSUME NEW g, NEW p, NEW s, NEW a, p \notin KnownScreens
    PROVE  Page(g, p, s, a) = DeniedPage
BY DEF Page, KnownScreens

RecordPlaces == {"dispatch", "issuance", "allocation", "office", "driver", "vehicle", "role"}
\* A form of a screen that takes a token, done with it when the screen or its record is shown.
Plain(c, then) == FromSession(c) /\ c.token = "page" /\ c.then = then

\* A page form of a request that asks for a session is plain.
LEMMA PageFormPlain ==
    ASSUME NEW id, NEW route, NEW then, NEW moves, OnSession(route),
           id \notin PublicIds
    PROVE  Plain(PageForm(id, route, then, moves), then)
BY PageFormFromSession, PageFormFields DEF Plain

\* None of these forms is one of signing in.
LEMMA OtherIds ==
    /\ "create issuance" \notin PublicIds /\ "edit issuance" \notin PublicIds
    /\ "post" \notin PublicIds /\ "void" \notin PublicIds
    /\ "create dispatch" \notin PublicIds /\ "schedule settings" \notin PublicIds
    /\ "create allocation" \notin PublicIds /\ "edit allocation" \notin PublicIds
    /\ "activate" \notin PublicIds /\ "cancel" \notin PublicIds
    /\ "close" \notin PublicIds /\ "delete" \notin PublicIds
    /\ "restore" \notin PublicIds /\ "create office" \notin PublicIds
    /\ "create driver" \notin PublicIds /\ "create vehicle" \notin PublicIds
    /\ "edit office" \notin PublicIds /\ "edit driver" \notin PublicIds
    /\ "edit vehicle" \notin PublicIds /\ "create user" \notin PublicIds
    /\ "edit user" \notin PublicIds /\ "assign roles" \notin PublicIds
    /\ "reset password" \notin PublicIds /\ "reset factor" \notin PublicIds
    /\ "revoke sessions" \notin PublicIds /\ "restore user" \notin PublicIds
    /\ "delete user" \notin PublicIds /\ "create role" \notin PublicIds
    /\ "edit role" \notin PublicIds /\ "dispatch vehicle" \notin PublicIds
    /\ "complete" \notin PublicIds /\ "edit dispatch" \notin PublicIds
    /\ "require factor" \notin PublicIds /\ "waive factor" \notin PublicIds
    /\ "export" \notin PublicIds /\ "download" \notin PublicIds
    /\ "sign out" \notin PublicIds
BY DEF PublicIds

\* The routes that the forms of the screens use are those of a session.
LEMMA RoutesOfRecords ==
    /\ OnSession(UpdateScheduleSettings)
    /\ OnSession(CreateFuel) /\ OnSession(UpdateFuel)
    /\ OnSession(PostFuel) /\ OnSession(VoidFuel)
    /\ OnSession(CreateBudget) /\ OnSession(UpdateBudget)
    /\ OnSession(DeleteBudget) /\ OnSession(RestoreBudget)
BY WritesAskSession
   DEF UpdateScheduleSettings, DispatchRequest, CreateFuel, UpdateFuel, PostFuel, VoidFuel,
       FuelRequest, CreateBudget, UpdateBudget, DeleteBudget, RestoreBudget, BudgetRequest

\* Nor does anybody change an office, a driver or a vehicle without a session,
LEMMA RoutesOfReferences ==
    /\ OnSession(CreateOffice) /\ OnSession(UpdateOffice)
    /\ OnSession(DeleteOffice) /\ OnSession(RestoreOffice)
    /\ OnSession(CreateDriver) /\ OnSession(UpdateDriver)
    /\ OnSession(DeleteDriver) /\ OnSession(RestoreDriver)
    /\ OnSession(CreateVehicle) /\ OnSession(UpdateVehicle)
    /\ OnSession(DeleteVehicle) /\ OnSession(RestoreVehicle)
BY WritesAskSession
   DEF ReferenceRequest, CreateOffice, UpdateOffice, DeleteOffice, RestoreOffice, CreateDriver,
       UpdateDriver, DeleteDriver, RestoreDriver, CreateVehicle, UpdateVehicle, DeleteVehicle,
       RestoreVehicle

\* a user, a role or a setting, nor ask for a report.
LEMMA RoutesOfUsers ==
    /\ OnSession(RestoreUser) /\ OnSession(RevokeSessions)
    /\ OnSession(AssignPermissions) /\ OnSession(UpdateAuthSettings)
    /\ \A x : /\ OnSession(CreateUser(x)) /\ OnSession(UpdateUser(x))
              /\ OnSession(DeleteUser(x)) /\ OnSession(ResetPassword(x))
              /\ OnSession(ResetTotp(x)) /\ OnSession(CreateRole(x))
              /\ OnSession(UpdateRole(x)) /\ OnSession(RequestExport(x))
              /\ OnSession(DownloadLink(x)) /\ OnSession(Download(x))
              /\ \A y : OnSession(AssignUserRoles(x, y))
BY WritesAskSession
   DEF RestoreUser, RevokeSessions, AssignPermissions, UpdateAuthSettings, CreateUser,
       UpdateUser, DeleteUser, ResetPassword, ResetTotp, CreateRole, UpdateRole, RequestExport,
       DownloadLink, Download, AssignUserRoles

\* The forms of all screens but those of a dispatch, the reports and the settings of signing in.
LEMMA PlainFuel ==
    /\ Plain(FuelDraftCreate, "issuance") /\ Plain(FuelDraftEdit, "issuance")
    /\ Plain(FuelPost, "refresh") /\ Plain(FuelVoid, "refresh")
    /\ Plain(DispatchDraftCreate, "dispatch") /\ Plain(ScheduleSettingsForm, "refresh")
<1>1. Plain(FuelDraftCreate, "issuance")
  BY RoutesOfRecords, PageFormPlain, OtherIds DEF FuelDraftCreate
<1>2. Plain(FuelDraftEdit, "issuance")
  BY RoutesOfRecords, PageFormPlain, OtherIds DEF FuelDraftEdit
<1>3. Plain(FuelPost, "refresh")
  BY RoutesOfRecords, PageFormPlain, OtherIds DEF FuelPost
<1>4. Plain(FuelVoid, "refresh")
  BY RoutesOfRecords, PageFormPlain, OtherIds DEF FuelVoid
<1>5. Plain(ScheduleSettingsForm, "refresh")
  BY RoutesOfRecords, PageFormPlain, OtherIds DEF ScheduleSettingsForm
<1>6. OnSession(CreateDispatch)
  BY WritesAskSession DEF CreateDispatch, DispatchRequest
<1>7. Plain(DispatchDraftCreate, "dispatch")
  BY <1>6, PageFormPlain, OtherIds DEF DispatchDraftCreate
<1>8. QED BY <1>1, <1>2, <1>3, <1>4, <1>5, <1>7

\* The forms of an allocation are plain.
LEMMA PlainBudget ==
    /\ Plain(BudgetCreateForm, "allocation") /\ Plain(BudgetEditForm, "refresh")
    /\ Plain(BudgetActivate, "refresh") /\ Plain(BudgetCancel, "refresh")
    /\ Plain(BudgetClose, "refresh") /\ Plain(BudgetDelete, "refresh")
    /\ Plain(BudgetRestore, "refresh")
<1>1. Plain(BudgetCreateForm, "allocation")
  BY RoutesOfRecords, PageFormPlain, OtherIds DEF BudgetCreateForm
<1>2. Plain(BudgetEditForm, "refresh")
  BY RoutesOfRecords, PageFormPlain, OtherIds DEF BudgetEditForm, BudgetTransition
<1>3. Plain(BudgetActivate, "refresh")
  BY RoutesOfRecords, PageFormPlain, OtherIds DEF BudgetActivate, BudgetTransition
<1>4. Plain(BudgetCancel, "refresh")
  BY RoutesOfRecords, PageFormPlain, OtherIds DEF BudgetCancel, BudgetTransition
<1>5. Plain(BudgetClose, "refresh")
  BY RoutesOfRecords, PageFormPlain, OtherIds DEF BudgetClose, BudgetTransition
<1>6. Plain(BudgetDelete, "refresh")
  BY RoutesOfRecords, PageFormPlain, OtherIds DEF BudgetDelete, BudgetTransition
<1>7. Plain(BudgetRestore, "refresh")
  BY RoutesOfRecords, PageFormPlain, OtherIds DEF BudgetRestore, BudgetTransition
<1>8. QED BY <1>1, <1>2, <1>3, <1>4, <1>5, <1>6, <1>7

\* So are those of offices, drivers and vehicles,
LEMMA PlainReferences ==
    /\ Plain(OfficeCreateForm, "office") /\ Plain(OfficeEditForm, "refresh")
    /\ Plain(DriverCreateForm, "driver") /\ Plain(DriverEditForm, "refresh")
    /\ Plain(VehicleCreateForm, "vehicle") /\ Plain(VehicleEditForm, "refresh")
    /\ \A s : /\ \A c \in ReferenceLifecycle(s, DeleteOffice, RestoreOffice) : Plain(c, "refresh")
              /\ \A c \in ReferenceLifecycle(s, DeleteDriver, RestoreDriver) : Plain(c, "refresh")
              /\ \A c \in ReferenceLifecycle(s, DeleteVehicle, RestoreVehicle) : Plain(c, "refresh")
<1>1. Plain(OfficeCreateForm, "office")
  BY RoutesOfReferences, PageFormPlain, OtherIds DEF OfficeCreateForm
<1>2. Plain(OfficeEditForm, "refresh")
  BY RoutesOfReferences, PageFormPlain, OtherIds DEF OfficeEditForm
<1>3. Plain(DriverCreateForm, "driver")
  BY RoutesOfReferences, PageFormPlain, OtherIds DEF DriverCreateForm
<1>4. Plain(DriverEditForm, "refresh")
  BY RoutesOfReferences, PageFormPlain, OtherIds DEF DriverEditForm
<1>5. Plain(VehicleCreateForm, "vehicle")
  BY RoutesOfReferences, PageFormPlain, OtherIds DEF VehicleCreateForm
<1>6. Plain(VehicleEditForm, "refresh")
  BY RoutesOfReferences, PageFormPlain, OtherIds DEF VehicleEditForm
<1>7. \A s : \A c \in ReferenceLifecycle(s, DeleteOffice, RestoreOffice) : Plain(c, "refresh")
  BY RoutesOfReferences, PageFormPlain, OtherIds DEF ReferenceLifecycle
<1>8. \A s : \A c \in ReferenceLifecycle(s, DeleteDriver, RestoreDriver) : Plain(c, "refresh")
  BY RoutesOfReferences, PageFormPlain, OtherIds DEF ReferenceLifecycle
<1>9. \A s : \A c \in ReferenceLifecycle(s, DeleteVehicle, RestoreVehicle) : Plain(c, "refresh")
  BY RoutesOfReferences, PageFormPlain, OtherIds DEF ReferenceLifecycle
<1>10. QED BY <1>1, <1>2, <1>3, <1>4, <1>5, <1>6, <1>7, <1>8, <1>9

\* those of a user and the one that makes a role,
LEMMA PlainUsers ==
    ASSUME NEW g, NEW a, NEW s
    PROVE  /\ Plain(UserForm(a), "refresh") /\ Plain(UserIdentityForm(a), "refresh")
           /\ Plain(UserRoleForm(a), "refresh") /\ Plain(PasswordReset(a), "refresh")
           /\ Plain(TotpReset(a), "refresh") /\ Plain(Revocation, "refresh")
           /\ \A c \in UserLifecycle(a, s) : Plain(c, "refresh")
           /\ Plain(RoleCreateForm(g, a), "role")
<1>1. Plain(UserForm(a), "refresh")
  BY RoutesOfUsers, PageFormPlain, OtherIds DEF UserForm
<1>2. Plain(UserIdentityForm(a), "refresh")
  BY RoutesOfUsers, PageFormPlain, OtherIds DEF UserIdentityForm
<1>3. Plain(UserRoleForm(a), "refresh")
  BY RoutesOfUsers, PageFormPlain, OtherIds DEF UserRoleForm
<1>4. Plain(PasswordReset(a), "refresh")
  BY RoutesOfUsers, PageFormPlain, OtherIds DEF PasswordReset
<1>5. Plain(TotpReset(a), "refresh")
  BY RoutesOfUsers, PageFormPlain, OtherIds DEF TotpReset
<1>6. Plain(Revocation, "refresh")
  BY RoutesOfUsers, PageFormPlain, OtherIds DEF Revocation
<1>7. Plain(RoleCreateForm(g, a), "role")
  BY RoutesOfUsers, PageFormPlain, OtherIds DEF RoleCreateForm
<1>8. \A c \in UserLifecycle(a, s) : Plain(c, "refresh")
  BY RoutesOfUsers, PageFormPlain, OtherIds DEF UserLifecycle
<1>9. QED BY <1>1, <1>2, <1>3, <1>4, <1>5, <1>6, <1>7, <1>8

\* and the form of a role, which sends two requests.
LEMMA PlainRoleEdit ==
    ASSUME NEW g, NEW a
    PROVE  Plain(RoleEditForm(g, a), "refresh")
<1> DEFINE c == RoleEditForm(g, a)
           first == UpdateRole(a.privileged /\ ~CanTick(g))
<1>1. /\ c.id = "edit role" /\ c.token = "page" /\ c.then = "refresh"
      /\ c.sends = <<first, AssignPermissions>>
  BY DEF RoleEditForm, Control
<1>2. OnSession(first) /\ OnSession(AssignPermissions)
  BY RoutesOfUsers
<1>3. Plain(c, "refresh")
  <2> HIDE DEF c, first
  <2>1. FromSession(c)
    BY <1>1, <1>2, OtherIds, TwoRequests
  <2>2. QED BY <1>1, <2>1 DEF Plain
<1>4. QED BY <1>3

\* Where a form of a screen leads that does not stay on it.
Onto(p, then) ==
    \/ then = "refresh"
    \/ p = "new dispatch" /\ then = "dispatch"
    \/ p \in {"new issuance", "edit of issuance"} /\ then = "issuance"
    \/ p = "allocations" /\ then = "allocation"
    \/ p = "offices" /\ then = "office"
    \/ p = "drivers" /\ then = "driver"
    \/ p = "vehicles" /\ then = "vehicle"
    \/ p = "roles" /\ then = "role"

\* What the screens offer, screen by screen.
LEMMA PlainOffers ==
    ASSUME NEW g, NEW p, NEW s, NEW a, NEW c \in Page(g, p, s, a).offers,
           Protected(p), p \notin DispatchPlaces \cup {"reports", "security"}
    PROVE  FromSession(c) /\ c.token = "page" /\ Onto(p, c.then)
<1> USE DEF Onto, Plain
<1>1. CASE p \in {"dispatches", "schedule"}
  <2>1. Page(g, p, s, a) \in {DispatchesPage(g), SchedulePage}
    BY <1>1 DEF Page
  <2>2. DispatchesPage(g).offers = {} /\ SchedulePage.offers = {}
    BY DEF DispatchesPage, SchedulePage, Screen
  <2>3. QED BY <2>1, <2>2
<1>2. CASE p = "new dispatch"
  <2>1. Page(g, p, s, a).offers = {DispatchDraftCreate}
    BY <1>2 DEF Page, NewDispatchPage, Screen
  <2>2. QED BY <1>2, <2>1, PlainFuel
<1>3. CASE p = "schedule settings"
  <2>1. Page(g, p, s, a).offers = {ScheduleSettingsForm}
    BY <1>3 DEF Page, ScheduleSettingsPage, Screen
  <2>2. QED BY <1>3, <2>1, PlainFuel
<1>4. CASE p \in {"issuances", "balances"}
  <2>1. Page(g, p, s, a).offers = {}
    BY <1>4 DEF Page, IssuancesPage, BalancesPage, Screen
  <2>2. QED BY <2>1
<1>5. CASE p = "new issuance"
  <2>1. Page(g, p, s, a).offers = {FuelDraftCreate}
    BY <1>5 DEF Page, NewIssuancePage, Screen
  <2>2. QED BY <1>5, <2>1, PlainFuel
<1>6. CASE p \in IssuancePlaces
  <2>1. IssuancePage(g, s).offers \subseteq {FuelPost, FuelVoid}
    BY DEF IssuancePage, IssuanceDetail, Of, Screen
  <2>2. \/ p = "edit of issuance" /\ c = FuelDraftEdit
        \/ c \in IssuancePage(g, s).offers
    BY <1>6 DEF Page, IssuanceEditPage, IssuancePlaces, Screen
  <2>3. QED BY <2>1, <2>2, PlainFuel
<1>7. CASE p = "allocations"
  <2>1. Page(g, p, s, a).offers \subseteq {BudgetCreateForm}
    BY <1>7 DEF Page, BudgetsPage, Of, Screen
  <2>2. QED BY <1>7, <2>1, PlainBudget
<1>8. CASE p = "allocation"
  <2>1. Page(g, p, s, a).offers \subseteq {BudgetEditForm, BudgetActivate, BudgetCancel,
                                          BudgetClose, BudgetDelete, BudgetRestore}
    BY <1>8 DEF Page, BudgetPage, BudgetActions, Of, Screen
  <2>2. QED BY <1>8, <2>1, PlainBudget
<1>9. CASE p \in {"offices", "drivers", "vehicles"}
  <2>1. /\ OfficesPage.offers = {OfficeCreateForm} /\ DriversPage.offers = {DriverCreateForm}
        /\ VehiclesPage.offers = {VehicleCreateForm}
    BY DEF OfficesPage, DriversPage, VehiclesPage, ReferenceList, Screen
  <2>2. \/ p = "offices" /\ Page(g, p, s, a) = OfficesPage
        \/ p = "drivers" /\ Page(g, p, s, a) = DriversPage
        \/ p = "vehicles" /\ Page(g, p, s, a) = VehiclesPage
    BY <1>9 DEF Page
  <2>3. QED BY <2>1, <2>2, PlainReferences
<1>10. CASE p \in {"office", "driver", "vehicle"}
  <2>1. Page(g, p, s, a) \in {OfficePage(s), DriverPage(s), VehiclePage(s)}
    BY <1>10 DEF Page
  <2>2. /\ OfficePage(s).offers
              \subseteq {OfficeEditForm} \cup ReferenceLifecycle(s, DeleteOffice, RestoreOffice)
        /\ DriverPage(s).offers
              \subseteq {DriverEditForm} \cup ReferenceLifecycle(s, DeleteDriver, RestoreDriver)
        /\ VehiclePage(s).offers
              \subseteq {VehicleEditForm} \cup ReferenceLifecycle(s, DeleteVehicle, RestoreVehicle)
    BY DEF OfficePage, DriverPage, VehiclePage, ReferenceRecord, Of, Screen
  <2>3. Plain(c, "refresh")
    <3> USE <2>1, <2>2, PlainReferences
    <3> HIDE DEF Plain
    <3>1. QED OBVIOUS
  <2>4. QED BY <2>3
<1>11. CASE p \in {"users", "user"}
  <2>1. Page(g, p, s, a) \in {UsersPage(g, a), UserPage(g, s, a)}
    BY <1>11 DEF Page
  <2>2. /\ UsersPage(g, a).offers \subseteq {UserForm(a)}
        /\ UserPage(g, s, a).offers
              \subseteq {UserIdentityForm(a), UserRoleForm(a), PasswordReset(a), TotpReset(a),
                        Revocation} \cup UserLifecycle(a, s)
    BY DEF UsersPage, UserPage, Of, Screen
  <2>3. Plain(c, "refresh")
    <3> USE <2>1, <2>2, PlainUsers
    <3> HIDE DEF Plain
    <3>1. QED OBVIOUS
  <2>4. QED BY <2>3
<1>12. CASE p \in {"roles", "role"}
  <2>1. \/ p = "roles" /\ c = RoleCreateForm(g, a)
        \/ p = "role" /\ c = RoleEditForm(g, a)
    BY <1>12 DEF Page, RolesPage, RolePage, Of, Screen
  <2>2. Plain(RoleCreateForm(g, a), "role") /\ Plain(RoleEditForm(g, a), "refresh")
    <3> HIDE DEF Plain
    <3>1. QED BY PlainUsers, PlainRoleEdit
  <2>3. QED BY <2>1, <2>2
<1>13. CASE p \in {"audit", "event", "account"}
  <2>1. Page(g, p, s, a).offers = {}
    BY <1>13 DEF Page, AuditPage, EventPage, AccountPage, Screen
  <2>2. QED BY <2>1
<1>14. CASE p \notin KnownScreens
  <2>1. Page(g, p, s, a).offers = {}
    BY <1>14, PageElsewhere DEF DeniedPage, Screen
  <2>2. QED BY <2>1
<1>15. QED
  BY <1>1, <1>2, <1>3, <1>4, <1>5, <1>6, <1>7, <1>8, <1>9, <1>10, <1>11, <1>12, <1>13, <1>14
     DEF Protected, PublicPages, KnownScreens, DispatchPlaces, IssuancePlaces

\* The edit form of a dispatch is there only while it is a draft, and only then its
\* screen takes a token: the dialogs of the other states each ask for their own.
Editing(g, p, s) == p = "edit of dispatch" /\ s = "DRAFT" /\ Held(g, DispatchNeeds.update)
DispatchForms == {DispatchDraftEdit, DispatchConfirm, DispatchComplete, DispatchCancel}
\* What the two screens of a dispatch offer, and when they take a token.
LEMMA DispatchOffers ==
    ASSUME NEW g, NEW p \in DispatchPlaces, NEW s, NEW a
    PROVE  /\ Page(g, p, s, a).offers \subseteq DispatchForms
           /\ Page(g, p, s, a).token <=> Editing(g, p, s)
           /\ Editing(g, p, s) => Page(g, p, s, a).offers = {DispatchDraftEdit}
           /\ ~Editing(g, p, s) => DispatchDraftEdit \notin Page(g, p, s, a).offers
<1>1. /\ DispatchConfirm.id = "dispatch vehicle" /\ DispatchComplete.id = "complete"
      /\ DispatchCancel.id = "cancel" /\ DispatchDraftEdit.id = "edit dispatch"
  BY DEF DispatchConfirm, DispatchComplete, DispatchCancel, DispatchDraftEdit, PageForm,
         FreshForm, Control
<1>2. DispatchDetail(g, s) \subseteq {DispatchConfirm, DispatchComplete, DispatchCancel}
  BY DEF DispatchDetail, Of
<1>3. DispatchPage(g, s).token = FALSE /\ DispatchPage(g, s).offers = DispatchDetail(g, s)
  BY DEF DispatchPage, Screen
<1>4. CASE Editing(g, p, s)
  <2>1. Page(g, p, s, a) = DispatchEditPage(g, s)
    BY <1>4 DEF Page, Editing
  <2>2. DispatchEditPage(g, s).token = TRUE /\ DispatchEditPage(g, s).offers = {DispatchDraftEdit}
    BY <1>4 DEF Editing, DispatchEditPage, Screen
  <2>3. QED BY <1>4, <2>1, <2>2 DEF DispatchForms
<1>5. CASE ~Editing(g, p, s)
  <2>1. Page(g, p, s, a) = DispatchPage(g, s)
    BY <1>5 DEF Page, Editing, DispatchEditPage, DispatchPlaces
  <2>2. Page(g, p, s, a).token <=> Editing(g, p, s)
    BY <1>3, <1>5, <2>1
  <2>3. QED BY <1>1, <1>2, <1>3, <1>5, <2>1, <2>2 DEF DispatchForms
<1>6. QED BY <1>4, <1>5

\* The forms of a dispatch ask for a session; only the edit form spends the screen's token.
LEMMA DispatchForm ==
    ASSUME NEW c \in DispatchForms
    PROVE  /\ FromSession(c) /\ c.then \in {"dispatch", "refresh"}
           /\ c.token = "page" <=> c = DispatchDraftEdit
<1>1. /\ OnSession(CreateDispatch) /\ OnSession(UpdateDispatch)
      /\ OnSession(DispatchVehicle) /\ OnSession(CompleteDispatch)
      /\ OnSession(CancelDispatch)
  BY WritesAskSession
     DEF CreateDispatch, UpdateDispatch, DispatchVehicle, CompleteDispatch, CancelDispatch,
         DispatchRequest
<1>2. /\ DispatchDraftEdit.token = "page" /\ DispatchDraftEdit.then = "dispatch"
      /\ DispatchConfirm.token = "fresh" /\ DispatchConfirm.then = "refresh"
      /\ DispatchComplete.token = "fresh" /\ DispatchComplete.then = "refresh"
      /\ DispatchCancel.token = "fresh" /\ DispatchCancel.then = "refresh"
  BY DEF DispatchConfirm, DispatchComplete, DispatchCancel, DispatchDraftEdit, PageForm,
         FreshForm, Control
<1>3. FromSession(DispatchDraftEdit)
  BY <1>1, PageFormFromSession, OtherIds DEF DispatchDraftEdit
<1>4. FromSession(DispatchConfirm)
  BY <1>1, FreshFormFromSession, OtherIds DEF DispatchConfirm
<1>5. FromSession(DispatchComplete) /\ FromSession(DispatchCancel)
  BY <1>1, FreshFormFromSession, OtherIds DEF DispatchComplete, DispatchCancel
<1>6. QED BY <1>2, <1>3, <1>4, <1>5 DEF DispatchForms

\* A dispatch never becomes a draft again.
LEMMA DispatchMoves ==
    ASSUME NEW c \in DispatchForms, NEW before \in DOMAIN c.moves,
           NEW state \in c.moves[before], state = "DRAFT"
    PROVE  before = "DRAFT"
<1>1. DispatchDraftEdit.moves = Kept({"DRAFT"})
  BY DEF DispatchDraftEdit, PageForm, Control
<1>2. /\ DispatchConfirm.moves = To({"DRAFT"}, "DISPATCHED")
      /\ DispatchComplete.moves = To({"DISPATCHED"}, "COMPLETED")
      /\ DispatchCancel.moves = To({"DRAFT", "DISPATCHED"}, "CANCELLED")
  BY DEF DispatchConfirm, DispatchComplete, DispatchCancel, FreshForm, Control
<1>3. QED BY <1>1, <1>2 DEF DispatchForms, Kept, To

\* The reports, the settings of signing in, and leaving.
LEMMA ReportsOffers ==
    ASSUME NEW g, NEW s, NEW a, NEW c \in Page(g, "reports", s, a).offers
    PROVE  FromSession(c) /\ c.token = "page" /\ c.then \in {"refresh", "stay"}
<1>1. Page(g, "reports", s, a) = ReportsPage(g)
  BY DEF Page
<1>2. PICK f \in Exports(g) : c \in {ExportDialog(f), DownloadButton(f)}
  BY <1>1 DEF ReportsPage, Screen
<1>3. ExportDialog(f).token = "page" /\ ExportDialog(f).then = "refresh"
  BY DEF ExportDialog, PageForm, Control
<1>4. /\ FromSession(DownloadButton(f)) /\ DownloadButton(f).token = "page"
      /\ DownloadButton(f).then = "stay"
  <2> DEFINE d == DownloadButton(f)
  <2>1. /\ d.id = "download" /\ d.token = "page" /\ d.then = "stay"
        /\ d.sends = <<DownloadLink(f), Download(f)>>
    BY DEF DownloadButton, Control
  <2>2. FromSession(d)
    <3> HIDE DEF d
    <3>1. QED BY <2>1, RoutesOfUsers, OtherIds, TwoRequests
  <2>3. QED BY <2>1, <2>2
<1>5. FromSession(ExportDialog(f))
  BY RoutesOfUsers, PageFormFromSession, OtherIds DEF ExportDialog
<1>6. QED BY <1>2, <1>3, <1>4, <1>5

\* The form of the sign-in policy leads to the sign-in screen when it asks for a factor.
LEMMA SecurityOffers ==
    ASSUME NEW c \in SecurityPage.offers
    PROVE  /\ FromSession(c) /\ c.token = "page" /\ c.then \in {"refresh", "login"}
           /\ c.then = "login" => c.id = "require factor"
<1>2. c \in AuthSettingsForm
  BY DEF SecurityPage, Screen
<1>3. FromSession(c)
  BY <1>2, RoutesOfUsers, PageFormFromSession, OtherIds DEF AuthSettingsForm
<1>4. \/ c = PageForm("require factor", UpdateAuthSettings, "login", Kept({"NONE"}))
      \/ c = PageForm("waive factor", UpdateAuthSettings, "refresh", Kept({"NONE"}))
  BY <1>2 DEF AuthSettingsForm
<1>5. CASE c = PageForm("require factor", UpdateAuthSettings, "login", Kept({"NONE"}))
  <2>1. c.id = "require factor" /\ c.token = "page" /\ c.then = "login"
    BY <1>5 DEF PageForm, Control
  <2>2. QED BY <1>3, <2>1
<1>6. CASE c = PageForm("waive factor", UpdateAuthSettings, "refresh", Kept({"NONE"}))
  <2>1. c.token = "page" /\ c.then = "refresh"
    BY <1>6 DEF PageForm, Control
  <2>2. QED BY <1>3, <2>1
<1>7. QED BY <1>4, <1>5, <1>6

\* Signing out asks for a token of its own and leads to the sign-in screen.
LEMMA LogoutForm ==
    /\ FromSession(LogoutButton) /\ LogoutButton.token = "fresh"
    /\ LogoutButton.id = "sign out" /\ LogoutButton.then = "login"
    /\ LogoutButton.moves = Kept(States)
<1>1. OnSession(Logout)
  BY WritesAskSession DEF Logout
<1>2. /\ LogoutButton.sends = <<Logout>> /\ LogoutButton.token = "fresh"
      /\ LogoutButton.id = "sign out" /\ LogoutButton.then = "login"
      /\ LogoutButton.moves = Kept(States)
  BY DEF LogoutButton, Control
<1>3. QED BY <1>1, <1>2, OneRequest, OtherIds

\* The screens of signing in.
LEMMA PublicOffers ==
    ASSUME NEW g, NEW p \in PublicPages, NEW s, NEW a
    PROVE  /\ Page(g, p, s, a).offers \subseteq PublicForms
           /\ Page(g, p, s, a).links = {}
           /\ Page(g, p, s, a).gate = Anyone
<1>1. Page(g, p, s, a) \in {LoginPage, PasswordChangePage, VerificationPage, EnrollmentPage}
  BY DEF Page, PublicPages
<1>2. QED
  BY <1>1 DEF LoginPage, PasswordChangePage, VerificationPage, EnrollmentPage, Screen, PublicForms

\* What opening a screen takes is the same in every state of its record.
Gate(p) ==
    CASE p \in {"dispatches", "dispatch", "edit of dispatch", "schedule"} -> DispatchNeeds.read
      [] p = "new dispatch" -> Both("dispatch.read", "dispatch.create")
      [] p = "schedule settings" -> DispatchNeeds.settings
      [] p \in {"issuances", "issuance", "edit of issuance", "balances"} -> FuelNeeds.read
      [] p = "new issuance" -> Both("fuel.read", "fuel.create")
      [] p \in {"allocations", "allocation"} -> BudgetNeeds.read
      [] p \in {"offices", "office"} -> ReferenceNeeds("office").admin
      [] p \in {"drivers", "driver"} -> ReferenceNeeds("driver").admin
      [] p \in {"vehicles", "vehicle"} -> ReferenceNeeds("vehicle").admin
      [] p = "users" -> One("user.read")
      [] p = "user" -> Both("user.read", "role.read")
      [] p \in {"roles", "role"} -> One("role.read")
      [] p = "security" -> One("auth.settings.manage")
      [] p \in {"audit", "event"} -> One("audit.read")
      [] p = "reports" -> DashboardNeeds
      [] OTHER -> Anyone
\* The layout of each address asks for the permissions `Gate` names.
LEMMA Gates ==
    ASSUME NEW g, NEW p, NEW s, NEW a
    PROVE  Page(g, p, s, a).gate = Gate(p)
<1>1. CASE p \in {"dispatches", "new dispatch", "schedule", "schedule settings"}
  BY <1>1 DEF Page, Gate, DispatchesPage, NewDispatchPage, SchedulePage, ScheduleSettingsPage,
              Screen
<1>2. CASE p \in DispatchPlaces
  <2>1. DispatchPage(g, s).gate = DispatchNeeds.read
    BY DEF DispatchPage, Screen
  <2>2. DispatchEditPage(g, s).gate = DispatchNeeds.read
    BY <2>1 DEF DispatchEditPage, Screen
  <2>3. QED BY <1>2, <2>1, <2>2 DEF Page, Gate, DispatchPlaces
<1>3. CASE p \in {"issuances", "new issuance", "balances"}
  BY <1>3 DEF Page, Gate, IssuancesPage, NewIssuancePage, BalancesPage, Screen
<1>4. CASE p \in IssuancePlaces
  <2>1. IssuancePage(g, s).gate = FuelNeeds.read
    BY DEF IssuancePage, Screen
  <2>2. IssuanceEditPage(g, s).gate = FuelNeeds.read
    BY <2>1 DEF IssuanceEditPage, Screen
  <2>3. QED BY <1>4, <2>1, <2>2 DEF Page, Gate, IssuancePlaces
<1>5. CASE p \in {"allocations", "allocation"}
  BY <1>5 DEF Page, Gate, BudgetsPage, BudgetPage, Screen
<1>6. CASE p \in {"offices", "office", "drivers", "driver", "vehicles", "vehicle"}
  BY <1>6 DEF Page, Gate, OfficesPage, OfficePage, DriversPage, DriverPage, VehiclesPage,
              VehiclePage, ReferenceList, ReferenceRecord, Screen
<1>7. CASE p \in {"users", "user", "roles", "role"}
  BY <1>7 DEF Page, Gate, UsersPage, UserPage, RolesPage, RolePage, Screen
<1>8. CASE p \in {"security", "audit", "event", "reports", "account"}
  BY <1>8 DEF Page, Gate, SecurityPage, AuditPage, EventPage, ReportsPage, AccountPage, Screen
<1>9. CASE p \in PublicPages
  BY <1>9 DEF Page, Gate, LoginPage, PasswordChangePage, VerificationPage, EnrollmentPage,
              PublicPages, Screen
<1>10. CASE p \notin KnownScreens
  BY <1>10 DEF Page, Gate, DeniedPage, KnownScreens, Screen
<1>11. QED
  BY <1>1, <1>2, <1>3, <1>4, <1>5, <1>6, <1>7, <1>8, <1>9, <1>10
     DEF KnownScreens, PublicPages, DispatchPlaces, IssuancePlaces

\* What the seeds give together.
Together(g) ==
    /\ "user.read" \in g => {"role.read", "user.manage", "role.manage"} \subseteq g
    /\ "budget.manage" \in g => "office.read" \in g

\* A link leads to a protected screen, and to one that opens to whom it is shown, but
\* for the schedule's.
LEMMA LinksLead ==
    ASSUME NEW g, NEW p, NEW s, NEW a, NEW l \in Page(g, p, s, a).links
    PROVE  /\ Protected(l) /\ l \notin {"denied", "nowhere"}
           /\ l = "edit of dispatch" => p \in DispatchPlaces
           /\ Together(g) /\ p # "schedule" /\ Held(g, Gate(p)) => Held(g, Gate(l))
<1> USE DEF Protected, PublicPages, Gate
<1>1. CASE p \in {"dispatches", "new dispatch", "schedule", "schedule settings"}
  <2>1. /\ DispatchesPage(g).links \subseteq {"schedule", "dispatch", "new dispatch"}
        /\ "new dispatch" \in DispatchesPage(g).links => Held(g, DispatchNeeds.create)
    BY DEF DispatchesPage, Of, Screen
  <2>2. /\ NewDispatchPage.links = {"dispatches"} /\ ScheduleSettingsPage.links = {}
        /\ SchedulePage.links = {"dispatches", "dispatch", "new dispatch"}
    BY DEF NewDispatchPage, SchedulePage, ScheduleSettingsPage, Screen
  <2>3. Held(g, DispatchNeeds.create) /\ Held(g, DispatchNeeds.read)
          => Held(g, Both("dispatch.read", "dispatch.create"))
    BY DEF DispatchNeeds, Held, Both, One
  <2>4. Held(g, Both("dispatch.read", "dispatch.create")) => Held(g, DispatchNeeds.read)
    BY DEF DispatchNeeds, Held, Both, One
  <2>5. QED BY <1>1, <2>1, <2>2, <2>3, <2>4 DEF Page
<1>2. CASE p \in DispatchPlaces
  <2>1. DispatchPage(g, s).links \subseteq {"dispatches", "edit of dispatch"}
    BY DEF DispatchPage, Of, Screen
  <2>2. DispatchEditPage(g, s).links \subseteq {"dispatch", "dispatches", "edit of dispatch"}
    BY <2>1 DEF DispatchEditPage, Screen
  <2>3. QED BY <1>2, <2>1, <2>2 DEF Page, DispatchPlaces
<1>3. CASE p \in {"issuances", "new issuance", "balances"}
  <2>1. /\ IssuancesPage(g).links \subseteq {"balances", "issuance", "new issuance"}
        /\ "new issuance" \in IssuancesPage(g).links => Held(g, FuelNeeds.create)
    BY DEF IssuancesPage, Of, Screen
  <2>2. NewIssuancePage.links = {"issuances"} /\ BalancesPage.links = {"issuances"}
    BY DEF NewIssuancePage, BalancesPage, Screen
  <2>3. Held(g, FuelNeeds.create) /\ Held(g, FuelNeeds.read)
          => Held(g, Both("fuel.read", "fuel.create"))
    BY DEF FuelNeeds, Held, Both, One
  <2>4. Held(g, Both("fuel.read", "fuel.create")) => Held(g, FuelNeeds.read)
    BY DEF FuelNeeds, Held, Both, One
  <2>5. QED BY <1>3, <2>1, <2>2, <2>3, <2>4 DEF Page
<1>4. CASE p \in IssuancePlaces
  <2>1. IssuancePage(g, s).links \subseteq {"issuances", "edit of issuance"}
    BY DEF IssuancePage, Of, Screen
  <2>2. IssuanceEditPage(g, s).links \subseteq {"issuance", "issuances", "edit of issuance"}
    BY <2>1 DEF IssuanceEditPage, Screen
  <2>3. QED BY <1>4, <2>1, <2>2 DEF Page, IssuancePlaces
<1>5. CASE p \in {"allocations", "allocation"}
  <2>1. BudgetsPage(g).links = {"allocation"} /\ BudgetPage(g, s).links = {"allocations"}
    BY DEF BudgetsPage, BudgetPage, Screen
  <2>2. QED BY <1>5, <2>1 DEF Page
<1>6. CASE p \in {"offices", "office", "drivers", "driver", "vehicles", "vehicle"}
  <2>1. /\ OfficesPage.links = {"office"} /\ OfficePage(s).links = {"offices"}
        /\ DriversPage.links = {"driver"} /\ DriverPage(s).links = {"drivers"}
        /\ VehiclesPage.links = {"vehicle"} /\ VehiclePage(s).links = {"vehicles"}
    BY DEF OfficesPage, OfficePage, DriversPage, DriverPage, VehiclesPage, VehiclePage,
           ReferenceList, ReferenceRecord, Screen
  <2>2. QED BY <1>6, <2>1 DEF Page
<1>7. CASE p \in {"users", "user", "roles", "role"}
  <2>1. /\ UsersPage(g, a).links = {"user"} /\ UserPage(g, s, a).links = {"users"}
        /\ RolesPage(g, a).links = {"role"} /\ RolePage(g, a).links = {"roles"}
    BY DEF UsersPage, UserPage, RolesPage, RolePage, Screen
  <2>2. /\ Together(g) /\ Held(g, One("user.read")) => Held(g, Both("user.read", "role.read"))
        /\ Held(g, Both("user.read", "role.read")) => Held(g, One("user.read"))
    BY DEF Held, Both, One, Together
  <2>3. QED BY <1>7, <2>1, <2>2 DEF Page
<1>8. CASE p \in {"security", "audit", "event", "reports", "account"}
  <2>1. /\ SecurityPage.links = {} /\ AuditPage.links = {"event"}
        /\ EventPage.links = {"audit"} /\ ReportsPage(g).links = {} /\ AccountPage.links = {}
    BY DEF SecurityPage, AuditPage, EventPage, ReportsPage, AccountPage, Screen
  <2>2. QED BY <1>8, <2>1 DEF Page
<1>9. CASE p \in PublicPages
  BY <1>9, PublicOffers
<1>10. CASE p \notin KnownScreens
  <2>1. Page(g, p, s, a).links = {"account"}
    BY <1>10, PageElsewhere DEF DeniedPage, Screen
  <2>2. Held(g, Anyone)
    BY DEF Held, Anyone
  <2>3. QED BY <2>1, <2>2
<1>11. QED
  BY <1>1, <1>2, <1>3, <1>4, <1>5, <1>6, <1>7, <1>8, <1>9, <1>10
     DEF KnownScreens, DispatchPlaces, IssuancePlaces

\* So does the navigation.
LEMMA NavigationLeads ==
    ASSUME NEW g, NEW l \in Navigation(g)
    PROVE  /\ Protected(l) /\ l \notin {"denied", "nowhere", "edit of dispatch"}
           /\ Held(g, Gate(l))
<1>1. Held(g, Anyone)
  BY DEF Held, Anyone
<1>2. \A x : x \in g => Held(g, One(x))
  BY DEF Held, One
<1>3. /\ \A r : ReferenceNeeds(r).admin = One(Permission[r].manage)
      /\ Permission["office"].manage = "office.manage"
      /\ Permission["driver"].manage = "driver.manage"
      /\ Permission["vehicle"].manage = "vehicle.manage"
  BY DEF ReferenceNeeds, Permission
<1>4. /\ l \in {"dispatches", "issuances", "allocations", "offices", "drivers", "vehicles",
                "users", "roles", "security", "schedule settings", "reports", "audit",
                "account"}
      /\ l = "dispatches" => Held(g, DispatchNeeds.read)
      /\ l = "issuances" => Held(g, FuelNeeds.read)
      /\ l = "allocations" => Held(g, BudgetNeeds.read)
      /\ l = "offices" => "office.manage" \in g
      /\ l = "drivers" => "driver.manage" \in g
      /\ l = "vehicles" => "vehicle.manage" \in g
      /\ l = "users" => "user.read" \in g
      /\ l = "roles" => "role.read" \in g
      /\ l = "security" => "auth.settings.manage" \in g
      /\ l = "schedule settings" => Held(g, DispatchNeeds.settings)
      /\ l = "reports" => Held(g, DashboardNeeds)
      /\ l = "audit" => "audit.read" \in g
  BY DEF Navigation, Of
<1>5. /\ Gate("offices") = One("office.manage") /\ Gate("drivers") = One("driver.manage")
      /\ Gate("vehicles") = One("vehicle.manage") /\ Gate("users") = One("user.read")
      /\ Gate("roles") = One("role.read") /\ Gate("security") = One("auth.settings.manage")
      /\ Gate("audit") = One("audit.read") /\ Gate("account") = Anyone
  BY <1>3 DEF Gate
<1>6. /\ Gate("dispatches") = DispatchNeeds.read /\ Gate("issuances") = FuelNeeds.read
      /\ Gate("allocations") = BudgetNeeds.read /\ Gate("reports") = DashboardNeeds
      /\ Gate("schedule settings") = DispatchNeeds.settings
  BY DEF Gate
<1>7. Held(g, Gate(l))
  BY <1>1, <1>2, <1>4, <1>5, <1>6
<1>8. QED BY <1>4, <1>7 DEF Protected, PublicPages

\* The forms of signing in.
LEMMA PublicForm ==
    ASSUME NEW c \in PublicForms
    PROVE  /\ c.id \in PublicIds /\ c.token \in {"none", "mount"}
           /\ Len(c.sends) \in {1, 2} /\ DOMAIN c.sends = 1 .. Len(c.sends)
           /\ c.then \in {"next", "account"}
           /\ c.then = "next" => Len(c.sends) = 1 /\ c.id \in {"sign in", "change password"}
           /\ c.then = "account" =>
                  <<c.id, Len(c.sends)>> \in {<<"verify code", 1>>, <<"enroll", 2>>}
<1>1. /\ LoginForm.id = "sign in" /\ LoginForm.token = "none" /\ LoginForm.then = "next"
      /\ LoginForm.sends = <<Login>>
  BY DEF LoginForm, Control
<1>2. /\ PasswordChangeForm.id = "change password" /\ PasswordChangeForm.token = "mount"
      /\ PasswordChangeForm.then = "next" /\ PasswordChangeForm.sends = <<ChangePassword>>
  BY DEF PasswordChangeForm, MountForm, Control
<1>3. /\ TotpChallengeForm.id = "verify code" /\ TotpChallengeForm.token = "mount"
      /\ TotpChallengeForm.then = "account" /\ TotpChallengeForm.sends = <<VerifyChallenge>>
  BY DEF TotpChallengeForm, MountForm, Control
<1>4. /\ TotpEnrollmentForm.id = "enroll" /\ TotpEnrollmentForm.token = "mount"
      /\ TotpEnrollmentForm.then = "account"
      /\ TotpEnrollmentForm.sends = <<StartEnrollment, ConfirmEnrollment>>
  BY DEF TotpEnrollmentForm, MountForm, Control
<1>5. \A x : Len(<<x>>) = 1 /\ DOMAIN <<x>> = 1 .. 1
  OBVIOUS
<1>6. \A x, y : Len(<<x, y>>) = 2 /\ DOMAIN <<x, y>> = 1 .. 2
  OBVIOUS
<1>7. CASE c = LoginForm
  BY <1>1, <1>5, <1>7 DEF PublicIds
<1>8. CASE c = PasswordChangeForm
  BY <1>2, <1>5, <1>8 DEF PublicIds
<1>9. CASE c = TotpChallengeForm
  BY <1>3, <1>5, <1>9 DEF PublicIds
<1>10. CASE c = TotpEnrollmentForm
  BY <1>4, <1>6, <1>10 DEF PublicIds
<1>11. QED BY <1>7, <1>8, <1>9, <1>10 DEF PublicForms

\* Whoever may use a form may open the screen that it leads to.
LEMMA OntoOpens ==
    ASSUME NEW g, NEW p, NEW then, Onto(p, then), then # "refresh"
    PROVE  /\ then \in RecordPlaces
           /\ Held(g, Gate(p)) => Held(g, Gate(then))
<1>1. /\ Held(g, Both("dispatch.read", "dispatch.create")) => Held(g, DispatchNeeds.read)
      /\ Held(g, Both("fuel.read", "fuel.create")) => Held(g, FuelNeeds.read)
  BY DEF DispatchNeeds, FuelNeeds, Held, Both, One
<1>2. QED BY <1>1 DEF Onto, Gate, RecordPlaces

-----------------------------------------------------------------------------
\* The forms of the protected screens: whose session they end and where they lead.
Thens == RecordPlaces \cup {"refresh", "stay", "login"}
ProtectedForm(c) ==
    /\ FromSession(c) /\ c.then \in Thens
    /\ c.then = "login" => c.id \in {"sign out", "require factor"}

\* A screen opens to whom it is shown.
Opens(place) == Held(rights, Gate(place))

\* What is offered on the screen shown.
LEMMA OfferedForm ==
    ASSUME NEW c \in Offered, Opens(view.place)
    PROVE  /\ c \in PublicForms \/ ProtectedForm(c)
           /\ c \in PublicForms <=> ~Protected(view.place)
           /\ view.place \in DispatchPlaces => c \in DispatchForms \cup {LogoutButton}
           /\ c.then = "stay" => view.place = "reports"
           /\ c.token = "fresh" /\ c.id # "sign out" =>
                  view.place \in DispatchPlaces /\ ~Editing(rights, view.place, view.status)
           /\ c.then \in {"refresh", "stay", "next"} \/ Opens(c.then)
<1>1. Held(rights, Anyone)
  BY DEF Held, Anyone
<1>2. Gate("login") = Anyone /\ Gate("account") = Anyone
  BY DEF Gate
<1>3. CASE c = LogoutButton /\ Protected(view.place)
  <2>1. ProtectedForm(c) /\ c.then = "login" /\ c.id = "sign out"
    BY <1>3, LogoutForm DEF ProtectedForm, Thens
  <2>2. c \notin PublicForms
    BY <2>1, PublicForm DEF ProtectedForm, FromSession
  <2>3. QED BY <1>1, <1>2, <1>3, <2>1, <2>2 DEF Opens
<1>4. CASE c \in Shown.offers /\ ~Protected(view.place)
  <2>1. c \in PublicForms
    BY <1>4, PublicOffers DEF Shown, Protected
  <2>2. c.token \in {"none", "mount"} /\ c.then \in {"next", "account"}
    BY <2>1, PublicForm
  <2>3. view.place \notin DispatchPlaces
    BY <1>4 DEF Protected, PublicPages, DispatchPlaces
  <2>4. QED BY <1>1, <1>2, <1>4, <2>1, <2>2, <2>3 DEF Opens
<1>5. CASE c \in Shown.offers /\ Protected(view.place)
  <2>1. c \in PublicForms => ~FromSession(c)
    BY PublicForm DEF FromSession
  <2>2. CASE view.place \in DispatchPlaces
    <3>1. c \in DispatchForms
      BY <1>5, <2>2, DispatchOffers DEF Shown
    <3>2. c.token = "fresh" => ~Editing(rights, view.place, view.status)
      BY <1>5, <2>2, <3>1, DispatchOffers, DispatchForm DEF Shown
    <3>3. FromSession(c) /\ c.then \in {"dispatch", "refresh"}
      BY <3>1, DispatchForm
    <3>4. Gate(view.place) = Gate("dispatch")
      BY <2>2 DEF Gate, DispatchPlaces
    <3>5. QED
      BY <1>5, <2>1, <2>2, <3>1, <3>2, <3>3, <3>4 DEF ProtectedForm, Thens, RecordPlaces, Opens
  <2>3. CASE view.place = "reports"
    <3>1. FromSession(c) /\ c.token = "page" /\ c.then \in {"refresh", "stay"}
      BY <1>5, <2>3, ReportsOffers DEF Shown
    <3>2. QED BY <1>5, <2>1, <2>3, <3>1 DEF ProtectedForm, Thens, DispatchPlaces
  <2>4. CASE view.place = "security"
    <3>1. /\ FromSession(c) /\ c.token = "page" /\ c.then \in {"refresh", "login"}
          /\ c.then = "login" => c.id = "require factor"
      <4>1. c \in SecurityPage.offers
        BY <1>5, <2>4 DEF Shown, Page
      <4>2. QED BY <4>1, SecurityOffers
    <3>2. QED
      BY <1>1, <1>2, <1>5, <2>1, <2>4, <3>1 DEF ProtectedForm, Thens, DispatchPlaces, Opens
  <2>5. CASE view.place \notin DispatchPlaces \cup {"reports", "security"}
    <3>1. FromSession(c) /\ c.token = "page" /\ Onto(view.place, c.then)
      BY <1>5, <2>5, PlainOffers DEF Shown
    <3>2. c.then = "refresh" \/ (c.then \in RecordPlaces /\ Opens(c.then))
      BY <3>1, OntoOpens DEF Opens
    <3>3. QED BY <1>5, <2>1, <2>5, <3>1, <3>2 DEF ProtectedForm, Thens, RecordPlaces
  <2>6. QED BY <2>2, <2>3, <2>4, <2>5
<1>6. QED BY <1>3, <1>4, <1>5 DEF Offered

\* What a seeded role may do.
LEMMA GrantsArePairs ==
    \A r, x : x \in RightsOf(r) <=> <<r, x>> \in SeededGrants
<1>1. \A grant \in SeededGrants : grant = <<grant[1], grant[2]>>
  BY DEF SeededGrants, FirstGrants, AuditGrants, ReferenceGrants, BudgetGrants, SettingsGrants,
         ScheduleGrants, ExportGrants
<1>2. QED BY <1>1 DEF RightsOf

\* The seeded roles grant permissions that the screens take for granted together.
LEMMA SeedsTogether ==
    ASSUME NEW r \in SeededRoles
    PROVE  Together(RightsOf(r))
<1>1. <<r, "user.read">> \in SeededGrants => r \in Administrators
  BY DEF SeededGrants, FirstGrants, AuditGrants, ReferenceGrants, BudgetGrants, SettingsGrants,
         ScheduleGrants, ExportGrants, Administrators, FirstPermissions
<1>2. r \in Administrators => \A x \in {"role.read", "user.manage", "role.manage"} :
                                  <<r, x>> \in SeededGrants
  BY DEF SeededGrants, FirstGrants, FirstPermissions, Administrators
<1>3. <<r, "budget.manage">> \in SeededGrants => r \in Administrators \cup {"BUDGET_OFFICER"}
  BY DEF SeededGrants, FirstGrants, AuditGrants, ReferenceGrants, BudgetGrants, SettingsGrants,
         ScheduleGrants, ExportGrants, Administrators, FirstPermissions
<1>4. r \in Administrators \cup {"BUDGET_OFFICER"} => <<r, "office.read">> \in SeededGrants
  BY DEF SeededGrants, ReferenceGrants
<1>5. QED BY <1>1, <1>2, <1>3, <1>4, GrantsArePairs DEF Together

-----------------------------------------------------------------------------
\* The inductive invariant.

\* The form under way was one of the screen shown while it is here, and one of the record
\* shown while that is; a form whose screen was left waits alone.
FormShape == {"control", "step", "here", "shown", "about", "good", "phase"}
IsForm(f) ==
    /\ DOMAIN f = FormShape
    /\ f.here \in BOOLEAN /\ f.shown \in BOOLEAN /\ f.phase \in {"asking", "sending"}
    /\ f.step \in DOMAIN f.control.sends
FormFits ==
    form # NoForm =>
        /\ IsForm(form)
        /\ form.control \in PublicForms \/ ProtectedForm(form.control)
        /\ form.phase = "asking" => form.control.token \in {"fresh", "mount"}
        /\ form.here => form.shown /\ (form.control \in PublicForms <=> ~Protected(view.place))
        /\ ~form.here => coming = Nowhere
        /\ form.shown /\ view.place \in DispatchPlaces =>
               form.control \in DispatchForms \cup {LogoutButton}
        /\ form.shown /\ form.control.then = "stay" => view.place = "reports"

\* A screen on its way is of the record shown or of another; the edit form of a dispatch
\* is only reached from its page.
GoingShape == {"place", "about", "same", "status", "rendered", "token"}
IsGoing(g) == DOMAIN g = GoingShape /\ g.same \in BOOLEAN /\ g.rendered \in BOOLEAN
ComingFits ==
    coming # Nowhere =>
        /\ IsGoing(coming)
        /\ coming.place = "edit of dispatch" => coming.same
        /\ Stays => SameRecord(coming.place, view.place)
        /\ coming.place = "reports" => coming.status = "NONE"

\* A draft of a dispatch is shown as one, and a screen that shows it as a draft comes only
\* while one is shown.
DraftsShown ==
    /\ view.place \in DispatchPlaces /\ actual = "DRAFT" => view.status = "DRAFT"
    /\ coming # Nowhere /\ coming.rendered /\ Stays /\ coming.place \in DispatchPlaces =>
           /\ actual = "DRAFT" => coming.status = "DRAFT"
           /\ coming.status = "DRAFT" => view.status = "DRAFT"

\* A good token is one that the screen took, no form of a screen asks for one beside another
\* form that holds one, and none is ever lost to a form.
TokensFit ==
    /\ token = "good" /\ Protected(view.place) => Shown.token
    /\ coming # Nowhere /\ coming.token = "good" =>
           /\ coming.rendered /\ Protected(coming.place)
           /\ Page(rights, coming.place, coming.status, coming.about).token
    /\ form # NoForm /\ form.here /\ form.control.token = "fresh" /\ form.control.id # "sign out" =>
           /\ view.place \in DispatchPlaces
           /\ ~Editing(rights, view.place, view.status)
    /\ token # "form"
    /\ coming # Nowhere => coming.token # "form"

\* Whoever is led from another screen to those of signing in has no session.
SignedOut ==
    /\ form # NoForm /\ ~Protected(view.place) /\ form.control \notin PublicForms =>
           cookie # "SESSION"
    /\ coming # Nowhere /\ Protected(view.place) /\ ~Protected(coming.place) =>
           cookie # "SESSION"

\* After a form was saved the screen is up to date or on its way, and so it is while the
\* answer of a form whose screen was left is awaited.
UpToDate ==
    /\ saved => form = NoForm
    /\ view.place = "reports" => view.status = "NONE" /\ actual = "NONE"
    /\ form # NoForm /\ ~form.shown /\ ~drift => view.status = actual
    /\ saved /\ ~drift =>
           IF coming = Nowhere THEN view.status = actual
           ELSE coming.rendered /\ Stays => coming.status = actual

\* The screen shown is one that opens, and so are those on their way and those that forms
\* lead to, but for the schedule's link.
ScreensOpen ==
    /\ Opens(view.place)
    /\ coming # Nowhere =>
           /\ \/ Opens(coming.place) /\ coming.place # "denied"
              \/ view.place \in {"schedule", "denied"}
           /\ coming.rendered => Opens(coming.place)
    /\ form # NoForm => form.control.then \in {"refresh", "stay", "next"}
                        \/ Opens(form.control.then)

WorkInv == /\ role \in UserRoles
           /\ FormFits /\ ComingFits /\ DraftsShown /\ TokensFit /\ SignedOut /\ UpToDate
           /\ ScreensOpen

-----------------------------------------------------------------------------
\* What changing a field of a form or of a screen on its way leaves alone.
LEMMA FormGood ==
    ASSUME NEW f, IsForm(f), NEW v, NEW h, h = [f EXCEPT !.good = v]
    PROVE  /\ IsForm(h) /\ h # NoForm
           /\ h.control = f.control /\ h.step = f.step /\ h.here = f.here
           /\ h.shown = f.shown /\ h.about = f.about /\ h.phase = f.phase
BY DEF IsForm, FormShape, NoForm

\* A form whose request is on its way keeps all else.
LEMMA FormSending ==
    ASSUME NEW f, IsForm(f), NEW h, h = [f EXCEPT !.phase = "sending", !.good = TRUE]
    PROVE  /\ IsForm(h) /\ h # NoForm
           /\ h.control = f.control /\ h.step = f.step /\ h.here = f.here
           /\ h.shown = f.shown /\ h.about = f.about /\ h.phase = "sending"
BY DEF IsForm, FormShape, NoForm

\* A navigation that is given a token keeps all else.
LEMMA GoingToken ==
    ASSUME NEW g, IsGoing(g), NEW v, NEW h, h = [g EXCEPT !.token = v]
    PROVE  /\ IsGoing(h) /\ h # Nowhere
           /\ h.place = g.place /\ h.about = g.about /\ h.same = g.same
           /\ h.status = g.status /\ h.rendered = g.rendered /\ h.token = v
BY DEF IsGoing, GoingShape, Nowhere

\* The rights of a user do not change.
LEMMA RightsStay ==
    ASSUME WorkInv, role' = role
    PROVE  rights' = rights /\ Together(rights)
<1>1. role \in SeededRoles
  BY UserRolesAssumption DEF WorkInv
<1>2. rights = RightsOf(role)
  BY DEF rights, RoleRights, WorkInv
<1>3. QED BY <1>1, <1>2, SeedsTogether DEF rights

-----------------------------------------------------------------------------
\* The steps.
LEMMA EndSessionKeeps == WorkInv /\ EndSession => WorkInv'
<1> SUFFICES ASSUME WorkInv, EndSession PROVE WorkInv'
  OBVIOUS
<1> USE DEF EndSession
<1>1. rights' = rights
  BY RightsStay
<1>2. FormFits'
  BY DEF WorkInv, FormFits
<1>3. ComingFits' /\ DraftsShown'
  BY DEF WorkInv, ComingFits, DraftsShown, Stays
<1>4. TokensFit'
  BY <1>1 DEF WorkInv, TokensFit, Shown
<1>5. SignedOut'
  BY DEF SignedOut
<1>6. UpToDate'
  BY DEF WorkInv, UpToDate
<1>7. ScreensOpen'
  BY <1>1 DEF WorkInv, ScreensOpen, Opens
<1>8. QED BY <1>2, <1>3, <1>4, <1>5, <1>6, <1>7 DEF WorkInv

\* A request that fails on its way.
LEMMA FailKeeps == WorkInv /\ Fail => WorkInv'
<1> SUFFICES ASSUME WorkInv, Fail PROVE WorkInv'
  OBVIOUS
<1> USE DEF Fail
<1>1. rights' = rights
  BY RightsStay
<1>2. FormFits'
  BY DEF FormFits
<1>3. ComingFits' /\ DraftsShown'
  BY DEF WorkInv, ComingFits, DraftsShown, Stays
<1>4. TokensFit'
  BY <1>1 DEF WorkInv, TokensFit, Shown
<1>5. SignedOut'
  BY DEF WorkInv, SignedOut
<1>6. UpToDate'
  BY DEF WorkInv, UpToDate, Stays
<1>7. ScreensOpen'
  BY <1>1 DEF WorkInv, ScreensOpen, Opens
<1>8. QED BY <1>2, <1>3, <1>4, <1>5, <1>6, <1>7 DEF WorkInv

\* The token cookie was replaced by another tab.
LEMMA RotateKeeps == WorkInv /\ Rotate => WorkInv'
<1> SUFFICES ASSUME WorkInv, Rotate PROVE WorkInv'
  OBVIOUS
<1> USE DEF Rotate
<1>1. rights' = rights
  BY RightsStay
<1>2. IF form = NoForm THEN form' = NoForm
      ELSE /\ IsForm(form') /\ form' # NoForm
           /\ form'.control = form.control /\ form'.step = form.step
           /\ form'.here = form.here /\ form'.shown = form.shown /\ form'.phase = form.phase
  BY FormGood DEF WorkInv, FormFits
<1>3. IF coming = Nowhere THEN coming' = Nowhere
      ELSE /\ IsGoing(coming') /\ coming' # Nowhere /\ coming'.place = coming.place
           /\ coming'.same = coming.same /\ coming'.status = coming.status
           /\ coming'.rendered = coming.rendered
           /\ coming'.token # "good" /\ (coming'.token = "form" => coming.token = "form")
  <2>1. CASE coming # Nowhere /\ coming.token = "good"
    <3>1. coming' = [coming EXCEPT !.token = "other"] /\ IsGoing(coming)
      BY <2>1 DEF WorkInv, ComingFits
    <3>2. QED BY <2>1, <3>1, GoingToken
  <2>2. CASE ~(coming # Nowhere /\ coming.token = "good")
    BY <2>2 DEF WorkInv, ComingFits
  <2>3. QED BY <2>1, <2>2
<1>4. FormFits'
  BY <1>2, <1>3 DEF WorkInv, FormFits
<1>5. ComingFits' /\ DraftsShown'
  BY <1>3 DEF WorkInv, ComingFits, DraftsShown, Stays
<1>6. TokensFit'
  BY <1>1, <1>2, <1>3 DEF WorkInv, TokensFit, Shown, Taken
<1>7. SignedOut'
  BY <1>2, <1>3 DEF WorkInv, SignedOut
<1>8. UpToDate'
  BY <1>2 DEF WorkInv, UpToDate
<1>9. ScreensOpen'
  BY <1>1, <1>2, <1>3 DEF WorkInv, ScreensOpen, Opens
<1>10. QED BY <1>4, <1>5, <1>6, <1>7, <1>8, <1>9 DEF WorkInv

\* A reload of the screen.
LEMMA ReloadKeeps == WorkInv /\ Reload => WorkInv'
<1> SUFFICES ASSUME WorkInv, Reload PROVE WorkInv'
  OBVIOUS
<1> USE DEF Reload
<1>1. rights' = rights
  BY RightsStay
<1>2. /\ coming' # Nowhere /\ IsGoing(coming') /\ coming'.place = view.place
      /\ coming'.same = TRUE /\ coming'.status = "NONE" /\ coming'.rendered = FALSE
      /\ coming'.token = "none"
  BY DEF Again, Going, IsGoing, GoingShape, Nowhere
<1>3. FormFits'
  BY DEF FormFits
<1>4. SameRecord(view.place, view.place)
  BY SameRecordCases
<1>5. ComingFits' /\ DraftsShown'
  BY <1>2, <1>4 DEF WorkInv, ComingFits, DraftsShown
<1>6. TokensFit'
  BY <1>1, <1>2 DEF WorkInv, TokensFit, Shown
<1>7. SignedOut'
  BY <1>2 DEF SignedOut
<1>8. UpToDate'
  BY <1>2 DEF WorkInv, UpToDate
<1>9. ScreensOpen'
  BY <1>1, <1>2 DEF WorkInv, ScreensOpen, Opens
<1>10. QED BY <1>3, <1>5, <1>6, <1>7, <1>8, <1>9 DEF WorkInv

\* The links of the screen shown.
LEMMA LinkOpens ==
    ASSUME WorkInv, NEW place \in Links
    PROVE  /\ Protected(place) /\ place \notin {"denied", "nowhere"}
           /\ place = "edit of dispatch" => view.place \in DispatchPlaces
           /\ view.place # "schedule" => Opens(place)
<1>1. Together(rights) /\ Opens(view.place)
  BY UserRolesAssumption, SeedsTogether DEF WorkInv, ScreensOpen, rights, RoleRights
<1>2. CASE place \in Shown.links
  BY <1>1, <1>2, LinksLead DEF Shown, Opens
<1>3. CASE place \in Navigation(rights)
  BY <1>3, NavigationLeads DEF Opens
<1>4. QED BY <1>2, <1>3 DEF Links

\* A link that is followed.
LEMMA FollowKeeps == ASSUME NEW place \in Links PROVE WorkInv /\ Follow(place) => WorkInv'
<1> SUFFICES ASSUME WorkInv, Follow(place) PROVE WorkInv'
  OBVIOUS
<1> USE DEF Follow
<1>1. rights' = rights
  BY RightsStay
<1>2. /\ Protected(place) /\ place # "denied"
      /\ place = "edit of dispatch" => SameRecord(place, view.place)
      /\ view.place # "schedule" => Opens(place)
  BY LinkOpens, SameRecordCases DEF DispatchPlaces
<1>3. /\ coming' # Nowhere /\ IsGoing(coming') /\ coming'.place = place
      /\ coming'.same => SameRecord(place, view.place)
      /\ SameRecord(place, view.place) => coming'.same
      /\ coming'.rendered = FALSE /\ coming'.token = "none"
      /\ place = "reports" => coming'.status = "NONE"
  <2>1. CASE SameRecord(place, view.place)
    <3>1. coming' = Going(place, view.about, TRUE, "NONE")
      BY <2>1
    <3>2. QED BY <2>1, <3>1 DEF Going, IsGoing, GoingShape, Nowhere
  <2>2. CASE ~SameRecord(place, view.place)
    <3>1. PICK about \in AboutOf(place), shown \in StatusesOf(place) :
              coming' = Going(place, about, FALSE, shown)
      BY <2>2
    <3>2. place = "reports" => shown = "NONE"
      BY DEF StatusesOf
    <3>3. QED BY <2>2, <3>1, <3>2 DEF Going, IsGoing, GoingShape, Nowhere
  <2>3. QED BY <2>1, <2>2
<1>4. FormFits'
  BY DEF FormFits
<1>5. ComingFits' /\ DraftsShown'
  BY <1>2, <1>3 DEF WorkInv, ComingFits, DraftsShown, Stays
<1>6. TokensFit'
  BY <1>1, <1>3 DEF WorkInv, TokensFit, Shown
<1>7. SignedOut'
  BY <1>2, <1>3 DEF SignedOut, Protected
<1>8. UpToDate'
  BY <1>3 DEF WorkInv, UpToDate
<1>9. ScreensOpen'
  BY <1>1, <1>2, <1>3 DEF WorkInv, ScreensOpen, Opens
<1>10. QED BY <1>4, <1>5, <1>6, <1>7, <1>8, <1>9 DEF WorkInv

\* Somebody else changes the record.
LEMMA ChangeRecordKeeps == WorkInv /\ ChangeRecord => WorkInv'
<1> SUFFICES ASSUME WorkInv, ChangeRecord PROVE WorkInv'
  OBVIOUS
<1> USE DEF ChangeRecord
<1>1. rights' = rights
  BY RightsStay
<1>2. view.place # "reports"
  BY DEF RecordForms
<1>3. view.place \in DispatchPlaces /\ actual' = "DRAFT" => actual = "DRAFT"
  <2> SUFFICES ASSUME view.place \in DispatchPlaces, actual' = "DRAFT" PROVE actual = "DRAFT"
    OBVIOUS
  <2>1. PICK c \in RecordForms(view.place) : actual \in DOMAIN c.moves /\ actual' \in c.moves[actual]
    OBVIOUS
  <2>2. c \in DispatchForms
    BY DEF RecordForms, DispatchPlaces, DispatchForms
  <2>3. QED BY <2>1, <2>2, DispatchMoves
<1>4. FormFits'
  BY DEF WorkInv, FormFits
<1>5. coming # Nowhere /\ Stays /\ coming.place \in DispatchPlaces => view.place \in DispatchPlaces
  BY SameRecordCases DEF WorkInv, ComingFits, DispatchPlaces, IssuancePlaces
<1>6. ComingFits' /\ DraftsShown'
  BY <1>3, <1>5 DEF WorkInv, ComingFits, DraftsShown, Stays
<1>7. TokensFit'
  BY <1>1 DEF WorkInv, TokensFit, Shown
<1>8. SignedOut'
  BY DEF WorkInv, SignedOut
<1>9. UpToDate'
  BY <1>2 DEF WorkInv, UpToDate
<1>10. ScreensOpen'
  BY <1>1 DEF WorkInv, ScreensOpen, Opens
<1>11. QED BY <1>4, <1>6, <1>7, <1>8, <1>9, <1>10 DEF WorkInv

\* The server renders the screen on its way.
LEMMA RenderKeeps == WorkInv /\ Render => WorkInv'
<1> SUFFICES ASSUME WorkInv, Render PROVE WorkInv'
  OBVIOUS
<1> DEFINE state == IF coming.same THEN actual ELSE coming.status
           place == Opened(coming.place, state, coming.about)
           takes == Protected(place) /\ Page(rights, place, state, coming.about).token
<1>1. rights' = rights
  BY RightsStay DEF Render
<1>2. /\ coming # Nowhere /\ IsGoing(coming) /\ ~coming.rendered
      /\ UNCHANGED <<role, cookie, view, actual, saved>> /\ drift' = FALSE
      /\ coming' = [coming EXCEPT !.place = place, !.rendered = TRUE,
                        !.status = IF place = coming.place THEN state ELSE "NONE",
                        !.token = IF takes THEN "good" ELSE "none"]
      /\ token' = IF takes THEN Taken("other") ELSE token
      /\ form' = IF takes /\ form # NoForm THEN [form EXCEPT !.good = FALSE] ELSE form
  BY DEF Render, WorkInv, ComingFits
<1>3. /\ place = coming.place => Opens(coming.place)
      /\ place # coming.place => \/ place = "login" /\ cookie # "SESSION"
                                 \/ place = "denied" /\ ~Opens(coming.place)
  <2>1. Page(rights, coming.place, state, coming.about).gate = Gate(coming.place)
    BY Gates
  <2>2. Held(rights, Gate("denied")) /\ ~Protected("login")
    BY DEF Gate, Held, Anyone, Protected, PublicPages
  <2> HIDE DEF state
  <2>3. QED BY <2>1, <2>2 DEF Opened, Opens
<1>4. Held(rights, Anyone) /\ Gate("login") = Anyone /\ Gate("denied") = Anyone
  BY DEF Held, Anyone, Gate
<1>5. takes => place = coming.place
  <2>1. Page(rights, "denied", state, coming.about).token = FALSE
    BY DEF Page, DeniedPage, Screen
  <2>2. ~Protected("login")
    BY DEF Protected, PublicPages
  <2>3. QED BY <1>3, <2>1, <2>2
<1> HIDE DEF place, takes
<1>6. /\ IsGoing(coming') /\ coming' # Nowhere /\ coming'.place = place
      /\ coming'.same = coming.same /\ coming'.rendered /\ coming'.about = coming.about
      /\ coming'.status = IF place = coming.place THEN state ELSE "NONE"
      /\ coming'.token = IF takes THEN "good" ELSE "none"
  BY <1>2 DEF IsGoing, GoingShape, Nowhere
<1>7. IF form = NoForm THEN form' = NoForm
      ELSE /\ IsForm(form') /\ form' # NoForm
           /\ form'.control = form.control /\ form'.step = form.step
           /\ form'.here = form.here /\ form'.shown = form.shown /\ form'.phase = form.phase
  BY <1>2, FormGood DEF WorkInv, FormFits
<1>8. Stays' => Stays /\ place = coming.place
  BY <1>3, <1>6 DEF Stays
<1>9. FormFits'
  BY <1>2, <1>6, <1>7 DEF WorkInv, FormFits
<1>10. ComingFits'
  <2>1. coming.same /\ coming.place = "reports" => actual = "NONE"
    <3> SUFFICES ASSUME coming.same, coming.place = "reports" PROVE actual = "NONE"
      OBVIOUS
    <3>1. SameRecord("reports", view.place)
      BY <1>2 DEF WorkInv, ComingFits, Stays
    <3>2. view.place = "reports"
      BY <3>1, SameRecordCases DEF DispatchPlaces, IssuancePlaces
    <3>3. QED BY <3>2 DEF WorkInv, UpToDate
  <2>2. coming'.place = "edit of dispatch" => coming'.same
    BY <1>2, <1>3, <1>6 DEF WorkInv, ComingFits
  <2>3. Stays' => SameRecord(coming'.place, view'.place)
    BY <1>2, <1>6, <1>8 DEF WorkInv, ComingFits
  <2>4. coming'.place = "reports" => coming'.status = "NONE"
    BY <1>2, <1>6, <2>1 DEF WorkInv, ComingFits
  <2>5. QED BY <1>6, <2>2, <2>3, <2>4 DEF ComingFits
<1>11. DraftsShown'
  <2>1. Stays' /\ coming'.place \in DispatchPlaces
          => coming'.status = actual' /\ view'.place \in DispatchPlaces
    BY <1>2, <1>6, <1>8, SameRecordCases
       DEF WorkInv, ComingFits, Stays, DispatchPlaces, IssuancePlaces
  <2>2. QED BY <1>2, <2>1 DEF WorkInv, DraftsShown
<1>12. TokensFit'
  <2>1. Shown' = Shown
    BY <1>1, <1>2 DEF Shown
  <2>2. token' = "good" => token = "good"
    BY <1>2 DEF Taken
  <2>3. token' # "form" /\ coming'.token # "form"
    <3>1. token # "form"
      BY DEF WorkInv, TokensFit
    <3>2. token' \in {token, "other"}
      BY <1>2 DEF Taken
    <3>3. coming'.token \in {"good", "none"}
      BY <1>6
    <3>4. QED BY <3>1, <3>2, <3>3
  <2>4. coming'.token = "good" =>
            /\ Protected(coming'.place)
            /\ Page(rights', coming'.place, coming'.status, coming'.about).token
    BY <1>1, <1>5, <1>6 DEF takes
  <2>5. Editing(rights, view.place, view.status)' = Editing(rights, view.place, view.status)
    BY <1>1, <1>2 DEF Editing
  <2>6. QED
    BY <1>1, <1>2, <1>6, <1>7, <2>1, <2>2, <2>3, <2>4, <2>5 DEF WorkInv, TokensFit
<1>13. SignedOut'
  <2>1. coming'.place # coming.place /\ ~Protected(coming'.place) => cookie # "SESSION"
    BY <1>3, <1>6 DEF Protected, PublicPages
  <2>2. QED BY <1>2, <1>7, <2>1 DEF WorkInv, SignedOut, Protected
<1>14. UpToDate'
  <2>1. form # NoForm => form.shown
    BY <1>2 DEF WorkInv, FormFits
  <2>2. Stays' => coming'.status = actual
    BY <1>6, <1>8 DEF Stays
  <2>3. QED BY <1>2, <1>6, <1>7, <2>1, <2>2 DEF WorkInv, UpToDate
<1>15. ScreensOpen'
  <2>1. Opens(view.place)' = Opens(view.place) /\ Opens(coming.place)' = Held(rights, Gate(place))
    BY <1>1, <1>2, <1>6 DEF Opens
  <2>2. Held(rights, Gate(place))
    BY <1>3, <1>4 DEF Opens
  <2>3. place = "denied" => view.place \in {"schedule", "denied"}
    BY <1>2, <1>3 DEF WorkInv, ScreensOpen
  <2>4. form' # NoForm => form'.control.then \in {"refresh", "stay", "next"}
                          \/ Opens(form.control.then)'
    BY <1>1, <1>7 DEF WorkInv, ScreensOpen, Opens
  <2>5. QED BY <1>2, <1>6, <2>1, <2>2, <2>3, <2>4 DEF WorkInv, ScreensOpen
<1>16. QED BY <1>2, <1>9, <1>10, <1>11, <1>12, <1>13, <1>14, <1>15 DEF WorkInv

\* The screen arrives.
LEMMA ArriveKeeps == WorkInv /\ Arrive => WorkInv'
<1> SUFFICES ASSUME WorkInv, Arrive PROVE WorkInv'
  OBVIOUS
<1>1. rights' = rights
  BY RightsStay DEF Arrive
<1>2. /\ coming # Nowhere /\ IsGoing(coming) /\ coming.rendered /\ coming' = Nowhere
      /\ view'.place = coming.place /\ view'.status = coming.status
      /\ view'.about = coming.about
      /\ actual' = IF Stays THEN actual ELSE coming.status
      /\ token' = coming.token
      /\ UNCHANGED <<role, cookie, drift, saved>>
  BY DEF Arrive, WorkInv, ComingFits
<1>3. IF form = NoForm THEN form' = NoForm
      ELSE /\ IsForm(form') /\ form' # NoForm
           /\ form'.control = form.control /\ form'.step = form.step
           /\ form'.here <=> form.here /\ Stays /\ coming.place = view.place
           /\ form'.shown <=> form.shown /\ Stays
           /\ form'.phase = form.phase
  <2>1. CASE form # NoForm
    <3>1. PICK x \in BOOLEAN, y \in BOOLEAN :
              /\ x <=> form.here /\ Stays /\ coming.place = view.place
              /\ y <=> form.shown /\ Stays
              /\ form' = [form EXCEPT !.here = x, !.shown = y]
      BY <2>1 DEF Arrive, Stays
    <3>2. IsForm(form)
      BY <2>1 DEF WorkInv, FormFits
    <3>3. /\ IsForm(form') /\ form' # NoForm
          /\ form'.control = form.control /\ form'.step = form.step
          /\ form'.here = x /\ form'.shown = y /\ form'.phase = form.phase
      BY <3>1, <3>2 DEF IsForm, FormShape, NoForm
    <3>4. QED BY <2>1, <3>1, <3>3
  <2>2. QED BY <2>1 DEF Arrive
<1>4. Stays => /\ SameRecord(coming.place, view.place)
               /\ coming.place \in DispatchPlaces <=> view.place \in DispatchPlaces
               /\ coming.place = "reports" <=> view.place = "reports"
  BY <1>2, SameRecordCases DEF WorkInv, ComingFits, DispatchPlaces, IssuancePlaces
<1>5. form # NoForm => form.here /\ form.shown
  BY <1>2 DEF WorkInv, FormFits
<1>6. FormFits'
  BY <1>2, <1>3, <1>4, <1>5 DEF WorkInv, FormFits
<1>7. ComingFits'
  BY <1>2 DEF ComingFits
<1>8. DraftsShown'
  BY <1>2 DEF WorkInv, DraftsShown
<1>9. TokensFit'
  <2>1. Shown' = Page(rights, coming.place, coming.status, coming.about)
    BY <1>1, <1>2 DEF Shown
  <2>2. token' = "good" /\ Protected(view'.place) => Shown'.token
    BY <1>2, <2>1 DEF WorkInv, TokensFit
  <2>3. ASSUME form' # NoForm, form'.here, form'.control.token = "fresh",
               form'.control.id # "sign out"
        PROVE  view'.place \in DispatchPlaces /\ ~Editing(rights', view'.place, view'.status)
    <3>1. view.place \in DispatchPlaces /\ ~Editing(rights, view.place, view.status)
      BY <1>3, <1>5, <2>3 DEF WorkInv, TokensFit
    <3>2. Stays /\ coming.place = view.place
      BY <1>3, <2>3
    <3>3. coming.status = "DRAFT" => view.status = "DRAFT"
      BY <1>2, <3>1, <3>2 DEF WorkInv, DraftsShown
    <3>4. QED BY <1>1, <1>2, <3>1, <3>2, <3>3 DEF Editing
  <2>4. QED BY <1>2, <2>2, <2>3 DEF WorkInv, TokensFit
<1>10. SignedOut'
  BY <1>2, <1>3, <1>5 DEF WorkInv, SignedOut, FormFits
<1>11. UpToDate'
  BY <1>2, <1>3, <1>4, <1>5 DEF WorkInv, UpToDate, ComingFits
<1>12. ScreensOpen'
  BY <1>1, <1>2, <1>3 DEF WorkInv, ScreensOpen, Opens
<1>13. QED BY <1>2, <1>6, <1>7, <1>8, <1>9, <1>10, <1>11, <1>12 DEF WorkInv

\* A form is submitted.
LEMMA SubmitKeeps == ASSUME NEW c \in Offered PROVE WorkInv /\ Submit(c) => WorkInv'
<1> SUFFICES ASSUME WorkInv, Submit(c) PROVE WorkInv'
  OBVIOUS
<1>1. rights' = rights
  BY RightsStay DEF Submit
<1>2. /\ form = NoForm /\ UNCHANGED <<role, cookie, view, actual, token, coming, drift>>
      /\ saved' = FALSE
  BY DEF Submit
<1>3. /\ c \in PublicForms \/ ProtectedForm(c)
      /\ c \in PublicForms <=> ~Protected(view.place)
      /\ view.place \in DispatchPlaces => c \in DispatchForms \cup {LogoutButton}
      /\ c.then = "stay" => view.place = "reports"
      /\ c.token = "fresh" /\ c.id # "sign out" =>
             view.place \in DispatchPlaces /\ ~Editing(rights, view.place, view.status)
      /\ c.then \in {"refresh", "stay", "next"} \/ Opens(c.then)
  BY OfferedForm DEF WorkInv, ScreensOpen
<1>4. 1 \in DOMAIN c.sends
  <2>1. Len(c.sends) \in {1, 2} /\ DOMAIN c.sends = 1 .. Len(c.sends)
    BY <1>3, PublicForm DEF ProtectedForm, FromSession
  <2>2. QED BY <2>1
<1>5. /\ IsForm(form') /\ form' # NoForm /\ form'.control = c /\ form'.here /\ form'.shown
      /\ form'.phase = "asking" => c.token \in {"fresh", "mount"}
  BY <1>4 DEF Submit, IsForm, FormShape, NoForm
<1>6. FormFits'
  BY <1>2, <1>3, <1>5 DEF FormFits, Protected
<1>7. ComingFits' /\ DraftsShown'
  BY <1>2 DEF WorkInv, ComingFits, DraftsShown, Stays
<1>8. TokensFit'
  BY <1>1, <1>2, <1>3, <1>5 DEF WorkInv, TokensFit, Shown, Editing
<1>9. SignedOut'
  BY <1>2, <1>3, <1>5 DEF WorkInv, SignedOut, Protected
<1>10. UpToDate'
  BY <1>2, <1>5 DEF WorkInv, UpToDate
<1>11. ScreensOpen'
  BY <1>1, <1>2, <1>3, <1>5 DEF WorkInv, ScreensOpen, Opens
<1>12. QED BY <1>2, <1>6, <1>7, <1>8, <1>9, <1>10, <1>11 DEF WorkInv

\* A form asks for its token.
LEMMA AskKeeps == ASSUME NEW lost PROVE WorkInv /\ Ask(lost) => WorkInv'
<1> SUFFICES ASSUME WorkInv, Ask(lost) PROVE WorkInv'
  OBVIOUS
<1> DEFINE answered == Verdict(AskRoute(form.control), cookie, rights, FALSE) = "accepted"
           spender == IF form.here /\ form.control.id # "sign out" THEN "form" ELSE "other"
           mounted == form.here /\ form.control.token = "mount"
<1>1. rights' = rights
  BY RightsStay DEF Ask
<1>2. /\ form # NoForm /\ form.phase = "asking" /\ IsForm(form)
      /\ UNCHANGED <<role, cookie, view, actual, drift, saved>>
      /\ coming' = IF answered /\ coming # Nowhere /\ coming.token = "good"
                   THEN [coming EXCEPT
                           !.token = IF coming.place = view.place THEN spender ELSE "other"]
                   ELSE coming
      /\ IF answered /\ ~lost
         THEN /\ form' = [form EXCEPT !.phase = "sending", !.good = TRUE]
              /\ token' = IF mounted THEN "good" ELSE Taken(spender)
         ELSE /\ form' = NoForm
              /\ token' = IF mounted THEN "lost" ELSE IF answered THEN Taken(spender) ELSE token
  BY DEF Ask, WorkInv, FormFits
<1>3. /\ form.control \in PublicForms \/ ProtectedForm(form.control)
      /\ form.control.token \in {"fresh", "mount"}
      /\ form.here => (form.control \in PublicForms <=> ~Protected(view.place))
      /\ coming # Nowhere => form.here
  BY <1>2 DEF WorkInv, FormFits
<1>4. mounted => ~Protected(view.place)
  BY <1>3 DEF ProtectedForm, FromSession
<1>5. spender = "form" /\ ~mounted =>
          view.place \in DispatchPlaces /\ ~Editing(rights, view.place, view.status)
  BY <1>2, <1>3 DEF WorkInv, TokensFit
\* The screen that waits for the dialog's token holds none of its own.
<1>6. spender = "form" /\ ~mounted => token # "good"
  <2> SUFFICES ASSUME spender = "form", ~mounted PROVE token # "good"
    OBVIOUS
  <2>1. ~Shown.token
    BY <1>5, DispatchOffers DEF Shown
  <2>2. Protected(view.place)
    BY <1>5 DEF Protected, PublicPages, DispatchPlaces
  <2>3. QED BY <2>1, <2>2 DEF WorkInv, TokensFit
\* Nor does one of the same place that is on its way.
<1>7. spender = "form" /\ coming # Nowhere /\ coming.token = "good" => coming.place # view.place
  <2> SUFFICES ASSUME spender = "form", coming # Nowhere, coming.token = "good",
                      coming.place = view.place
               PROVE  FALSE
    OBVIOUS
  <2>1. /\ coming.rendered /\ Protected(view.place)
        /\ Page(rights, view.place, coming.status, coming.about).token
    BY DEF WorkInv, TokensFit
  <2>2. view.place \in DispatchPlaces /\ ~Editing(rights, view.place, view.status)
    BY <1>4, <1>5, <2>1
  <2>3. Editing(rights, view.place, coming.status)
    BY <2>1, <2>2, DispatchOffers
  <2>4. Stays
    BY <2>2, <2>3 DEF WorkInv, ComingFits, Stays, Editing
  <2>5. view.status = "DRAFT"
    BY <2>1, <2>2, <2>3, <2>4 DEF WorkInv, DraftsShown, Editing
  <2>6. QED BY <2>2, <2>3, <2>5 DEF Editing
<1>8. spender \in {"form", "other"}
  OBVIOUS
<1> HIDE DEF answered, spender, mounted
<1>9. \/ form' = NoForm
      \/ /\ IsForm(form') /\ form' # NoForm
         /\ form'.control = form.control /\ form'.step = form.step
         /\ form'.here = form.here /\ form'.shown = form.shown /\ form'.phase = "sending"
  BY <1>2, FormSending
<1>10. IF coming = Nowhere THEN coming' = Nowhere
       ELSE /\ IsGoing(coming') /\ coming' # Nowhere /\ coming'.place = coming.place
            /\ coming'.same = coming.same /\ coming'.status = coming.status
            /\ coming'.rendered = coming.rendered /\ coming'.about = coming.about
            /\ coming'.token # "form" /\ (coming'.token = "good" => coming.token = "good")
  <2>1. CASE answered /\ coming # Nowhere /\ coming.token = "good"
    <3>1. PICK v \in {"other"} : coming' = [coming EXCEPT !.token = v]
      BY <1>2, <1>7, <1>8, <2>1
    <3>2. IsGoing(coming)
      BY <2>1 DEF WorkInv, ComingFits
    <3>3. QED BY <2>1, <3>1, <3>2 DEF IsGoing, GoingShape, Nowhere
  <2>2. CASE ~(answered /\ coming # Nowhere /\ coming.token = "good")
    BY <1>2, <2>2 DEF WorkInv, ComingFits, TokensFit
  <2>3. QED BY <2>1, <2>2
<1>11. token' # "form" /\ (token' = "good" => mounted \/ token = "good")
  BY <1>2, <1>6, <1>8 DEF Taken, WorkInv, TokensFit
<1>12. FormFits'
  BY <1>2, <1>9, <1>10 DEF WorkInv, FormFits
<1>13. ComingFits' /\ DraftsShown'
  BY <1>2, <1>10 DEF WorkInv, ComingFits, DraftsShown, Stays
<1>14. TokensFit'
  BY <1>1, <1>2, <1>4, <1>9, <1>10, <1>11 DEF WorkInv, TokensFit, Shown
<1>15. SignedOut'
  BY <1>2, <1>9, <1>10 DEF WorkInv, SignedOut
<1>16. UpToDate'
  BY <1>2, <1>9 DEF WorkInv, UpToDate
<1>17. ScreensOpen'
  BY <1>1, <1>2, <1>9, <1>10 DEF WorkInv, ScreensOpen, Opens
<1>18. QED BY <1>2, <1>12, <1>13, <1>14, <1>15, <1>16, <1>17 DEF WorkInv

\* A form that the server accepts: what it asked for and what its credential becomes.
LEMMA DeliverCredential ==
    ASSUME WorkInv, form # NoForm,
           Verdict(form.control.sends[form.step], cookie, rights, form.good) = "accepted",
           NEW next \in Credentials(form.control, form.step)
    PROVE  /\ form.control \notin PublicForms => cookie = "SESSION"
           /\ form.control.then = "login" => next = "NONE"
           /\ form.control.then = "next" => next \in Challenges \cup {"SESSION"}
           /\ form.control.then = "account" /\ LastStep(form.control) => next = "SESSION"
<1> DEFINE c == form.control
<1>1. cookie \in c.sends[form.step].by
  BY DEF Verdict
<1>2. form.step \in DOMAIN c.sends /\ (c \in PublicForms \/ ProtectedForm(c))
  BY DEF WorkInv, FormFits, IsForm
<1> HIDE DEF c
<1>3. c \notin PublicForms => cookie = "SESSION"
  BY <1>1, <1>2 DEF ProtectedForm, FromSession, OnSession
<1>4. ASSUME c.then = "login" PROVE next = "NONE"
  <2>1. c.id \in {"sign out", "require factor"}
    BY <1>2, <1>4, PublicForm DEF ProtectedForm
  <2>2. Credentials(c, form.step) = {"NONE"}
    BY <2>1 DEF Credentials, EndsOwnSession
  <2>3. QED BY <2>2 DEF c
<1>5. ASSUME c.then = "next" PROVE next \in Challenges \cup {"SESSION"}
  <2>1. c.id \in {"sign in", "change password"}
    BY <1>2, <1>5, PublicForm DEF ProtectedForm, Thens, RecordPlaces
  <2>2. c.id = "sign in" => Credentials(c, form.step) = Challenges \cup {"SESSION"}
    BY DEF Credentials, EndsOwnSession
  <2>3. c.id = "change password" =>
            Credentials(c, form.step) = {"SESSION", "TOTP_ENROLLMENT", "TOTP_VERIFICATION"}
    BY DEF Credentials, EndsOwnSession
  <2>4. QED BY <2>1, <2>2, <2>3 DEF c, Challenges
<1>6. ASSUME c.then = "account", LastStep(c) PROVE next = "SESSION"
  <2>1. c \in PublicForms
    BY <1>2, <1>6 DEF ProtectedForm, Thens, RecordPlaces
  <2>2. c.id = "verify code" \/ (c.id = "enroll" /\ Len(c.sends) = 2)
    BY <1>6, <2>1, PublicForm
  <2>3. c.id = "verify code" \/ (c.id = "enroll" /\ form.step = 2)
    BY <1>6, <2>2 DEF LastStep
  <2>4. Credentials(c, form.step) = {"SESSION"}
    BY <2>3 DEF Credentials, EndsOwnSession
  <2>5. QED BY <2>4 DEF c
<1>7. QED BY <1>3, <1>4, <1>5, <1>6 DEF c

\* Where a saved form goes: a screen that opens and is not yet rendered, and one of signing
\* in only when the form has left no session.
GoesOn(h, next) ==
    /\ h # Nowhere /\ IsGoing(h) /\ ~h.rendered /\ h.token = "none"
    /\ h.same => SameRecord(h.place, view.place)
    /\ h.place = "edit of dispatch" => h.same
    /\ h.place = "reports" => h.status = "NONE"
    /\ \/ Opens(h.place) /\ h.place # "denied"
       \/ view.place \in {"schedule", "denied"}
    /\ Protected(view.place) /\ ~Protected(h.place) => next # "SESSION"
\* Where an accepted form leads is a screen the user may open.
LEMMA OnwardFits ==
    ASSUME WorkInv, form # NoForm, LastStep(form.control), NEW state,
           Verdict(form.control.sends[form.step], cookie, rights, form.good) = "accepted",
           NEW next \in Credentials(form.control, form.step),
           form.control.then # "stay"
    PROVE  GoesOn(Onward(form.control, next, state), next)
<1> SUFFICES ASSUME NEW h, h = Onward(form.control, next, state) PROVE GoesOn(h, next)
  OBVIOUS
<1> USE DEF GoesOn
<1> DEFINE c == form.control
<1>1. /\ c.then = "login" => next = "NONE"
      /\ c.then = "next" => next \in Challenges \cup {"SESSION"}
  BY DeliverCredential
<1>2. /\ c \in PublicForms \/ ProtectedForm(c)
      /\ c.then \in {"refresh", "stay", "next"} \/ Opens(c.then)
  BY DEF WorkInv, FormFits, ScreensOpen
<1>3. c.then \in RecordPlaces \cup {"refresh", "stay", "login", "next", "account"}
  BY <1>2, PublicForm DEF ProtectedForm, Thens
<1>4. SameRecord(view.place, view.place)
  BY SameRecordCases
<1>5. Held(rights, Anyone)
  BY DEF Held, Anyone
<1> HIDE DEF c
<1>6. CASE c.then = "refresh"
  <2>1. Onward(c, next, state) = Again
    BY <1>6 DEF Onward
  <2>2. h = Going(view.place, view.about, TRUE, "NONE")
    BY <2>1 DEF Again, c
  <2>3. QED BY <1>4, <2>2 DEF WorkInv, ScreensOpen, Going, IsGoing, GoingShape, Nowhere
<1>7. CASE c.then = "next"
  <2>1. Onward(c, next, state) = Going(nextAuthenticationPath(next), NoSubject, FALSE, "NONE")
    BY <1>7 DEF Onward
  <2>2. /\ nextAuthenticationPath(next) \in PublicPages \cup {"account"}
        /\ nextAuthenticationPath(next) \in PublicPages => next # "SESSION"
    BY <1>1, <1>7 DEF nextAuthenticationPath, PublicPages, Challenges
  <2>3. Opens(nextAuthenticationPath(next))
    BY <1>5, <2>2 DEF Opens, Gate, PublicPages
  <2>4. h = Going(nextAuthenticationPath(next), NoSubject, FALSE, "NONE")
    BY <2>1 DEF c
  <2>5. /\ h.place = nextAuthenticationPath(next) /\ h.same = FALSE
        /\ h # Nowhere /\ IsGoing(h) /\ ~h.rendered /\ h.token = "none" /\ h.status = "NONE"
    BY <2>4 DEF Going, IsGoing, GoingShape, Nowhere
  <2>6. QED BY <2>2, <2>3, <2>5 DEF Protected, PublicPages
<1>8. CASE c.then \in {"login", "account"}
  <2>1. Onward(c, next, state) = Going(c.then, NoSubject, FALSE, "NONE")
    BY <1>8 DEF Onward
  <2>2. h = Going(c.then, NoSubject, FALSE, "NONE")
    BY <2>1 DEF c
  <2>3. /\ h.place = c.then /\ h.same = FALSE
        /\ h # Nowhere /\ IsGoing(h) /\ ~h.rendered /\ h.token = "none" /\ h.status = "NONE"
    BY <2>2 DEF Going, IsGoing, GoingShape, Nowhere
  <2>4. c.then = "login" => next # "SESSION"
    BY <1>1
  <2>5. QED BY <1>2, <1>8, <2>3, <2>4 DEF Protected, PublicPages
<1>9. CASE c.then \in RecordPlaces
  <2>1. Onward(c, next, state) =
            IF form.shown /\ SameRecord(c.then, view.place)
            THEN Going(c.then, form.about, TRUE, "NONE")
            ELSE Going(c.then, form.about, FALSE, state)
    BY <1>9 DEF Onward, RecordPlaces
  <2>2. CASE form.shown /\ SameRecord(c.then, view.place)
    <3>1. h = Going(c.then, form.about, TRUE, "NONE")
      BY <2>1, <2>2 DEF c
    <3>2. /\ h.place = c.then
          /\ h # Nowhere /\ IsGoing(h) /\ ~h.rendered /\ h.token = "none" /\ h.status = "NONE"
      BY <3>1 DEF Going, IsGoing, GoingShape, Nowhere
    <3>3. QED BY <1>2, <1>9, <2>2, <3>2 DEF RecordPlaces, Protected, PublicPages
  <2>3. CASE ~(form.shown /\ SameRecord(c.then, view.place))
    <3>1. h = Going(c.then, form.about, FALSE, state)
      BY <2>1, <2>3 DEF c
    <3>2. /\ h.place = c.then /\ h.same = FALSE
          /\ h # Nowhere /\ IsGoing(h) /\ ~h.rendered /\ h.token = "none"
      BY <3>1 DEF Going, IsGoing, GoingShape, Nowhere
    <3>3. QED BY <1>2, <1>9, <3>2 DEF RecordPlaces, Protected, PublicPages
  <2>4. QED BY <2>2, <2>3
<1>10. QED BY <1>3, <1>6, <1>7, <1>8, <1>9 DEF c

\* A form's request is answered.
LEMMA DeliverKeeps == ASSUME NEW lost \in BOOLEAN PROVE WorkInv /\ Deliver(lost) => WorkInv'
<1> SUFFICES ASSUME WorkInv, Deliver(lost) PROVE WorkInv'
  OBVIOUS
<1> DEFINE c == form.control
<1>1. rights' = rights
  BY RightsStay DEF Deliver
<1>2. PICK next \in Credentials(c, form.step), before \in StatesBefore(c) :
          \E state \in c.moves[before] :
            /\ cookie' = next
            /\ actual' = IF LastStep(c) /\ form.shown /\ view.status # "NONE" THEN state ELSE actual
            /\ IF Proceeds(TRUE, lost)
               THEN /\ saved' = LastStep(c)
                    /\ form' = IF LastStep(c) THEN NoForm ELSE [form EXCEPT !.step = @ + 1]
                    /\ coming' = IF LastStep(c) THEN Onward(c, next, state) ELSE coming
               ELSE form' = NoForm /\ UNCHANGED <<saved, coming>>
  BY DEF Deliver
<1>3. PICK state \in c.moves[before] :
        /\ cookie' = next
        /\ actual' = IF LastStep(c) /\ form.shown /\ view.status # "NONE" THEN state ELSE actual
        /\ IF Proceeds(TRUE, lost)
           THEN /\ saved' = LastStep(c)
                /\ form' = IF LastStep(c) THEN NoForm ELSE [form EXCEPT !.step = @ + 1]
                /\ coming' = IF LastStep(c) THEN Onward(c, next, state) ELSE coming
           ELSE form' = NoForm /\ UNCHANGED <<saved, coming>>
  BY <1>2
<1>4. /\ form # NoForm /\ form.phase = "sending"
      /\ Verdict(c.sends[form.step], cookie, rights, form.good) = "accepted"
      /\ UNCHANGED <<role, view, token, drift>>
  BY DEF Deliver
<1>5. /\ IsForm(form) /\ (c \in PublicForms \/ ProtectedForm(c))
      /\ form.here => form.shown /\ (c \in PublicForms <=> ~Protected(view.place))
      /\ coming # Nowhere => form.here
      /\ form.shown /\ view.place \in DispatchPlaces => c \in DispatchForms \cup {LogoutButton}
      /\ form.shown /\ c.then = "stay" => view.place = "reports"
      /\ ~saved
  BY <1>4 DEF WorkInv, FormFits, UpToDate
<1>6. c \notin PublicForms => cookie = "SESSION"
  BY <1>3, <1>4, DeliverCredential
<1>7. coming # Nowhere /\ Protected(view.place) => Protected(coming.place)
  BY <1>5, <1>6 DEF WorkInv, SignedOut
<1>8. view.place \in DispatchPlaces /\ actual' = "DRAFT" => actual = "DRAFT"
  <2> SUFFICES ASSUME view.place \in DispatchPlaces, actual' = "DRAFT", actual' # actual
               PROVE  actual = "DRAFT"
    OBVIOUS
  <2>1. form.shown /\ state = "DRAFT" /\ before = actual /\ before \in DOMAIN c.moves
    BY <1>3 DEF StatesBefore
  <2>2. c \in DispatchForms \cup {LogoutButton}
    BY <1>5, <2>1
  <2>3. c = LogoutButton => state = before
    <3> SUFFICES ASSUME c = LogoutButton PROVE state = before
      OBVIOUS
    <3>1. c.moves = Kept(States)
      BY LogoutForm
    <3>2. \A x \in DOMAIN Kept(States) : Kept(States)[x] = {x}
      BY DEF Kept
    <3> HIDE DEF c
    <3>3. QED BY <2>1, <3>1, <3>2
  <2>4. QED BY <1>3, <2>1, <2>2, <2>3, DispatchMoves
\* The form is done, it goes on with its next request, or its answer is lost.
<1>9. CASE Proceeds(TRUE, lost) /\ LastStep(c) /\ c.then # "stay"
  <2> DEFINE h == Onward(c, next, state)
  <2>1. form' = NoForm /\ saved' /\ coming' = h
    BY <1>3, <1>9
  <2>2. GoesOn(h, next)
    BY <1>3, <1>4, <1>9, OnwardFits
  <2> HIDE DEF h
  <2> USE DEF GoesOn
  <2>4. FormFits'
    BY <2>1 DEF FormFits
  <2>5. ComingFits'
    BY <1>4, <2>1, <2>2 DEF ComingFits, Stays
  <2>6. DraftsShown'
    BY <1>4, <1>8, <2>1, <2>2 DEF WorkInv, DraftsShown
  <2>7. TokensFit'
    BY <1>1, <1>4, <2>1, <2>2 DEF WorkInv, TokensFit, Shown
  <2>8. SignedOut'
    BY <1>3, <1>4, <2>1, <2>2 DEF SignedOut, Protected
  <2>9. UpToDate'
    BY <1>3, <1>4, <2>1, <2>2 DEF WorkInv, UpToDate
  <2>10. ScreensOpen'
    BY <1>1, <1>4, <2>1, <2>2 DEF WorkInv, ScreensOpen, Opens
  <2>11. QED BY <1>4, <2>4, <2>5, <2>6, <2>7, <2>8, <2>9, <2>10 DEF WorkInv
<1>10. CASE Proceeds(TRUE, lost) /\ LastStep(c) /\ c.then = "stay"
  <2>1. form' = NoForm /\ saved' /\ coming' = coming
    BY <1>3, <1>10 DEF Onward
  <2>2. actual' = actual
    BY <1>3, <1>5, <1>10 DEF WorkInv, UpToDate
  <2>3. FormFits'
    BY <2>1 DEF FormFits
  <2>4. ComingFits' /\ DraftsShown'
    BY <1>4, <2>1, <2>2 DEF WorkInv, ComingFits, DraftsShown, Stays
  <2>5. TokensFit'
    BY <1>1, <1>4, <2>1 DEF WorkInv, TokensFit, Shown
  <2>6. SignedOut'
    BY <1>4, <1>7, <2>1 DEF SignedOut, Protected
  <2>7. UpToDate'
    <3>1. CASE coming = Nowhere
      <4>1. ~drift => view.status = actual
        BY <1>4, <1>5, <1>10 DEF WorkInv, UpToDate
      <4>2. QED BY <1>4, <2>1, <2>2, <3>1, <4>1 DEF WorkInv, UpToDate
    <3>2. CASE coming # Nowhere
      <4>1. view.place = "reports" /\ actual = "NONE"
        BY <1>5, <1>10, <3>2 DEF WorkInv, UpToDate
      <4>2. Stays => coming.status = "NONE"
        BY <3>2, <4>1, SameRecordCases DEF WorkInv, ComingFits, DispatchPlaces, IssuancePlaces
      <4>3. QED BY <1>4, <2>1, <2>2, <3>2, <4>1, <4>2 DEF WorkInv, UpToDate, Stays
    <3>3. QED BY <3>1, <3>2
  <2>8. ScreensOpen'
    BY <1>1, <1>4, <2>1 DEF WorkInv, ScreensOpen, Opens
  <2>9. QED BY <1>4, <2>3, <2>4, <2>5, <2>6, <2>7, <2>8 DEF WorkInv
<1>11. CASE Proceeds(TRUE, lost) /\ ~LastStep(c)
  <2>1. ~saved' /\ coming' = coming /\ actual' = actual
    BY <1>3, <1>11
  <2>2. form.step + 1 \in DOMAIN c.sends
    <3>1. Len(c.sends) \in {1, 2} /\ DOMAIN c.sends = 1 .. Len(c.sends)
      BY <1>5, PublicForm DEF ProtectedForm, FromSession
    <3>2. form.step \in 1 .. Len(c.sends) /\ form.step # Len(c.sends)
      BY <1>5, <1>11, <3>1 DEF IsForm, LastStep
    <3>3. QED BY <3>1, <3>2
  <2>3. /\ IsForm(form') /\ form' # NoForm /\ form'.control = c /\ form'.here = form.here
        /\ form'.shown = form.shown /\ form'.phase = form.phase
    <3>1. PICK n \in DOMAIN c.sends : form' = [form EXCEPT !.step = n]
      BY <1>3, <1>11, <2>2
    <3>2. QED BY <1>5, <3>1 DEF IsForm, FormShape, NoForm
  <2>4. FormFits'
    BY <1>4, <2>1, <2>3 DEF WorkInv, FormFits
  <2>5. ComingFits' /\ DraftsShown'
    BY <1>4, <2>1 DEF WorkInv, ComingFits, DraftsShown, Stays
  <2>6. TokensFit'
    BY <1>1, <1>4, <2>1, <2>3 DEF WorkInv, TokensFit, Shown
  <2>7. SignedOut'
    <3>1. ~Protected(view.place) => c \in PublicForms
      BY <1>4, <1>6 DEF WorkInv, SignedOut
    <3>2. QED BY <1>4, <1>7, <2>1, <2>3, <3>1 DEF SignedOut, Protected
  <2>8. UpToDate'
    BY <1>4, <2>1, <2>3 DEF WorkInv, UpToDate
  <2>9. ScreensOpen'
    BY <1>1, <1>4, <2>1, <2>3 DEF WorkInv, ScreensOpen, Opens
  <2>10. QED BY <1>4, <2>4, <2>5, <2>6, <2>7, <2>8, <2>9 DEF WorkInv
<1>12. CASE ~Proceeds(TRUE, lost)
  <2>1. form' = NoForm /\ ~saved' /\ coming' = coming
    BY <1>3, <1>5, <1>12
  <2>3. coming # Nowhere /\ Stays /\ coming.place \in DispatchPlaces => view.place \in DispatchPlaces
    BY SameRecordCases DEF WorkInv, ComingFits, DispatchPlaces, IssuancePlaces
  <2>4. FormFits'
    BY <2>1 DEF FormFits
  <2>5. ComingFits' /\ DraftsShown'
    BY <1>4, <1>8, <2>1, <2>3 DEF WorkInv, ComingFits, DraftsShown, Stays
  <2>6. TokensFit'
    BY <1>1, <1>4, <2>1 DEF WorkInv, TokensFit, Shown
  <2>7. SignedOut'
    BY <1>4, <1>7, <2>1 DEF SignedOut, Protected
  <2>8. UpToDate'
    BY <1>3, <1>4, <2>1 DEF WorkInv, UpToDate
  <2>9. ScreensOpen'
    BY <1>1, <1>4, <2>1 DEF WorkInv, ScreensOpen, Opens
  <2>10. QED BY <1>4, <2>4, <2>5, <2>6, <2>7, <2>8, <2>9 DEF WorkInv
<1>13. QED BY <1>9, <1>10, <1>11, <1>12

-----------------------------------------------------------------------------
\* The invariant holds: the work of a user of any seeded roles.
LEMMA WorkInitHolds == WorkInit => WorkInv
<1> SUFFICES ASSUME WorkInit PROVE WorkInv
  OBVIOUS
<1>1. Held(rights, Gate("login"))
  BY DEF Gate, Held, Anyone
<1>2. /\ view.place = "login" /\ view.status = "NONE" /\ actual = "NONE" /\ token = "none"
      /\ form = NoForm /\ coming = Nowhere /\ role \in UserRoles /\ ~saved
  BY DEF WorkInit
<1>3. QED
  BY <1>1, <1>2
     DEF WorkInv, FormFits, ComingFits, DraftsShown, TokensFit, SignedOut, UpToDate, ScreensOpen,
         Opens, DispatchPlaces

\* Every step keeps the invariant.
LEMMA WorkStepKeeps == WorkInv /\ [WorkNext]_workVars => WorkInv'
<1> SUFFICES ASSUME WorkInv, [WorkNext]_workVars PROVE WorkInv'
  OBVIOUS
<1>1. ASSUME NEW place \in Links, Follow(place) PROVE WorkInv'
  BY <1>1, FollowKeeps
<1>2. CASE Reload \/ Render \/ Arrive
  BY <1>2, ReloadKeeps, RenderKeeps, ArriveKeeps
<1>3. ASSUME NEW c \in Offered, Submit(c) PROVE WorkInv'
  BY <1>3, SubmitKeeps
<1>4. ASSUME NEW lost \in BOOLEAN, Ask(lost) \/ Deliver(lost) PROVE WorkInv'
  BY <1>4, AskKeeps, DeliverKeeps
<1>5. CASE Fail \/ Rotate \/ ChangeRecord \/ EndSession
  BY <1>5, FailKeeps, RotateKeeps, ChangeRecordKeeps, EndSessionKeeps
<1>6. CASE UNCHANGED workVars
  <2>1. UNCHANGED <<role, cookie, view, actual, token, form, coming, drift, saved>>
    BY <1>6 DEF workVars
  <2>2. rights' = rights
    BY <2>1, RightsStay
  <2>3. FormFits' /\ ComingFits' /\ DraftsShown'
    BY <2>1 DEF WorkInv, FormFits, ComingFits, DraftsShown, Stays
  <2>4. TokensFit' /\ SignedOut'
    BY <2>1, <2>2 DEF WorkInv, TokensFit, SignedOut, Shown
  <2>5. UpToDate' /\ ScreensOpen'
    BY <2>1, <2>2 DEF WorkInv, UpToDate, ScreensOpen, Opens, Stays
  <2>6. QED BY <2>1, <2>3, <2>4, <2>5 DEF WorkInv
<1>7. QED BY <1>1, <1>2, <1>3, <1>4, <1>5, <1>6 DEF WorkNext

\* The inductive invariant: what a form, a screen and a navigation on its way agree on.
THEOREM WorkInvariant == WorkSpec => []WorkInv
BY WorkInitHolds, WorkStepKeeps, PTL DEF WorkSpec

\* Nobody is locked out of a form by their own work.
THEOREM FormsKeepTheirToken == WorkSpec => []NoSelfLockout
<1>1. WorkInv => NoSelfLockout
  BY DEF WorkInv, TokensFit, NoSelfLockout
<1>2. QED BY <1>1, WorkInvariant, PTL

\* After a form was saved, whoever looks at the settled screen sees the record as it is.
THEOREM SavedScreensAreFresh == WorkSpec => []FreshAfterSave
<1>1. WorkInv => FreshAfterSave
  BY DEF WorkInv, UpToDate, FreshAfterSave
<1>2. QED BY <1>1, WorkInvariant, PTL

\* The screens of the later steps of signing in take the credential that leads to them.
LEMMA NextStepTakes ==
    ASSUME NEW next \in Challenges \cup {"SESSION"}
    PROVE  Takes(nextAuthenticationPath(next), next)
<1>1. CASE next = "SESSION"
  BY <1>1 DEF Takes, nextAuthenticationPath, Protected, PublicPages
<1>2. CASE next = "PASSWORD_CHANGE"
  <2>1. nextAuthenticationPath(next) = "password change"
    BY <1>2 DEF nextAuthenticationPath
  <2>2. /\ Page(rights, "password change", "NONE", NoSubject).offers = {PasswordChangeForm}
        /\ PasswordChangeForm.sends = <<ChangePassword>>
    BY DEF Page, PasswordChangePage, Screen, PasswordChangeForm, MountForm, Control
  <2>3. next \in ChangePassword.by
    BY <1>2 DEF ChangePassword, Route
  <2>4. ~Protected("password change")
    BY DEF Protected, PublicPages
  <2>5. \A c \in {PasswordChangeForm} : \A i \in DOMAIN c.sends : next \in c.sends[i].by
    <3>1. \A i \in DOMAIN <<ChangePassword>> : <<ChangePassword>>[i] = ChangePassword
      OBVIOUS
    <3>2. QED BY <2>2, <2>3, <3>1
  <2>6. QED BY <2>1, <2>2, <2>4, <2>5 DEF Takes
<1>3. CASE next = "TOTP_ENROLLMENT"
  <2>1. nextAuthenticationPath(next) = "enrollment"
    BY <1>3 DEF nextAuthenticationPath
  <2>2. /\ Page(rights, "enrollment", "NONE", NoSubject).offers = {TotpEnrollmentForm}
        /\ TotpEnrollmentForm.sends = <<StartEnrollment, ConfirmEnrollment>>
    BY DEF Page, EnrollmentPage, Screen, TotpEnrollmentForm, MountForm, Control
  <2>3. next \in StartEnrollment.by /\ next \in ConfirmEnrollment.by
    BY <1>3 DEF StartEnrollment, ConfirmEnrollment, Step, Route
  <2>4. QED BY <2>1, <2>2, <2>3 DEF Takes, Protected, PublicPages
<1>4. CASE next = "TOTP_VERIFICATION"
  <2>1. nextAuthenticationPath(next) = "verification"
    BY <1>4 DEF nextAuthenticationPath
  <2>2. /\ Page(rights, "verification", "NONE", NoSubject).offers = {TotpChallengeForm}
        /\ TotpChallengeForm.sends = <<VerifyChallenge>>
    BY DEF Page, VerificationPage, Screen, TotpChallengeForm, MountForm, Control
  <2>3. next \in VerifyChallenge.by
    BY <1>4 DEF VerifyChallenge, Step, Route
  <2>4. QED BY <2>1, <2>2, <2>3 DEF Takes, Protected, PublicPages
<1>5. QED BY <1>1, <1>2, <1>3, <1>4 DEF Challenges

\* Only an answer that arrives tells a form that it was saved.
LEMMA DeliverLeadsOn ==
    ASSUME NEW lost \in BOOLEAN, WorkInv, Deliver(lost), ~Protected(view.place), saved', ~saved
    PROVE  Takes(coming'.place, cookie')
<1> DEFINE c == form.control
<1>1. /\ form # NoForm
      /\ Verdict(c.sends[form.step], cookie, rights, form.good) = "accepted"
  BY DEF Deliver
<1>2. PICK next \in Credentials(c, form.step), before \in StatesBefore(c) :
          \E state \in c.moves[before] :
            /\ cookie' = next
            /\ IF Proceeds(TRUE, lost)
               THEN /\ saved' = LastStep(c)
                    /\ coming' = IF LastStep(c) THEN Onward(c, next, state) ELSE coming
               ELSE UNCHANGED saved
  BY DEF Deliver
<1>3. PICK state : cookie' = next /\ LastStep(c) /\ coming' = Onward(c, next, state)
  BY <1>2
<1>4. /\ c \notin PublicForms => cookie = "SESSION"
      /\ c.then = "next" => next \in Challenges \cup {"SESSION"}
  BY <1>1, DeliverCredential
<1>5. c \in PublicForms
  BY <1>1, <1>4 DEF WorkInv, SignedOut
<1> HIDE DEF c
<1>6. CASE c.then = "next"
  <2>1. coming' = Going(nextAuthenticationPath(next), NoSubject, FALSE, "NONE")
    BY <1>3, <1>6 DEF Onward
  <2>2. coming'.place = nextAuthenticationPath(next)
    BY <2>1 DEF Going
  <2>3. QED BY <1>3, <1>4, <1>6, <2>2, NextStepTakes
<1>7. CASE c.then = "account"
  <2>1. coming' = Going("account", NoSubject, FALSE, "NONE")
    BY <1>3, <1>7 DEF Onward
  <2>2. coming'.place = "account"
    BY <2>1 DEF Going
  <2>3. cookie' = "SESSION"
    BY <1>1, <1>3, <1>7, DeliverCredential DEF c
  <2>4. QED BY <2>2, <2>3 DEF Takes, Protected, PublicPages
<1>8. QED BY <1>5, <1>6, <1>7, PublicForm

\* Each step of signing in leads to a screen that takes the credential it earned.
THEOREM SignInLeads == WorkSpec => SignInLeadsOn
<1>1. WorkInv /\ [WorkNext]_workVars =>
          [~Protected(view.place) /\ saved' /\ ~saved => Takes(coming'.place, cookie')]_workVars
  <2> SUFFICES ASSUME WorkInv, WorkNext, ~Protected(view.place), saved', ~saved
               PROVE  Takes(coming'.place, cookie')
    OBVIOUS
  <2>1. \E lost \in BOOLEAN : Deliver(lost)
    BY DEF WorkNext, Follow, Reload, Render, Arrive, Submit, Ask, Fail, Rotate, ChangeRecord,
           EndSession
  <2>2. QED BY <2>1, DeliverLeadsOn
<1>2. QED BY <1>1, WorkInvariant, PTL DEF WorkSpec, SignInLeadsOn

-----------------------------------------------------------------------------
\* What the screens offer is let through: the routes, the forms, the screens.
Lets(g, route) == Verdict(route, "SESSION", g, TRUE) = "accepted"
LetsAll(g, c) == \A i \in DOMAIN c.sends : Lets(g, c.sends[i])
MayRead(g, query) == Verdict(query, "SESSION", g, FALSE) = "accepted"

\* A request asks for what its route needs, and then for what its use case does.
LEMMA WriteLets ==
    ASSUME NEW g, NEW needs, Held(g, needs)
    PROVE  /\ Lets(g, Write(needs)) /\ MayRead(g, Get(needs)) /\ Lets(g, Get(needs))
           /\ \A within : Held(g, within) => /\ Lets(g, Inside(Write(needs), within))
                                             /\ Lets(g, Inside(Get(needs), within))
<1>1. Held(g, Anyone)
  BY DEF Held, Anyone
<1>2. QED BY <1>1 DEF Lets, MayRead, Write, Get, Inside, Route, Verdict

\* A form of one request that the user may send.
LEMMA FormLets ==
    ASSUME NEW g, NEW id, NEW route, NEW then, NEW moves, Lets(g, route)
    PROVE  LetsAll(g, PageForm(id, route, then, moves)) /\ LetsAll(g, FreshForm(id, route, then, moves))
<1>1. PageForm(id, route, then, moves).sends = <<route>>
  BY PageFormFields
<1>2. FreshForm(id, route, then, moves).sends = <<route>>
  BY FreshFormFields
<1>3. \A i \in DOMAIN <<route>> : <<route>>[i] = route
  OBVIOUS
<1>4. QED BY <1>1, <1>2, <1>3 DEF LetsAll

\* The forms of dispatches and issuances.
LEMMA RecordFormsLet ==
    ASSUME NEW g
    PROVE  /\ Held(g, DispatchNeeds.create) => LetsAll(g, DispatchDraftCreate)
           /\ Held(g, DispatchNeeds.update) =>
                  LetsAll(g, DispatchDraftEdit) /\ LetsAll(g, DispatchConfirm)
           /\ Held(g, DispatchNeeds.complete) => LetsAll(g, DispatchComplete)
           /\ Held(g, DispatchNeeds.cancel) => LetsAll(g, DispatchCancel)
           /\ Held(g, DispatchNeeds.settings) => LetsAll(g, ScheduleSettingsForm)
           /\ Held(g, FuelNeeds.create) => LetsAll(g, FuelDraftCreate) /\ LetsAll(g, FuelDraftEdit)
           /\ Held(g, FuelNeeds.post) => LetsAll(g, FuelPost)
           /\ Held(g, FuelNeeds.void) => LetsAll(g, FuelVoid)
<1>1. /\ CreateDispatch = Write(DispatchNeeds.create)
      /\ UpdateDispatch = Write(DispatchNeeds.update)
      /\ DispatchVehicle = Write(DispatchNeeds.update)
      /\ CompleteDispatch = Write(DispatchNeeds.complete)
      /\ CancelDispatch = Write(DispatchNeeds.cancel)
      /\ UpdateScheduleSettings = Write(DispatchNeeds.settings)
  BY DEF CreateDispatch, UpdateDispatch, DispatchVehicle, CompleteDispatch, CancelDispatch,
         UpdateScheduleSettings, DispatchRequest, DispatchNeeds
<1>2. /\ CreateFuel = Write(FuelNeeds.create) /\ UpdateFuel = Write(FuelNeeds.create)
      /\ PostFuel = Write(FuelNeeds.post) /\ VoidFuel = Write(FuelNeeds.void)
  BY DEF CreateFuel, UpdateFuel, PostFuel, VoidFuel, FuelRequest, FuelNeeds
<1>3. Held(g, DispatchNeeds.create) => LetsAll(g, DispatchDraftCreate)
  BY <1>1, WriteLets, FormLets DEF DispatchDraftCreate
<1>4. Held(g, DispatchNeeds.update) => LetsAll(g, DispatchDraftEdit)
  BY <1>1, WriteLets, FormLets DEF DispatchDraftEdit
<1>5. Held(g, DispatchNeeds.update) => LetsAll(g, DispatchConfirm)
  BY <1>1, WriteLets, FormLets DEF DispatchConfirm
<1>6. Held(g, DispatchNeeds.complete) => LetsAll(g, DispatchComplete)
  BY <1>1, WriteLets, FormLets DEF DispatchComplete
<1>7. Held(g, DispatchNeeds.cancel) => LetsAll(g, DispatchCancel)
  BY <1>1, WriteLets, FormLets DEF DispatchCancel
<1>8. Held(g, DispatchNeeds.settings) => LetsAll(g, ScheduleSettingsForm)
  BY <1>1, WriteLets, FormLets DEF ScheduleSettingsForm
<1>9. Held(g, FuelNeeds.create) => LetsAll(g, FuelDraftCreate)
  BY <1>2, WriteLets, FormLets DEF FuelDraftCreate
<1>10. Held(g, FuelNeeds.create) => LetsAll(g, FuelDraftEdit)
  BY <1>2, WriteLets, FormLets DEF FuelDraftEdit
<1>11. Held(g, FuelNeeds.post) => LetsAll(g, FuelPost)
  BY <1>2, WriteLets, FormLets DEF FuelPost
<1>12. Held(g, FuelNeeds.void) => LetsAll(g, FuelVoid)
  BY <1>2, WriteLets, FormLets DEF FuelVoid
<1>13. QED
  BY <1>3, <1>4, <1>5, <1>6, <1>7, <1>8, <1>9, <1>10, <1>11, <1>12

\* Those of allocations.
LEMMA BudgetFormsLet ==
    ASSUME NEW g, Held(g, BudgetNeeds.manage)
    PROVE  /\ LetsAll(g, BudgetCreateForm) /\ LetsAll(g, BudgetEditForm)
           /\ LetsAll(g, BudgetActivate) /\ LetsAll(g, BudgetCancel) /\ LetsAll(g, BudgetClose)
           /\ LetsAll(g, BudgetDelete) /\ LetsAll(g, BudgetRestore)
<1>1. /\ Lets(g, CreateBudget) /\ Lets(g, UpdateBudget) /\ Lets(g, DeleteBudget)
      /\ Lets(g, RestoreBudget)
  <2>1. /\ CreateBudget = Write(BudgetNeeds.manage) /\ UpdateBudget = Write(BudgetNeeds.manage)
        /\ DeleteBudget = Write(BudgetNeeds.manage) /\ RestoreBudget = Write(BudgetNeeds.manage)
    BY DEF CreateBudget, UpdateBudget, DeleteBudget, RestoreBudget, BudgetRequest, BudgetNeeds
  <2>2. QED BY <2>1, WriteLets
<1>2. LetsAll(g, BudgetCreateForm)
  BY <1>1, FormLets DEF BudgetCreateForm
<1>3. LetsAll(g, BudgetEditForm)
  BY <1>1, FormLets DEF BudgetEditForm
<1>4. LetsAll(g, BudgetActivate)
  BY <1>1, FormLets DEF BudgetActivate, BudgetTransition
<1>5. LetsAll(g, BudgetCancel)
  BY <1>1, FormLets DEF BudgetCancel, BudgetTransition
<1>6. LetsAll(g, BudgetClose)
  BY <1>1, FormLets DEF BudgetClose, BudgetTransition
<1>7. LetsAll(g, BudgetDelete)
  BY <1>1, FormLets DEF BudgetDelete, BudgetTransition
<1>8. LetsAll(g, BudgetRestore)
  BY <1>1, FormLets DEF BudgetRestore
<1>9. QED BY <1>2, <1>3, <1>4, <1>5, <1>6, <1>7, <1>8

\* Those of offices, drivers and vehicles.
LEMMA ReferenceFormsLet ==
    ASSUME NEW g, NEW s
    PROVE  /\ Held(g, ReferenceNeeds("office").admin) =>
                  /\ LetsAll(g, OfficeCreateForm) /\ LetsAll(g, OfficeEditForm)
                  /\ \A c \in ReferenceLifecycle(s, DeleteOffice, RestoreOffice) : LetsAll(g, c)
           /\ Held(g, ReferenceNeeds("driver").admin) =>
                  /\ LetsAll(g, DriverCreateForm) /\ LetsAll(g, DriverEditForm)
                  /\ \A c \in ReferenceLifecycle(s, DeleteDriver, RestoreDriver) : LetsAll(g, c)
           /\ Held(g, ReferenceNeeds("vehicle").admin) =>
                  /\ LetsAll(g, VehicleCreateForm) /\ LetsAll(g, VehicleEditForm)
                  /\ \A c \in ReferenceLifecycle(s, DeleteVehicle, RestoreVehicle) : LetsAll(g, c)
<1>1. \A r : Held(g, ReferenceNeeds(r).admin)
                        => Lets(g, ReferenceRequest(r, "admin"))
  <2>1. \A r : ReferenceRequest(r, "admin") = Write(ReferenceNeeds(r).admin)
    BY DEF ReferenceRequest, ReferenceNeeds
  <2>2. QED BY <2>1, WriteLets
<1>2. \A delete, restore : Lets(g, delete) /\ Lets(g, restore)
          => \A c \in ReferenceLifecycle(s, delete, restore) : LetsAll(g, c)
  BY FormLets DEF ReferenceLifecycle
<1>3. ASSUME Held(g, ReferenceNeeds("office").admin)
      PROVE  /\ LetsAll(g, OfficeCreateForm) /\ LetsAll(g, OfficeEditForm)
             /\ \A c \in ReferenceLifecycle(s, DeleteOffice, RestoreOffice) : LetsAll(g, c)
  <2>1. /\ Lets(g, CreateOffice) /\ Lets(g, UpdateOffice) /\ Lets(g, DeleteOffice)
        /\ Lets(g, RestoreOffice)
    BY <1>1, <1>3 DEF CreateOffice, UpdateOffice, DeleteOffice, RestoreOffice
  <2>2. LetsAll(g, OfficeCreateForm)
    BY <2>1, FormLets DEF OfficeCreateForm
  <2>3. LetsAll(g, OfficeEditForm)
    BY <2>1, FormLets DEF OfficeEditForm
  <2>4. QED BY <1>2, <2>1, <2>2, <2>3
<1>4. ASSUME Held(g, ReferenceNeeds("driver").admin)
      PROVE  /\ LetsAll(g, DriverCreateForm) /\ LetsAll(g, DriverEditForm)
             /\ \A c \in ReferenceLifecycle(s, DeleteDriver, RestoreDriver) : LetsAll(g, c)
  <2>1. /\ Lets(g, CreateDriver) /\ Lets(g, UpdateDriver) /\ Lets(g, DeleteDriver)
        /\ Lets(g, RestoreDriver)
    BY <1>1, <1>4 DEF CreateDriver, UpdateDriver, DeleteDriver, RestoreDriver
  <2>2. LetsAll(g, DriverCreateForm)
    BY <2>1, FormLets DEF DriverCreateForm
  <2>3. LetsAll(g, DriverEditForm)
    BY <2>1, FormLets DEF DriverEditForm
  <2>4. QED BY <1>2, <2>1, <2>2, <2>3
<1>5. ASSUME Held(g, ReferenceNeeds("vehicle").admin)
      PROVE  /\ LetsAll(g, VehicleCreateForm) /\ LetsAll(g, VehicleEditForm)
             /\ \A c \in ReferenceLifecycle(s, DeleteVehicle, RestoreVehicle) : LetsAll(g, c)
  <2>1. /\ Lets(g, CreateVehicle) /\ Lets(g, UpdateVehicle) /\ Lets(g, DeleteVehicle)
        /\ Lets(g, RestoreVehicle)
    BY <1>1, <1>5 DEF CreateVehicle, UpdateVehicle, DeleteVehicle, RestoreVehicle
  <2>2. LetsAll(g, VehicleCreateForm)
    BY <2>1, FormLets DEF VehicleCreateForm
  <2>3. LetsAll(g, VehicleEditForm)
    BY <2>1, FormLets DEF VehicleEditForm
  <2>4. QED BY <1>2, <2>1, <2>2, <2>3
<1>6. QED BY <1>3, <1>4, <1>5

\* Those of users and roles, but for the user's own and the privileged ones.
LEMMA UserFormsLet ==
    ASSUME NEW g, NEW s
    PROVE  /\ "user.manage" \in g =>
                  /\ LetsAll(g, UserForm(NoSubject)) /\ LetsAll(g, UserIdentityForm(NoSubject))
                  /\ \A c \in UserLifecycle(NoSubject, s) : LetsAll(g, c)
           /\ "role.manage" \in g =>
                  /\ LetsAll(g, UserRoleForm(NoSubject))
                  /\ LetsAll(g, RoleCreateForm(g, NoSubject))
                  /\ LetsAll(g, RoleEditForm(g, NoSubject))
           /\ "user.password.reset" \in g => LetsAll(g, PasswordReset(NoSubject))
           /\ "user.totp.reset" \in g => LetsAll(g, TotpReset(NoSubject))
           /\ "user.session.revoke" \in g => LetsAll(g, Revocation)
<1>1. /\ NoSubject.own = FALSE /\ NoSubject.privileged = FALSE /\ Held(g, Anyone)
      /\ \A x : x \in g => Held(g, One(x))
  BY DEF NoSubject, Held, Anyone, One
<1>2. /\ NotSelf(NoSubject.own) = Anyone /\ Privileged(NoSubject.privileged) = Anyone
      /\ \A yes \in BOOLEAN : Privileged(NoSubject.privileged /\ yes) = Anyone
  BY <1>1 DEF NotSelf, Privileged
<1>3. ASSUME "user.manage" \in g
      PROVE  /\ LetsAll(g, UserForm(NoSubject)) /\ LetsAll(g, UserIdentityForm(NoSubject))
             /\ \A c \in UserLifecycle(NoSubject, s) : LetsAll(g, c)
  <2>1. Lets(g, CreateUser(NoSubject.privileged))
    BY <1>1, <1>2, <1>3, WriteLets DEF CreateUser
  <2>2. Lets(g, UpdateUser(NoSubject.own)) /\ Lets(g, DeleteUser(NoSubject.own))
    BY <1>1, <1>2, <1>3, WriteLets DEF UpdateUser, DeleteUser
  <2>3. Lets(g, RestoreUser)
    BY <1>1, <1>3, WriteLets DEF RestoreUser
  <2>4. LetsAll(g, UserForm(NoSubject))
    BY <2>1, FormLets DEF UserForm
  <2>5. LetsAll(g, UserIdentityForm(NoSubject))
    BY <2>2, FormLets DEF UserIdentityForm
  <2>6. \A c \in UserLifecycle(NoSubject, s) : LetsAll(g, c)
    BY <2>2, <2>3, FormLets DEF UserLifecycle
  <2>7. QED BY <2>4, <2>5, <2>6
<1>4. ASSUME "role.manage" \in g
      PROVE  /\ LetsAll(g, UserRoleForm(NoSubject))
             /\ LetsAll(g, RoleCreateForm(g, NoSubject))
             /\ LetsAll(g, RoleEditForm(g, NoSubject))
  <2>1. Lets(g, AssignUserRoles(NoSubject.own, NoSubject.privileged))
    <3>1. AssignUserRoles(NoSubject.own, NoSubject.privileged)
              = Inside(Write(One("role.manage")), Anyone)
      BY <1>1, <1>2 DEF AssignUserRoles
    <3>2. QED BY <1>1, <1>4, <3>1, WriteLets
  <2>2. Lets(g, CreateRole(NoSubject.privileged /\ CanTick(g)))
    <3>1. Privileged(NoSubject.privileged /\ CanTick(g)) = Anyone
      BY <1>1 DEF Privileged
    <3>2. QED BY <1>1, <1>4, <3>1, WriteLets DEF CreateRole
  <2>3. Lets(g, UpdateRole(NoSubject.privileged /\ ~CanTick(g)))
    <3>1. Privileged(NoSubject.privileged /\ ~CanTick(g)) = Anyone
      BY <1>1 DEF Privileged
    <3>2. QED BY <1>1, <1>4, <3>1, WriteLets DEF UpdateRole
  <2>4. Lets(g, AssignPermissions)
    BY <1>1, <1>4, WriteLets DEF AssignPermissions
  <2>5. LetsAll(g, UserRoleForm(NoSubject))
    BY <2>1, FormLets DEF UserRoleForm
  <2>6. LetsAll(g, RoleCreateForm(g, NoSubject))
    BY <2>2, FormLets DEF RoleCreateForm
  <2>7. LetsAll(g, RoleEditForm(g, NoSubject))
    <3> DEFINE first == UpdateRole(NoSubject.privileged /\ ~CanTick(g))
    <3>1. RoleEditForm(g, NoSubject).sends = <<first, AssignPermissions>>
      BY DEF RoleEditForm, Control
    <3> HIDE DEF first
    <3>2. \A i \in DOMAIN <<first, AssignPermissions>> :
              <<first, AssignPermissions>>[i] \in {first, AssignPermissions}
      OBVIOUS
    <3>3. Lets(g, first)
      BY <2>3 DEF first
    <3>4. QED BY <2>4, <3>1, <3>2, <3>3 DEF LetsAll
  <2>8. QED BY <2>5, <2>6, <2>7
<1>5. ASSUME "user.password.reset" \in g PROVE LetsAll(g, PasswordReset(NoSubject))
  <2>1. Lets(g, ResetPassword(NoSubject.own))
    BY <1>1, <1>2, <1>5, WriteLets DEF ResetPassword
  <2>2. QED BY <2>1, FormLets DEF PasswordReset
<1>6. ASSUME "user.totp.reset" \in g PROVE LetsAll(g, TotpReset(NoSubject))
  <2>1. Lets(g, ResetTotp(NoSubject.own))
    BY <1>1, <1>2, <1>6, WriteLets DEF ResetTotp
  <2>2. QED BY <2>1, FormLets DEF TotpReset
<1>7. ASSUME "user.session.revoke" \in g PROVE LetsAll(g, Revocation)
  <2>1. Lets(g, RevokeSessions)
    BY <1>1, <1>7, WriteLets DEF RevokeSessions
  <2>2. QED BY <2>1, FormLets DEF Revocation
<1>8. QED BY <1>3, <1>4, <1>5, <1>6, <1>7

\* Those of the reports, the settings of signing in, and leaving.
LEMMA OtherFormsLet ==
    ASSUME NEW g
    PROVE  /\ LetsAll(g, LogoutButton)
           /\ Held(g, One("auth.settings.manage")) => \A c \in AuthSettingsForm : LetsAll(g, c)
           /\ \A f \in Exports(g) : LetsAll(g, ExportDialog(f)) /\ LetsAll(g, DownloadButton(f))
<1>1. Held(g, Anyone)
  BY DEF Held, Anyone
<1>2. LetsAll(g, LogoutButton)
  <2>1. Lets(g, Logout)
    BY <1>1, WriteLets DEF Logout
  <2>2. LogoutButton.sends = <<Logout>>
    BY DEF LogoutButton, Control
  <2>3. \A i \in DOMAIN <<Logout>> : <<Logout>>[i] = Logout
    OBVIOUS
  <2>4. QED BY <2>1, <2>2, <2>3 DEF LetsAll
<1>3. ASSUME Held(g, One("auth.settings.manage")) PROVE \A c \in AuthSettingsForm : LetsAll(g, c)
  <2>1. Lets(g, UpdateAuthSettings)
    BY <1>3, WriteLets DEF UpdateAuthSettings
  <2>2. QED BY <2>1, FormLets DEF AuthSettingsForm
<1>4. ASSUME NEW f \in Exports(g)
      PROVE  LetsAll(g, ExportDialog(f)) /\ LetsAll(g, DownloadButton(f))
  <2>1. Held(g, ReportNeeds(f).export)
    BY DEF Exports
  <2>2. Lets(g, RequestExport(f))
    BY <1>1, <2>1, WriteLets DEF RequestExport
  <2>3. Lets(g, DownloadLink(f)) /\ Lets(g, Download(f))
    BY <1>1, <2>1, WriteLets DEF DownloadLink, Download
  <2>4. LetsAll(g, ExportDialog(f))
    BY <2>2, FormLets DEF ExportDialog
  <2>5. DownloadButton(f).sends = <<DownloadLink(f), Download(f)>>
    BY DEF DownloadButton, Control
  <2>6. \A i \in DOMAIN <<DownloadLink(f), Download(f)>> :
            <<DownloadLink(f), Download(f)>>[i] \in {DownloadLink(f), Download(f)}
    OBVIOUS
  <2>7. QED BY <2>3, <2>4, <2>5, <2>6 DEF LetsAll
<1>5. QED BY <1>2, <1>3, <1>4

\* What a screen that opens offers is let through, if it is not of the user's own account
\* or role, or a privileged one.
LEMMA OffersLet ==
    ASSUME NEW g, NEW p, NEW s, NEW c \in Page(g, p, s, NoSubject).offers,
           Protected(p), Together(g), Held(g, Gate(p))
    PROVE  LetsAll(g, c)
<1>1. CASE p \in {"dispatches", "schedule", "issuances", "balances", "audit", "event", "account"}
  <2>1. Page(g, p, s, NoSubject).offers = {}
    BY <1>1 DEF Page, DispatchesPage, SchedulePage, IssuancesPage, BalancesPage, AuditPage,
                EventPage, AccountPage, Screen
  <2>2. QED BY <2>1
<1>2. CASE p = "new dispatch"
  <2>1. c = DispatchDraftCreate
    BY <1>2 DEF Page, NewDispatchPage, Screen
  <2>2. Held(g, DispatchNeeds.create)
    BY <1>2 DEF Gate, DispatchNeeds, Held, Both, One
  <2>3. QED BY <2>1, <2>2, RecordFormsLet
<1>3. CASE p = "schedule settings"
  <2>1. c = ScheduleSettingsForm /\ Held(g, DispatchNeeds.settings)
    BY <1>3 DEF Page, ScheduleSettingsPage, Screen, Gate
  <2>2. QED BY <2>1, RecordFormsLet
<1>4. CASE p \in DispatchPlaces
  <2>1. c \in DispatchDetail(g, s) =>
            \/ c = DispatchConfirm /\ Held(g, DispatchNeeds.update)
            \/ c = DispatchComplete /\ Held(g, DispatchNeeds.complete)
            \/ c = DispatchCancel /\ Held(g, DispatchNeeds.cancel)
    BY DEF DispatchDetail, Of
  <2>2. DispatchPage(g, s).offers = DispatchDetail(g, s)
    BY DEF DispatchPage, Screen
  <2>3. \/ c = DispatchDraftEdit /\ Held(g, DispatchNeeds.update)
        \/ c \in DispatchPage(g, s).offers
    BY <1>4 DEF Page, DispatchPlaces, DispatchEditPage, Screen
  <2>4. QED BY <2>1, <2>2, <2>3, RecordFormsLet
<1>5. CASE p = "new issuance"
  <2>1. c = FuelDraftCreate
    BY <1>5 DEF Page, NewIssuancePage, Screen
  <2>2. Held(g, FuelNeeds.create)
    BY <1>5 DEF Gate, FuelNeeds, Held, Both, One
  <2>3. QED BY <2>1, <2>2, RecordFormsLet
<1>6. CASE p \in IssuancePlaces
  <2>1. c \in IssuanceDetail(g, s) =>
            \/ c = FuelPost /\ Held(g, FuelNeeds.post)
            \/ c = FuelVoid /\ Held(g, FuelNeeds.void)
    BY DEF IssuanceDetail, Of
  <2>2. IssuancePage(g, s).offers = IssuanceDetail(g, s)
    BY DEF IssuancePage, Screen
  <2>3. \/ c = FuelDraftEdit /\ Held(g, FuelNeeds.create)
        \/ c \in IssuancePage(g, s).offers
    BY <1>6 DEF Page, IssuancePlaces, IssuanceEditPage, Screen
  <2>4. QED BY <2>1, <2>2, <2>3, RecordFormsLet
<1>7. CASE p \in {"allocations", "allocation"}
  <2>1. /\ Held(g, BudgetNeeds.manage)
        /\ c \in {BudgetCreateForm, BudgetEditForm, BudgetActivate, BudgetCancel, BudgetClose,
                  BudgetDelete, BudgetRestore}
    <3>1. CASE p = "allocations"
      BY <3>1 DEF Page, BudgetsPage, Of, Screen
    <3>2. CASE p = "allocation"
      BY <3>2 DEF Page, BudgetPage, BudgetActions, Of, Screen
    <3>3. QED BY <1>7, <3>1, <3>2
  <2>2. QED BY <2>1, BudgetFormsLet
<1>8. CASE p \in {"offices", "office"}
  <2>1. Page(g, p, s, NoSubject) \in {OfficesPage, OfficePage(s)}
    BY <1>8 DEF Page
  <2>2. /\ OfficesPage.offers = {OfficeCreateForm}
        /\ OfficePage(s).offers
              \subseteq {OfficeEditForm} \cup ReferenceLifecycle(s, DeleteOffice, RestoreOffice)
    BY DEF OfficesPage, OfficePage, ReferenceList, ReferenceRecord, Of, Screen
  <2>3. Held(g, ReferenceNeeds("office").admin)
    BY <1>8 DEF Gate
  <2>4. QED BY <2>1, <2>2, <2>3, ReferenceFormsLet
<1>9. CASE p \in {"drivers", "driver"}
  <2>1. Page(g, p, s, NoSubject) \in {DriversPage, DriverPage(s)}
    BY <1>9 DEF Page
  <2>2. /\ DriversPage.offers = {DriverCreateForm}
        /\ DriverPage(s).offers
              \subseteq {DriverEditForm} \cup ReferenceLifecycle(s, DeleteDriver, RestoreDriver)
    BY DEF DriversPage, DriverPage, ReferenceList, ReferenceRecord, Of, Screen
  <2>3. Held(g, ReferenceNeeds("driver").admin)
    BY <1>9 DEF Gate
  <2>4. QED BY <2>1, <2>2, <2>3, ReferenceFormsLet
<1>10. CASE p \in {"vehicles", "vehicle"}
  <2>1. Page(g, p, s, NoSubject) \in {VehiclesPage, VehiclePage(s)}
    BY <1>10 DEF Page
  <2>2. /\ VehiclesPage.offers = {VehicleCreateForm}
        /\ VehiclePage(s).offers
              \subseteq {VehicleEditForm} \cup ReferenceLifecycle(s, DeleteVehicle, RestoreVehicle)
    BY DEF VehiclesPage, VehiclePage, ReferenceList, ReferenceRecord, Of, Screen
  <2>3. Held(g, ReferenceNeeds("vehicle").admin)
    BY <1>10 DEF Gate
  <2>4. QED BY <2>1, <2>2, <2>3, ReferenceFormsLet
<1>11. CASE p \in {"users", "user"}
  <2>1. Page(g, p, s, NoSubject) \in {UsersPage(g, NoSubject), UserPage(g, s, NoSubject)}
    BY <1>11 DEF Page
  <2>2. c \in UsersPage(g, NoSubject).offers =>
            c = UserForm(NoSubject) /\ "user.manage" \in g
    BY DEF UsersPage, Of, Screen
  <2>3. c \in UserPage(g, s, NoSubject).offers =>
            \/ c \in {UserIdentityForm(NoSubject), UserRoleForm(NoSubject)}
            \/ c = PasswordReset(NoSubject) /\ "user.password.reset" \in g
            \/ c = TotpReset(NoSubject) /\ "user.totp.reset" \in g
            \/ c = Revocation /\ "user.session.revoke" \in g
            \/ c \in UserLifecycle(NoSubject, s) /\ "user.manage" \in g
    BY DEF UserPage, Of, Screen
  <2>4. "user.manage" \in g /\ "role.manage" \in g
    BY <1>11 DEF Gate, Held, Both, One, Together
  <2>5. QED BY <2>1, <2>2, <2>3, <2>4, UserFormsLet
<1>12. CASE p \in {"roles", "role"}
  <2>1. /\ "role.manage" \in g
        /\ c \in {RoleCreateForm(g, NoSubject), RoleEditForm(g, NoSubject)}
    BY <1>12 DEF Page, RolesPage, RolePage, Of, Screen
  <2>2. QED BY <2>1, UserFormsLet
<1>13. CASE p = "security"
  <2>1. c \in AuthSettingsForm /\ Held(g, One("auth.settings.manage"))
    BY <1>13 DEF Page, SecurityPage, Screen, Gate
  <2>2. QED BY <2>1, OtherFormsLet
<1>14. CASE p = "reports"
  <2>1. PICK f \in Exports(g) : c \in {ExportDialog(f), DownloadButton(f)}
    BY <1>14 DEF Page, ReportsPage, Screen
  <2>2. QED BY <2>1, OtherFormsLet
<1>15. CASE p \notin KnownScreens
  <2>1. Page(g, p, s, NoSubject).offers = {}
    BY <1>15, PageElsewhere DEF DeniedPage, Screen
  <2>2. QED BY <2>1
<1>16. QED
  BY <1>1, <1>2, <1>3, <1>4, <1>5, <1>6, <1>7, <1>8, <1>9, <1>10, <1>11, <1>12, <1>13, <1>14,
     <1>15
     DEF Protected, PublicPages, KnownScreens, DispatchPlaces, IssuancePlaces

\* A screen that opens may read all that it is filled with.
LEMMA ContentsRead ==
    ASSUME NEW g, NEW p, NEW s, NEW q \in Contents(p, s, g), Together(g), Held(g, Gate(p))
    PROVE  MayRead(g, q)
<1>1. Held(g, Anyone) /\ \A x \in g : Held(g, One(x))
  BY DEF Held, Anyone, One
<1>2. CASE p \in {"dispatches", "new dispatch", "dispatch", "edit of dispatch", "schedule",
                  "schedule settings"}
  <2>1. /\ Held(g, DispatchNeeds.read) => /\ MayRead(g, ListDispatches) /\ MayRead(g, GetDispatch)
                                          /\ MayRead(g, CheckConflicts) /\ MayRead(g, ReadSchedule)
        /\ Held(g, DispatchNeeds.settings) => MayRead(g, GetScheduleSettings)
        /\ Held(g, DispatchNeeds.create) => MayRead(g, DispatchOptions("create"))
        /\ Held(g, DispatchNeeds.update) => MayRead(g, DispatchOptions("update"))
    <3>1. /\ ListDispatches = Get(DispatchNeeds.read) /\ GetDispatch = Get(DispatchNeeds.read)
          /\ CheckConflicts = Get(DispatchNeeds.read) /\ ReadSchedule = Get(DispatchNeeds.read)
          /\ GetScheduleSettings = Get(DispatchNeeds.settings)
          /\ DispatchOptions("create") = Get(DispatchNeeds.create)
          /\ DispatchOptions("update") = Get(DispatchNeeds.update)
      BY DEF ListDispatches, GetDispatch, CheckConflicts, ReadSchedule, GetScheduleSettings,
             DispatchOptions, DispatchQuery, DispatchNeeds
    <3>2. QED BY <3>1, WriteLets
  <2>2. /\ p = "dispatches" => q = ListDispatches
        /\ p = "new dispatch" => q \in {DispatchOptions("create"), CheckConflicts}
        /\ p = "dispatch" => q = GetDispatch
        /\ p = "edit of dispatch" =>
               \/ q = GetDispatch
               \/ q \in {DispatchOptions("update"), CheckConflicts} /\ Held(g, DispatchNeeds.update)
        /\ p = "schedule" => q = ReadSchedule
        /\ p = "schedule settings" => q = GetScheduleSettings
    BY DEF Contents, Of
  <2>3. /\ p \in {"dispatches", "dispatch", "edit of dispatch", "schedule"}
               => Held(g, DispatchNeeds.read)
        /\ p = "schedule settings" => Held(g, DispatchNeeds.settings)
    BY DEF Gate
  <2>4. p = "new dispatch" => Held(g, DispatchNeeds.read) /\ Held(g, DispatchNeeds.create)
    BY DEF Gate, DispatchNeeds, Held, Both, One
  <2>5. QED BY <1>2, <2>1, <2>2, <2>3, <2>4
<1>3. CASE p \in {"issuances", "new issuance", "issuance", "edit of issuance", "balances"}
  <2>1. /\ Held(g, FuelNeeds.read) => /\ MayRead(g, ListFuel) /\ MayRead(g, GetFuel)
                                      /\ MayRead(g, FuelBalances)
        /\ Held(g, FuelNeeds.create) => MayRead(g, FuelOptions)
    <3>1. /\ ListFuel = Get(FuelNeeds.read) /\ GetFuel = Get(FuelNeeds.read)
          /\ FuelBalances = Get(FuelNeeds.read) /\ FuelOptions = Get(FuelNeeds.create)
      BY DEF ListFuel, GetFuel, FuelBalances, FuelOptions, FuelQuery, FuelNeeds
    <3>2. QED BY <3>1, WriteLets
  <2>2. /\ p = "issuances" => q = ListFuel
        /\ p = "new issuance" => q = FuelOptions
        /\ p = "issuance" => q = GetFuel
        /\ p = "edit of issuance" => q = GetFuel \/ (q = FuelOptions /\ Held(g, FuelNeeds.create))
        /\ p = "balances" => q = FuelBalances
    BY DEF Contents, Of
  <2>3. p # "new issuance" => Held(g, FuelNeeds.read)
    BY <1>3 DEF Gate
  <2>4. p = "new issuance" => Held(g, FuelNeeds.create)
    BY DEF Gate, FuelNeeds, Held, Both, One
  <2>5. QED BY <1>3, <2>1, <2>2, <2>3, <2>4
<1>4. CASE p \in {"allocations", "allocation"}
  <2>1. Held(g, BudgetNeeds.read) => MayRead(g, ListBudgets) /\ MayRead(g, GetBudget)
    <3>1. ListBudgets = Get(BudgetNeeds.read) /\ GetBudget = Get(BudgetNeeds.read)
      BY DEF ListBudgets, GetBudget, BudgetQuery, BudgetNeeds
    <3>2. QED BY <3>1, WriteLets
  <2>2. Held(g, BudgetNeeds.manage) => MayRead(g, ListOffices("operational"))
    <3>1. Held(g, BudgetNeeds.manage) => "budget.manage" \in g
      BY DEF BudgetNeeds, Held, One
    <3>2. "office.read" \in g => Held(g, ReferenceNeeds("office").operational)
      BY DEF ReferenceNeeds, Permission, Held, Either
    <3>3. ListOffices("operational") = Get(ReferenceNeeds("office").operational)
      BY DEF ListOffices, ReferenceQuery, ReferenceNeeds
    <3>4. QED BY <3>1, <3>2, <3>3, WriteLets DEF Together
  <2>3. /\ q \in {ListBudgets, GetBudget} \/ (q = ListOffices("operational")
                                             /\ Held(g, BudgetNeeds.manage))
    <3>1. CASE p = "allocations"
      BY <3>1 DEF Contents, Of
    <3>2. CASE p = "allocation"
      BY <3>2 DEF Contents, Of
    <3>3. QED BY <1>4, <3>1, <3>2
  <2>4. Held(g, BudgetNeeds.read)
    BY <1>4 DEF Gate
  <2>5. QED BY <2>1, <2>2, <2>3, <2>4
<1>5. CASE p \in {"offices", "office", "drivers", "driver", "vehicles", "vehicle"}
  <2>1. /\ ListOffices("admin") = Get(ReferenceNeeds("office").admin)
        /\ GetOffice = Get(ReferenceNeeds("office").admin)
        /\ ListDrivers("admin") = Get(ReferenceNeeds("driver").admin)
        /\ GetDriver = Get(ReferenceNeeds("driver").admin)
        /\ ListVehicles("admin") = Get(ReferenceNeeds("vehicle").admin)
        /\ GetVehicle = Get(ReferenceNeeds("vehicle").admin)
    BY DEF ListOffices, GetOffice, ListDrivers, GetDriver, ListVehicles, GetVehicle,
           ReferenceQuery, ReferenceNeeds
  <2>2. /\ p = "offices" => q = ListOffices("admin") /\ Held(g, ReferenceNeeds("office").admin)
        /\ p = "office" => q = GetOffice /\ Held(g, ReferenceNeeds("office").admin)
        /\ p = "drivers" => q = ListDrivers("admin") /\ Held(g, ReferenceNeeds("driver").admin)
        /\ p = "driver" => q = GetDriver /\ Held(g, ReferenceNeeds("driver").admin)
        /\ p = "vehicles" => q = ListVehicles("admin") /\ Held(g, ReferenceNeeds("vehicle").admin)
        /\ p = "vehicle" => q = GetVehicle /\ Held(g, ReferenceNeeds("vehicle").admin)
    BY DEF Contents, Gate
  <2>3. QED BY <1>5, <2>1, <2>2, WriteLets
<1>6. CASE p \in {"users", "user", "roles", "role", "security", "audit", "event"}
  <2>1. /\ "user.read" \in g => MayRead(g, ListUsers) /\ MayRead(g, GetUser)
        /\ "role.read" \in g => MayRead(g, ListRoles) /\ MayRead(g, ListPermissions)
        /\ "auth.settings.manage" \in g => MayRead(g, GetAuthSettings)
        /\ "audit.read" \in g => /\ MayRead(g, SearchEvents) /\ MayRead(g, GetEvent)
                                 /\ MayRead(g, LatestVerification)
    BY <1>1, WriteLets
       DEF ListUsers, GetUser, ListRoles, ListPermissions, GetAuthSettings, SearchEvents, GetEvent,
           LatestVerification
  <2>2. /\ p = "users" => q = ListUsers \/ (q = ListRoles /\ "role.read" \in g)
        /\ p = "user" => q \in {GetUser, ListRoles}
        /\ p \in {"roles", "role"} => q \in {ListRoles, ListPermissions}
        /\ p = "security" => q = GetAuthSettings
        /\ p = "audit" => q \in {LatestVerification, SearchEvents}
        /\ p = "event" => q \in {LatestVerification, GetEvent}
    BY DEF Contents, Of
  <2>3. /\ p = "users" => "user.read" \in g
        /\ p = "user" => "user.read" \in g /\ "role.read" \in g
        /\ p \in {"roles", "role"} => "role.read" \in g
        /\ p = "security" => "auth.settings.manage" \in g
        /\ p \in {"audit", "event"} => "audit.read" \in g
    BY DEF Gate, Held, One, Both
  <2>4. QED BY <1>6, <2>1, <2>2, <2>3
<1>7. CASE p = "reports"
  <2>1. \/ q = ListExports
        \/ \E f \in Readable(g) : q = ReadReport(f)
    BY <1>7 DEF Contents
  <2>2. MayRead(g, ListExports)
    BY <1>1, WriteLets DEF ListExports
  <2>3. ASSUME NEW f \in Readable(g) PROVE MayRead(g, ReadReport(f))
    BY WriteLets DEF Readable, ReadReport
  <2>4. QED BY <2>1, <2>2, <2>3
<1>8. CASE p \notin KnownScreens \ (PublicPages \cup {"account"})
  <2>1. Contents(p, s, g) = {}
    BY <1>8 DEF Contents, KnownScreens, PublicPages
  <2>2. QED BY <2>1
<1>9. QED BY <1>2, <1>3, <1>4, <1>5, <1>6, <1>7, <1>8 DEF KnownScreens, PublicPages

\* What a screen offers, the server lets its user do, whatever seeded roles the users have.
THEOREM ScreensKeepTheirOffers == WorkSpec => []OffersHold
<1>1. WorkInv => OffersHold
  <2> SUFFICES ASSUME WorkInv PROVE OffersHold
    OBVIOUS
  <2>1. Together(rights) /\ Held(rights, Gate(view.place))
    BY UserRolesAssumption, SeedsTogether DEF WorkInv, ScreensOpen, Opens, rights, RoleRights
  <2>2. ASSUME Protected(view.place), view.about = NoSubject, NEW c \in Offered
        PROVE  LetsAll(rights, c)
    <3>1. CASE c \in Shown.offers
      BY <2>1, <2>2, <3>1, OffersLet DEF Shown
    <3>2. CASE c = LogoutButton
      BY <3>2, OtherFormsLet
    <3>3. QED BY <2>2, <3>1, <3>2 DEF Offered
  <2>3. ASSUME NEW q \in Contents(view.place, view.status, rights) PROVE MayRead(rights, q)
    BY <2>1, ContentsRead
  <2>4. coming.place = "denied" => view.place \in {"schedule", "denied"}
    <3>1. Nowhere.place = "nowhere"
      BY DEF Nowhere
    <3>2. QED BY <3>1 DEF WorkInv, ScreensOpen
  <2>5. QED BY <2>2, <2>3, <2>4 DEF OffersHold, LetsAll, Lets, MayRead
<1>2. QED BY <1>1, WorkInvariant, PTL
=============================================================================
