--------------------------- MODULE LeadSweeps_proofs ----------------------------
(***************************************************************************)
(* Theorems about LeadBooking when the sweeps and the customer may meet on *)
(* a lead but no pro and no admin works on one at the same time, for every *)
(* set of customers, pros, leads and slots and whatever dies: the admin is *)
(* paged once per takeover, and a confirmed job stays confirmed.           *)
(***************************************************************************)
EXTENDS LeadBooking_proofs

\* Of the handlers that may meet on a lead, none is a pro's or the admin's.
SweepsOnly == Overlap \cap (Pros \cup {Admin}) = {}

-----------------------------------------------------------------------------
(* The invariant *)

\* The steps of a handler that is the lead's customer's or the Healer's
Owned == {"reassign_escalate", "reassign_no_location", "reassign_match",
          "reassign_give", "reassign_give_up",
          "intake_match", "intake_assign", "deal_write"}

\* The steps from which a lead becomes, or becomes again, NEW
Reviving == {"reassign_match", "reassign_give", "intake_match", "intake_assign", "deal_write"}

\* The steps that end in an escalation with a reason of its own
Escalation == {"reassign_escalate", "reassign_no_location"}

\* The steps a handler may be at on a job that is confirmed
AfterBooking == {"idle", "approve_claim", "approve_record", "cancel_write", "cancel_free",
                 "finish_write", "resched_offer", "resched_claim", "resched_free",
                 "resched_write", "keep_waiting", "offer_claim", "deal_park", "release"}

\* Two handlers on one lead are of actors that may meet on it.
Apart ==
    \A a, b \in Actors : a # b /\ run[a].job = run[b].job /\ run[a].job # NoLead =>
      {a, b} \subseteq Overlap

\* At most two actors reassign a lead or close a deal on it.
OwnedByTwo ==
    \A a \in Actors : run[a].at \in Owned => a \in {Healer, lead[run[a].job].chat}

\* A lead that is not there yet has no history and no handler.
Untouched ==
    \A l \in Leads : lead[l].status = "absent" =>
      pages[l] = 0 /\ \A a \in Actors : run[a].job # l

\* A lead that the admin was paged about was passed on before, and so has a location.
PagedHasLocation == \A l \in Leads : pages[l] # 0 => lead[l].count # 0

\* So was the lead of a handler that is about to page.
PagesActive ==
    \A a \in Actors : run[a].at = "reassign_escalate" =>
      run[a].seen \in Active /\ lead[run[a].job].count # 0

\* Someone is in the middle of escalating l.
BeingEscalated(l) == \E a \in Actors : run[a].job = l /\ run[a].at \in Escalation

\* l is out of the Healer's sight, and no handler in flight brings it back.
AtRest(l) ==
    /\ lead[l].status \notin Active
    /\ \A a \in Actors : run[a].job = l => run[a].at \notin Reviving

\* Once the admin was paged, a second page would need a handler that read the lead
\* before, or a lead whose reason was overwritten: both find it at rest.
PagedIsGuarded ==
    \A l \in Leads : pages[l] # 0 /\ (~lead[l].exhausted \/ BeingEscalated(l)) => AtRest(l)

\* No handler that read a lead before it was confirmed is still working on it.
ConfirmedIsSettled ==
    \A l \in Leads : lead[l].status = "booked" =>
      \A a \in Actors : run[a].job = l => run[a].at \in AfterBooking

Swept ==
    /\ WellFormed
    /\ Apart /\ OwnedByTwo /\ Untouched
    /\ PagedHasLocation /\ PagesActive /\ PagedIsGuarded
    /\ ConfirmedIsSettled
    /\ OnePagePerTakeover

\* What a step has to preserve
Kept(l) == lead[l].status = "booked" => lead'[l].status \in {"booked", "completed", "cancelled"}

SweptStep == Swept' /\ \A l \in Leads : Kept(l)

\* Nobody but a works on l.
Alone(a, l) == \A b \in Actors \ {a} : run[b].job # l

\* Who must not meet anybody works alone.
LEMMA OutsiderIsAlone ==
    ASSUME Swept, NEW a \in Actors, a \notin Overlap, run[a].job \in Leads
    PROVE  Alone(a, run[a].job)
BY NullsAssumption DEF Swept, Apart, Alone

-----------------------------------------------------------------------------
(* Steps in general *)

\* An actor takes up a lead: what it needs to know of the lead
LEMMA TakeUpSweeps ==
    ASSUME Swept, WellFormed', NEW a \in Actors, NEW h \in Handler,
           run' = [run EXCEPT ![a] = h], MayTake(a, h.job),
           UNCHANGED <<lead, pages>>, h.job \in Leads,
           lead[h.job].status # "absent",
           h.at \in Owned => a \in {Healer, lead[h.job].chat},
           h.at = "reassign_escalate" => h.seen \in Active /\ lead[h.job].count # 0,
           h.at \in Escalation => pages[h.job] = 0,
           h.at \in Reviving => lead[h.job].status \in Active,
           h.at \notin AfterBooking => lead[h.job].status # "booked"
    PROVE  SweptStep
<1> DEFINE l == h.job
<1>1. \A b \in Actors : run'[b] = IF b = a THEN h ELSE run[b]
  BY DEF Swept, WellFormed, TypeOK
<1>2. \A b \in Actors : run[b].job = l => {a, b} \subseteq Overlap
  BY NullsAssumption DEF MayTake
<1>3. Apart'
  BY <1>1, <1>2 DEF Apart, Swept
<1>4. OwnedByTwo' /\ PagesActive'
  BY <1>1 DEF OwnedByTwo, PagesActive, Swept
<1>5. Untouched' /\ PagedHasLocation' /\ OnePagePerTakeover' /\ ConfirmedIsSettled'
  BY <1>1 DEF Untouched, PagedHasLocation, OnePagePerTakeover, ConfirmedIsSettled, Swept
<1>6. PagedIsGuarded'
  <2> SUFFICES ASSUME NEW m \in Leads, pages[m] # 0,
                      ~lead[m].exhausted \/ BeingEscalated(m)'
               PROVE  AtRest(m)'
    BY DEF PagedIsGuarded
  <2>1. ~lead[m].exhausted \/ BeingEscalated(m)
    BY <1>1 DEF BeingEscalated
  <2>2. AtRest(m)
    BY <2>1 DEF Swept, PagedIsGuarded
  <2> QED
    BY <1>1, <2>2 DEF AtRest
<1>7. \A m \in Leads : Kept(m)
  BY DEF Kept
<1> QED
  BY <1>3, <1>4, <1>5, <1>6, <1>7 DEF SweptStep, Swept

\* A first read
LEMMA ReadSweeps ==
    ASSUME Swept, WellFormed', NEW a \in Actors, NEW h \in Handler, Begin(a, h),
           UNCHANGED <<lead, pages>>, h.job \in Leads,
           lead[h.job].status # "absent",
           h.at \in Owned => a \in {Healer, lead[h.job].chat},
           h.at = "reassign_escalate" => h.seen \in Active /\ lead[h.job].count # 0,
           h.at \in Escalation => pages[h.job] = 0,
           h.at \in Reviving => lead[h.job].status \in Active,
           h.at \notin AfterBooking => lead[h.job].status # "booked"
    PROVE  SweptStep
<1>1. run' = [run EXCEPT ![a] = h] /\ MayTake(a, h.job)
  BY DEF Begin
<1> QED
  BY <1>1, TakeUpSweeps

\* A step of a handler on its lead; that pages stay guarded is shown apart.
LEMMA WriteSweeps ==
    ASSUME Swept, WellFormed', NEW a \in Actors, NEW l \in Leads, run[a].job = l,
           NEW h \in Handler, NEW d \in LeadDoc,
           run' = [run EXCEPT ![a] = h], lead' = [lead EXCEPT ![l] = d],
           NEW n \in {0, 1}, pages' = [pages EXCEPT ![l] = n], n # 0 => d.count # 0,
           PagedIsGuarded',
           h.job \in {l, NoLead},
           d.chat = lead[l].chat, d.count = lead[l].count \/ d.count # 0 \/ Alone(a, l),
           d.status # "absent",
           h.at \notin Escalation,
           h.at \in Owned => run[a].at \in Owned,
           d.status = "booked" => h.at \in AfterBooking
                                  /\ (lead[l].status = "booked" \/ Alone(a, l)),
           lead[l].status = "booked" /\ run[a].at \in AfterBooking =>
             d.status \in {"booked", "completed", "cancelled"}
    PROVE  SweptStep
<1>1. \A b \in Actors : run'[b] = IF b = a THEN h ELSE run[b]
  BY DEF Swept, WellFormed, TypeOK
<1>2. \A m \in Leads : /\ lead'[m] = IF m = l THEN d ELSE lead[m]
                      /\ pages'[m] = IF m = l THEN n ELSE pages[m]
  BY DEF Swept, WellFormed, TypeOK
<1>3. Apart'
  BY <1>1 DEF Apart, Swept
<1>4. \A b \in Actors : run[b].at \in Owned => run[b].job \in Leads
  BY DEF Swept, WellFormed, LeadInHand, Owned
<1>5. OwnedByTwo'
  <2> SUFFICES ASSUME NEW b \in Actors, run'[b].at \in Owned
               PROVE  b \in {Healer, lead'[run'[b].job].chat}
    BY DEF OwnedByTwo
  <2>1. b \in {Healer, lead[run[b].job].chat} /\ run[b].job \in Leads
    BY <1>1, <1>4 DEF OwnedByTwo, Swept
  <2>2. run'[b].job = run[b].job
    <3>1. CASE b # a
      BY <1>1, <3>1
    <3>2. CASE b = a
      <4>1. h.job \in Leads
        BY <1>1, <3>2, NullsAssumption DEF Swept, WellFormed, LeadInHand, Owned
      <4> QED
        BY <1>1, <3>2, <4>1, NullsAssumption
    <3> QED
      BY <3>1, <3>2
  <2> QED
    BY <1>2, <2>1, <2>2
<1>6. PagesActive'
  <2> SUFFICES ASSUME NEW b \in Actors, run'[b].at = "reassign_escalate"
               PROVE  run'[b].seen \in Active /\ lead'[run'[b].job].count # 0
    BY DEF PagesActive
  <2>1. b # a
    BY <1>1 DEF Escalation
  <2>2. run'[b] = run[b] /\ run[b].job \in Leads
    BY <1>1, <1>4, <2>1 DEF Owned
  <2> QED
    BY <1>1, <1>2, <2>1, <2>2 DEF PagesActive, Swept, Alone
<1>7. Untouched' /\ PagedHasLocation' /\ OnePagePerTakeover'
  BY <1>1, <1>2, NullsAssumption DEF Untouched, PagedHasLocation, OnePagePerTakeover, Swept
<1>8. ConfirmedIsSettled'
  <2> SUFFICES ASSUME NEW m \in Leads, lead'[m].status = "booked",
                      NEW b \in Actors, run'[b].job = m
               PROVE  run'[b].at \in AfterBooking
    BY DEF ConfirmedIsSettled
  <2>1. CASE m # l
    BY <1>1, <1>2, <2>1, NullsAssumption DEF ConfirmedIsSettled, Swept
  <2>2. CASE m = l /\ b = a
    BY <1>1, <1>2, <2>2
  <2>3. CASE m = l /\ b # a
    BY <1>1, <1>2, <2>3 DEF ConfirmedIsSettled, Swept, Alone
  <2> QED
    BY <2>1, <2>2, <2>3
<1>9. \A m \in Leads : Kept(m)
  BY <1>2 DEF Kept, Swept, ConfirmedIsSettled
<1> QED
  BY <1>3, <1>5, <1>6, <1>7, <1>8, <1>9 DEF SweptStep, Swept

\* A step of a handler on its lead that leaves the escalation reason and the pages
\* alone, and makes the lead active only from a reviving step
LEMMA QuietSweeps ==
    ASSUME Swept, WellFormed', NEW a \in Actors, NEW l \in Leads, run[a].job = l,
           NEW h \in Handler, NEW d \in LeadDoc,
           run' = [run EXCEPT ![a] = h], lead' = [lead EXCEPT ![l] = d], UNCHANGED pages,
           h.job \in {l, NoLead},
           d.chat = lead[l].chat, d.exhausted = lead[l].exhausted,
           d.count = lead[l].count \/ d.count # 0,
           d.status # "absent",
           \/ d.status = lead[l].status
           \/ d.status \notin Active
           \/ run[a].at \in Reviving,
           h.at \notin Escalation,
           h.at \in Reviving => run[a].at \in Reviving,
           h.at \in Owned => run[a].at \in Owned,
           d.status = "booked" => h.at \in AfterBooking
                                  /\ (lead[l].status = "booked" \/ Alone(a, l)),
           lead[l].status = "booked" /\ run[a].at \in AfterBooking =>
             d.status \in {"booked", "completed", "cancelled"}
    PROVE  SweptStep
<1>1. \A b \in Actors : run'[b] = IF b = a THEN h ELSE run[b]
  BY DEF Swept, WellFormed, TypeOK
<1>2. \A m \in Leads : lead'[m] = IF m = l THEN d ELSE lead[m]
  BY DEF Swept, WellFormed, TypeOK
<1>3. PagedIsGuarded'
  <2> SUFFICES ASSUME NEW m \in Leads, pages[m] # 0,
                      ~lead'[m].exhausted \/ BeingEscalated(m)'
               PROVE  AtRest(m)'
    BY DEF PagedIsGuarded
  <2>1. ~lead[m].exhausted \/ BeingEscalated(m)
    BY <1>1, <1>2 DEF BeingEscalated
  <2>2. AtRest(m)
    BY <2>1 DEF Swept, PagedIsGuarded
  <2>3. m = l => run[a].at \notin Reviving
    BY <2>2 DEF AtRest
  <2> QED
    BY <1>1, <1>2, <2>2, <2>3, NullsAssumption DEF AtRest
<1>4. pages[l] \in {0, 1} /\ pages' = [pages EXCEPT ![l] = pages[l]]
  BY DEF Swept, OnePagePerTakeover, WellFormed, TypeOK
<1>5. pages[l] # 0 => d.count # 0
  BY DEF Swept, PagedHasLocation
<1> QED
  BY <1>3, <1>4, <1>5, WriteSweeps

\* A handler ends, or moves on, and leaves every lead alone.
LEMMA ReturnSweeps ==
    ASSUME Swept, WellFormed', NEW a \in Actors, Return(a), UNCHANGED <<lead, pages>>
    PROVE  SweptStep
<1>1. \A b \in Actors : run'[b] = IF b = a THEN Idle ELSE run[b]
  BY DEF Return, Swept, WellFormed, TypeOK
<1>2. Idle.job = NoLead /\ Idle.at = "idle"
  BY DEF Idle
<1>3. Apart' /\ OwnedByTwo' /\ PagesActive'
  BY <1>1, <1>2 DEF Apart, OwnedByTwo, PagesActive, Swept, Owned
<1>4. Untouched' /\ PagedHasLocation' /\ OnePagePerTakeover' /\ ConfirmedIsSettled'
  BY <1>1, <1>2, NullsAssumption
  DEF Untouched, PagedHasLocation, OnePagePerTakeover, ConfirmedIsSettled, Swept
<1>5. PagedIsGuarded'
  <2> SUFFICES ASSUME NEW m \in Leads, pages[m] # 0,
                      ~lead[m].exhausted \/ BeingEscalated(m)'
               PROVE  AtRest(m)'
    BY DEF PagedIsGuarded
  <2>1. ~lead[m].exhausted \/ BeingEscalated(m)
    BY <1>1, <1>2, NullsAssumption DEF BeingEscalated
  <2>2. AtRest(m)
    BY <2>1 DEF Swept, PagedIsGuarded
  <2> QED
    BY <1>1, <1>2, <2>2, NullsAssumption DEF AtRest
<1>6. \A m \in Leads : Kept(m)
  BY DEF Kept
<1> QED
  BY <1>3, <1>4, <1>5, <1>6 DEF SweptStep, Swept

LEMMA GotoSweeps ==
    ASSUME Swept, WellFormed', NEW a \in Actors, NEW st \in Steps, Goto(a, st),
           run[a].job \in Leads, UNCHANGED <<lead, pages>>,
           st \notin Escalation,
           st \in Reviving => run[a].at \in Reviving,
           st \in Owned => run[a].at \in Owned,
           run[a].at \in AfterBooking => st \in AfterBooking
    PROVE  SweptStep
<1> DEFINE l == run[a].job
           h == [run[a] EXCEPT !.at = st]
<1>1. h \in Handler /\ h.at = st /\ h.job = l
  BY DEF Swept, WellFormed, TypeOK, Handler
<1>2. run' = [run EXCEPT ![a] = h]
  BY DEF Goto, Swept, WellFormed, TypeOK
<1>3. lead[l] \in LeadDoc /\ lead' = [lead EXCEPT ![l] = lead[l]]
  BY DEF Swept, WellFormed, TypeOK
<1>4. lead[l].status # "absent"
  BY DEF Swept, Untouched
<1>5. lead[l].status = "booked" => st \in AfterBooking
  BY DEF Swept, ConfirmedIsSettled
<1> HIDE DEF h
<1> QED
  BY <1>1, <1>2, <1>3, <1>4, <1>5, QuietSweeps

\* Nothing happens to the leads or to the handlers.
LEMMA StillSweeps ==
    ASSUME Swept, WellFormed', UNCHANGED <<lead, run, pages>>
    PROVE  SweptStep
BY DEF SweptStep, Swept, Apart, OwnedByTwo, Untouched, PagedHasLocation, PagesActive,
       PagedIsGuarded, BeingEscalated, AtRest, ConfirmedIsSettled, OnePagePerTakeover, Kept

-----------------------------------------------------------------------------
(* First reads *)

\* A handler whose first step is none of the guarded ones
LEMMA PlainRead ==
    ASSUME Swept, WellFormed', NEW a \in Actors, NEW h \in Handler, Begin(a, h),
           UNCHANGED <<lead, pages>>, h.job \in Leads,
           h.at \notin Owned, lead[h.job].status # "absent",
           h.at \notin AfterBooking => lead[h.job].status # "booked"
    PROVE  SweptStep
<1>1. h.at \notin Escalation /\ h.at \notin Reviving /\ h.at # "reassign_escalate"
  BY DEF Owned, Escalation, Reviving
<1> QED
  BY <1>1, ReadSweeps

LEMMA PlainAt ==
    ASSUME Swept, WellFormed', NEW a \in Actors, NEW l \in Leads, NEW st \in Steps \ Owned,
           Begin(a, At(st, l)), UNCHANGED <<lead, pages>>, lead[l].status # "absent",
           st \notin AfterBooking => lead[l].status # "booked"
    PROVE  SweptStep
<1>1. At(st, l) \in Handler /\ At(st, l).at = st /\ At(st, l).job = l
  BY AtType DEF At, Idle
<1> QED
  BY <1>1, PlainRead

LEMMA ReassignReadSweeps ==
    ASSUME Swept, WellFormed', NEW a \in Actors, NEW l \in Leads, BeginReassign(a, l),
           lead[l].status \in Active, a \in {Healer, lead[l].chat}
    PROVE  SweptStep
<1>1. PICK st \in ReassignStep(l) :
        Begin(a, [At(st, l) EXCEPT !.seen = lead[l].status, !.count = lead[l].count,
                                   !.from = lead[l].pro])
  BY DEF BeginReassign
<1> DEFINE h == [At(st, l) EXCEPT !.seen = lead[l].status, !.count = lead[l].count,
                                  !.from = lead[l].pro]
<1>2. /\ st \in {"reassign_escalate", "reassign_no_location", "reassign_match"}
      /\ st = "reassign_escalate" => lead[l].count >= MaxReassignments
      /\ st = "reassign_no_location" => lead[l].count = 0
      /\ lead[l].count \in Nat /\ lead[l].status \in Status
      /\ lead[l].pro \in Pros \cup {NoPro}
  BY DEF ReassignStep, MayLackLocation, Swept, WellFormed, TypeOK, LeadDoc
<1>3. h \in Handler /\ h.at = st /\ h.job = l /\ h.seen = lead[l].status
  BY <1>2 DEF At, Idle, Handler, Steps
<1>4. UNCHANGED <<lead, pages>>
  BY DEF BeginReassign
<1>5. st = "reassign_escalate" => lead[l].count # 0
  BY <1>2, BoundsAssumption
<1>6. st \in Escalation => pages[l] = 0
  <2> SUFFICES ASSUME st \in Escalation, pages[l] # 0 PROVE FALSE
    OBVIOUS
  <2>1. lead[l].count # 0
    BY DEF Swept, PagedHasLocation
  <2>2. lead[l].exhausted
    BY DEF Swept, PagedIsGuarded, AtRest
  <2> QED
    BY <1>2, <2>1, <2>2 DEF BeginReassign, Escalation
<1>7. lead[l].status \notin {"absent", "booked"}
  BY DEF Active
<1> HIDE DEF h
<1> QED
  BY <1>1, <1>3, <1>4, <1>5, <1>6, <1>7, ReadSweeps DEF h

LEMMA ProReadsSweep ==
    ASSUME Swept, WellFormed', NEW p \in Pros, ProReads(p)
    PROVE  SweptStep
<1>0. p \in Actors
  BY DEF Actors
<1>1. CASE ReadApprove(p) \/ ReadReject(p) \/ ReadFinish(p) \/ ReadSearch(p)
  BY <1>0, <1>1, PlainAt
  DEF ReadApprove, ReadReject, ReadFinish, ReadSearch, Newest, Oldest, OfPro, OnlyBookedJob,
      Steps, Owned, AfterBooking
<1>2. CASE ReadProCancel(p)
  <2>1. PICK l \in Leads : /\ lead[l].status = "booked"
                           /\ Begin(p, [At("cancel_write", l) EXCEPT !.ref = lead[l].slot])
    BY <1>2 DEF ReadProCancel, OnlyBookedJob, OfPro
  <2> DEFINE h == [At("cancel_write", l) EXCEPT !.ref = lead[l].slot]
  <2>2. h \in Handler /\ h.at = "cancel_write" /\ h.job = l
    BY DEF At, Idle, Handler, Steps, Status, Swept, WellFormed, TypeOK, LeadDoc
  <2>3. UNCHANGED <<lead, pages>>
    BY <1>2 DEF ReadProCancel
  <2> HIDE DEF h
  <2> QED
    BY <1>0, <2>1, <2>2, <2>3, PlainRead DEF h, Owned, AfterBooking
<1> QED
  BY <1>1, <1>2 DEF ProReads

LEMMA CustomerReadsSweep ==
    ASSUME Swept, WellFormed', NEW c \in Customers, CustomerReads(c)
    PROVE  SweptStep
<1>0. c \in Actors
  BY DEF Actors
<1>1. CASE ReadCustomerCompletion(c) \/ ReadOfferDeclined(c)
  BY <1>0, <1>1, PlainAt
  DEF ReadCustomerCompletion, ReadOfferDeclined, Newest, OfChat, Steps, Owned, AfterBooking
<1>2. CASE ReadCustomerCancel(c)
  <2>1. PICK l \in Leads : /\ lead[l].status = "booked"
                           /\ Begin(c, [At("cancel_write", l) EXCEPT !.ref = lead[l].slot])
    BY <1>2 DEF ReadCustomerCancel, Newest, OfChat
  <2> DEFINE h == [At("cancel_write", l) EXCEPT !.ref = lead[l].slot]
  <2>2. h \in Handler /\ h.at = "cancel_write" /\ h.job = l
    BY DEF At, Idle, Handler, Steps, Status, Swept, WellFormed, TypeOK, LeadDoc
  <2>3. UNCHANGED <<lead, pages>>
    BY <1>2 DEF ReadCustomerCancel
  <2> HIDE DEF h
  <2> QED
    BY <1>0, <2>1, <2>2, <2>3, PlainRead DEF h, Owned, AfterBooking
<1>3. CASE ReadReschedule(c)
  <2>1. PICK l \in Leads : /\ lead[l].status = "booked"
                           /\ Begin(c, [At("resched_offer", l) EXCEPT !.from = lead[l].pro])
    BY <1>3 DEF ReadReschedule, Newest, OfChat
  <2> DEFINE h == [At("resched_offer", l) EXCEPT !.from = lead[l].pro]
  <2>2. h \in Handler /\ h.at = "resched_offer" /\ h.job = l
    BY DEF At, Idle, Handler, Steps, Status, Swept, WellFormed, TypeOK, LeadDoc
  <2>3. UNCHANGED <<lead, pages>>
    BY <1>3 DEF ReadReschedule
  <2> HIDE DEF h
  <2> QED
    BY <1>0, <2>1, <2>2, <2>3, PlainRead DEF h, Owned, AfterBooking
<1>4. CASE ReadReschedulePick(c)
  <2>1. PICK l \in Leads, s \in menu[c] :
          /\ lead[l].status = "booked"
          /\ Begin(c, [At("resched_claim", l) EXCEPT !.ref = lead[l].slot, !.claim = s])
    BY <1>4 DEF ReadReschedulePick, Newest, OfChat
  <2> DEFINE h == [At("resched_claim", l) EXCEPT !.ref = lead[l].slot, !.claim = s]
  <2>2. h \in Handler /\ h.at = "resched_claim" /\ h.job = l
    BY DEF At, Idle, Handler, Steps, Status, Swept, WellFormed, TypeOK, LeadDoc
  <2>3. UNCHANGED <<lead, pages>>
    BY <1>4 DEF ReadReschedulePick
  <2> HIDE DEF h
  <2> QED
    BY <1>0, <2>1, <2>2, <2>3, PlainRead DEF h, Owned, AfterBooking
<1>5. CASE ReadOfferAccepted(c)
  <2>1. PICK l \in Leads : lead[l].status = "new" /\ lead[l].chat = c /\ BeginReassign(c, l)
    BY <1>5 DEF ReadOfferAccepted, Newest, OfChat
  <2> QED
    BY <1>0, <2>1, ReassignReadSweeps DEF Active
<1>6. CASE ReadIntake(c)
  <2>0. UNCHANGED <<lead, pages>>
    BY <1>6 DEF ReadIntake
  <2>1. CASE \E l \in Newest(OfChat(c, Active)) : Begin(c, At("intake_match", l))
    <3>1. PICK l \in Leads : /\ lead[l].status \in Active /\ lead[l].chat = c
                             /\ Begin(c, At("intake_match", l))
      BY <2>1 DEF Newest, OfChat
    <3> DEFINE h == At("intake_match", l)
    <3>2. h \in Handler /\ h.at = "intake_match" /\ h.job = l
      BY AtType DEF At, Idle, Steps
    <3>3. lead[l].status \notin {"absent", "booked"} /\ "intake_match" \notin Escalation
      BY <3>1 DEF Active, Escalation
    <3> HIDE DEF h
    <3> QED
      BY <1>0, <2>0, <3>1, <3>2, <3>3, ReadSweeps DEF h
  <2>2. CASE \E l \in Newest(OfChat(c, Active)) :
               Begin(c, [At("deal_write", l) EXCEPT !.pick = lead[l].pro])
    <3>1. PICK l \in Leads : /\ lead[l].status \in Active /\ lead[l].chat = c
                             /\ Begin(c, [At("deal_write", l) EXCEPT !.pick = lead[l].pro])
      BY <2>2 DEF Newest, OfChat
    <3> DEFINE h == [At("deal_write", l) EXCEPT !.pick = lead[l].pro]
    <3>2. h \in Handler /\ h.at = "deal_write" /\ h.job = l
      BY DEF At, Idle, Handler, Steps, Status, Swept, WellFormed, TypeOK, LeadDoc
    <3>3. lead[l].status \notin {"absent", "booked"} /\ "deal_write" \notin Escalation
      BY <3>1 DEF Active, Escalation
    <3> HIDE DEF h
    <3> QED
      BY <1>0, <2>0, <3>1, <3>2, <3>3, ReadSweeps DEF h
  <2>3. CASE Begin(c, At("intake_upsert", NoLead))
    <3> DEFINE h == At("intake_upsert", NoLead)
    <3>1. h.at = "intake_upsert" /\ h.job = NoLead
      BY DEF At, Idle
    <3> HIDE DEF h
    <3>2. \A b \in Actors : run'[b] = IF b = c THEN h ELSE run[b]
      BY <1>0, <2>3 DEF Begin, Swept, WellFormed, TypeOK, h
    <3>3. Apart' /\ OwnedByTwo' /\ PagesActive'
      BY <2>0, <3>1, <3>2 DEF Apart, OwnedByTwo, PagesActive, Swept, Owned
    <3>4. Untouched' /\ PagedHasLocation' /\ OnePagePerTakeover' /\ ConfirmedIsSettled'
      BY <2>0, <3>1, <3>2, NullsAssumption
      DEF Untouched, PagedHasLocation, OnePagePerTakeover, ConfirmedIsSettled, Swept
    <3>5. PagedIsGuarded'
      <4> SUFFICES ASSUME NEW m \in Leads, pages'[m] # 0,
                          ~lead'[m].exhausted \/ BeingEscalated(m)'
                   PROVE  AtRest(m)'
        BY DEF PagedIsGuarded
      <4>1. pages[m] # 0 /\ (~lead[m].exhausted \/ BeingEscalated(m))
        BY <2>0, <3>1, <3>2, NullsAssumption DEF BeingEscalated
      <4>2. AtRest(m)
        BY <4>1 DEF Swept, PagedIsGuarded
      <4> QED
        BY <2>0, <3>1, <3>2, <4>2, NullsAssumption DEF AtRest
    <3>6. \A m \in Leads : Kept(m)
      BY <2>0 DEF Kept
    <3> QED
      BY <3>3, <3>4, <3>5, <3>6 DEF SweptStep, Swept
  <2> QED
    BY <1>6, <2>1, <2>2, <2>3 DEF ReadIntake
<1> QED
  BY <1>1, <1>2, <1>3, <1>4, <1>5, <1>6 DEF CustomerReads

LEMMA SweepReadsSweep ==
    ASSUME Swept, WellFormed', NEW l \in Leads,
           ReadStale(l) \/ ReadUnoffered(l) \/ ReadWizardLead(l)
    PROVE  SweptStep
<1>0. Healer \in Actors /\ Sla \in Actors /\ Admin \in Actors
  BY DEF Actors
<1>1. CASE ReadStale(l)
  BY <1>0, <1>1, ReassignReadSweeps DEF ReadStale
<1>2. CASE ReadUnoffered(l)
  BY <1>0, <1>2, PlainAt DEF ReadUnoffered, Steps, Owned, AfterBooking
<1>3. CASE ReadWizardLead(l)
  BY <1>0, <1>3, PlainAt DEF ReadWizardLead, Steps, Owned, AfterBooking
<1> QED
  BY <1>1, <1>2, <1>3

-----------------------------------------------------------------------------
(* Later steps *)

LEMMA InHand ==
    ASSUME Swept, NEW a \in Actors, run[a].at \notin {"idle", "intake_upsert"}
    PROVE  /\ run[a] \in Handler /\ run[a].job \in Leads /\ lead[run[a].job] \in LeadDoc
           /\ lead[run[a].job].status # "absent"
BY DEF Swept, WellFormed, LeadInHand, TypeOK, Untouched

LEMMA ToStep ==
    ASSUME Swept, NEW a \in Actors, NEW st \in Steps
    PROVE  LET h == [run[a] EXCEPT !.at = st]
           IN  h \in Handler /\ h.at = st /\ h.job = run[a].job
BY DEF Swept, WellFormed, TypeOK, Handler

\* A step that writes a status other than BOOKED and does not make the lead active
LEMMA SetStatusSweeps ==
    ASSUME Swept, WellFormed', NEW a \in Actors,
           run[a].at \notin {"idle", "intake_upsert"},
           NEW st \in Status \ (Active \cup {"absent", "booked"}),
           SetStatus(run[a].job, st), UNCHANGED pages,
           NEW next \in {"idle", "release", "cancel_free"},
           next = "idle" => Return(a), next # "idle" => Goto(a, next),
           run[a].at \in AfterBooking => st \in {"completed", "cancelled"}
    PROVE  SweptStep
<1> DEFINE l == run[a].job
           d == [lead[l] EXCEPT !.status = st]
           h == IF next = "idle" THEN Idle ELSE [run[a] EXCEPT !.at = next]
<1>1. l \in Leads /\ lead[l] \in LeadDoc
  BY InHand
<1>2. /\ d \in LeadDoc /\ d.status = st /\ d.chat = lead[l].chat
      /\ d.exhausted = lead[l].exhausted /\ d.count = lead[l].count
  BY <1>1 DEF LeadDoc
<1>3. lead' = [lead EXCEPT ![l] = d]
  BY DEF SetStatus
<1>4. h \in Handler /\ h.at = next /\ h.job \in {l, NoLead}
  <2>0. Idle \in Handler /\ Idle.at = "idle" /\ Idle.job = NoLead
    BY IdleType DEF Idle
  <2>1. CASE next = "idle"
    BY <2>0, <2>1
  <2>2. CASE next # "idle"
    <3>1. next \in Steps
      BY DEF Steps
    <3>2. h = [run[a] EXCEPT !.at = next]
      BY <2>2
    <3> HIDE DEF h
    <3> QED
      BY <2>2, <3>1, <3>2, ToStep
  <2> QED
    BY <2>1, <2>2
<1>5. run' = [run EXCEPT ![a] = h]
  BY DEF Return, Goto, Swept, WellFormed, TypeOK
<1>6. next \notin Escalation /\ next \notin Reviving /\ next \notin Owned
  BY DEF Escalation, Reviving, Owned
<1> HIDE DEF d, h
<1> QED
  BY <1>1, <1>2, <1>3, <1>4, <1>5, <1>6, QuietSweeps

LEMMA CloseStepsSweep ==
    ASSUME Swept, WellFormed', NEW a \in Actors, CloseStep(a)
    PROVE  SweptStep
<1>1. CASE CancelWrite(a)
  BY <1>1, SetStatusSweeps DEF CancelWrite, Status, Active
<1>2. CASE CancelFree(a)
  BY <1>2, InHand, GotoSweeps
  DEF CancelFree, Steps, Escalation, Reviving, Owned, AfterBooking
<1>3. CASE FinishWrite(a)
  BY <1>3, SetStatusSweeps DEF FinishWrite, Status, Active
<1>4. CASE Release(a)
  BY <1>4, ReturnSweeps DEF Release
<1> QED
  BY <1>1, <1>2, <1>3, <1>4 DEF CloseStep

LEMMA TakeOverSweeps ==
    ASSUME Swept, WellFormed', NEW a \in Actors, run[a].job \in Leads, NEW p \in Pros,
           TakeOver(run[a].job, p), Return(a), a \notin Overlap,
           run[a].at \in {"search_write", "wizard_assign"}
    PROVE  SweptStep
<1> DEFINE l == run[a].job
           d == [lead[l] EXCEPT !.status = "new", !.pro = p, !.count = 0,
                                !.exhausted = FALSE, !.offered = FALSE]
<1>1. lead[l] \in LeadDoc /\ Alone(a, l) /\ run[a].at \notin AfterBooking
  BY OutsiderIsAlone DEF Swept, WellFormed, TypeOK, AfterBooking
<1>2. d \in LeadDoc /\ d.status = "new" /\ d.chat = lead[l].chat /\ d.count = 0
  <2>1. \A e \in BOOLEAN :
          LET r == [lead[l] EXCEPT !.status = "new", !.pro = p, !.count = 0,
                                   !.exhausted = e, !.offered = e]
          IN  r \in LeadDoc /\ r.status = "new" /\ r.chat = lead[l].chat /\ r.count = 0
    BY <1>1 DEF LeadDoc, Status
  <2> QED
    BY <2>1, Zenon
<1>3. lead' = [lead EXCEPT ![l] = d]
  BY TakeOverWrites
<1>4. Idle \in Handler /\ Idle.at = "idle" /\ Idle.job = NoLead
  BY IdleType DEF Idle
<1>5. run' = [run EXCEPT ![a] = Idle]
  BY DEF Return
<1>6. pages' = [pages EXCEPT ![l] = 0]
  BY DEF TakeOver
<1> HIDE DEF d
<1>7. PagedIsGuarded'
  <2> SUFFICES ASSUME NEW m \in Leads, pages'[m] # 0,
                      ~lead'[m].exhausted \/ BeingEscalated(m)'
               PROVE  AtRest(m)'
    BY DEF PagedIsGuarded
  <2>1. /\ \A b \in Actors : run'[b] = IF b = a THEN Idle ELSE run[b]
        /\ m # l /\ lead'[m] = lead[m] /\ pages'[m] = pages[m]
    BY <1>3, <1>5, <1>6 DEF Swept, WellFormed, TypeOK
  <2>2. ~lead[m].exhausted \/ BeingEscalated(m)
    BY <1>4, <2>1, NullsAssumption DEF BeingEscalated
  <2>3. AtRest(m)
    BY <2>1, <2>2 DEF Swept, PagedIsGuarded
  <2> QED
    BY <1>4, <2>1, <2>3, NullsAssumption DEF AtRest
<1>8. "idle" \notin Escalation /\ "idle" \notin Owned
  BY DEF Escalation, Owned
<1>9. run[a].job = l /\ l \in Leads /\ 0 \in {0, 1}
  OBVIOUS
<1> HIDE DEF l
<1> QED
  <2>1. /\ d.count = lead[l].count \/ d.count # 0 \/ Alone(a, l)
        /\ d.status # "absent"
        /\ Idle.job \in {l, NoLead}
        /\ Idle.at \notin Escalation
        /\ Idle.at \in Owned => run[a].at \in Owned
    BY <1>1, <1>2, <1>4, <1>8
  <2>2. /\ d.status = "booked" => /\ Idle.at \in AfterBooking
                                  /\ lead[l].status = "booked" \/ Alone(a, l)
        /\ lead[l].status = "booked" /\ run[a].at \in AfterBooking =>
             d.status \in {"booked", "completed", "cancelled"}
        /\ 0 # 0 => d.count # 0
    BY <1>1, <1>2
  <2> QED
    BY <1>2, <1>3, <1>4, <1>5, <1>6, <1>7, <1>9, <2>1, <2>2, WriteSweeps

LEMMA ProStepsSweep ==
    ASSUME Swept, WellFormed', SweepsOnly, NEW p \in Pros, ProStep(p)
    PROVE  SweptStep
<1>0. p \in Actors /\ p \notin Overlap
  BY DEF Actors, SweepsOnly
<1> DEFINE l == run[p].job
<1>1. CASE ApproveBook(p)
  <2> DEFINE d == [lead[l] EXCEPT !.status = "booked", !.pro = p]
             h == [run[p] EXCEPT !.at = "approve_claim"]
  <2>1. l \in Leads /\ lead[l] \in LeadDoc /\ Alone(p, l)
    BY <1>0, <1>1, InHand, OutsiderIsAlone DEF ApproveBook
  <2>2. /\ d \in LeadDoc /\ d.status = "booked" /\ d.chat = lead[l].chat
        /\ d.exhausted = lead[l].exhausted /\ d.count = lead[l].count
    BY <2>1 DEF LeadDoc, Status
  <2>3. lead' = [lead EXCEPT ![l] = d]
    BY <1>1, ApproveBookWrites
  <2>4. h \in Handler /\ h.at = "approve_claim" /\ h.job = l
    BY <1>0, ToStep DEF Steps
  <2>5. run' = [run EXCEPT ![p] = h] /\ UNCHANGED pages
    BY <1>0, <1>1 DEF ApproveBook, Goto, Swept, WellFormed, TypeOK
  <2>6. /\ "approve_claim" \notin Escalation /\ "approve_claim" \notin Reviving
        /\ "approve_claim" \notin Owned /\ "approve_claim" \in AfterBooking
        /\ "booked" \notin Active
    BY DEF Escalation, Reviving, Owned, AfterBooking, Active
  <2> HIDE DEF d, h
  <2>7. run[p].at \notin AfterBooking /\ run[p].job = l
    BY <1>1 DEF ApproveBook, AfterBooking
  <2> HIDE DEF l
  <2> QED
    BY <1>0, <2>1, <2>2, <2>3, <2>4, <2>5, <2>6, <2>7, QuietSweeps
<1>2. CASE ApproveClaim(p)
  <2>1. CASE Goto(p, "release")
    BY <1>0, <1>2, <2>1, InHand, GotoSweeps
    DEF ApproveClaim, Steps, Escalation, Reviving, Owned, AfterBooking
  <2>2. ASSUME NEW s \in Slots,
               run' = [run EXCEPT ![p].at = "approve_record", ![p].claim = s]
        PROVE  SweptStep
    <3> DEFINE h == [run[p] EXCEPT !.at = "approve_record", !.claim = s]
    <3>1. l \in Leads /\ lead[l] \in LeadDoc /\ lead[l].status # "absent" /\ run[p] \in Handler
      BY <1>0, <1>2, InHand DEF ApproveClaim
    <3>2. h \in Handler /\ h.at = "approve_record" /\ h.job = l
      BY <3>1 DEF Handler, Steps
    <3>3. run' = [run EXCEPT ![p] = h] /\ lead' = [lead EXCEPT ![l] = lead[l]] /\ UNCHANGED pages
      BY <1>0, <1>2, <2>2, <3>1 DEF ApproveClaim, Swept, WellFormed, TypeOK
    <3>4. /\ "approve_record" \notin Escalation /\ "approve_record" \notin Reviving
          /\ "approve_record" \notin Owned /\ "approve_record" \in AfterBooking
      BY DEF Escalation, Reviving, Owned, AfterBooking
    <3> HIDE DEF h
    <3> QED
      BY <1>0, <3>1, <3>2, <3>3, <3>4, QuietSweeps
  <2> QED
    BY <1>2, <2>1, <2>2 DEF ApproveClaim
<1>3. CASE ApproveRecord(p)
  <2> DEFINE h == [run[p] EXCEPT !.at = "release", !.claim = NoSlot]
             d == [lead[l] EXCEPT !.slot = run[p].claim]
  <2>1. l \in Leads /\ lead[l] \in LeadDoc /\ lead[l].status # "absent" /\ run[p] \in Handler
    BY <1>0, <1>3, InHand DEF ApproveRecord
  <2>2. h \in Handler /\ h.at = "release" /\ h.job = l
    BY <2>1 DEF Handler, Steps
  <2>3. /\ d \in LeadDoc /\ d.status = lead[l].status /\ d.chat = lead[l].chat
        /\ d.exhausted = lead[l].exhausted /\ d.count = lead[l].count
    BY <2>1 DEF LeadDoc, Handler
  <2>4. run' = [run EXCEPT ![p] = h] /\ lead' = [lead EXCEPT ![l] = d] /\ UNCHANGED pages
    BY <1>0, <1>3, <2>1 DEF ApproveRecord, Swept, WellFormed, TypeOK
  <2>5. /\ "release" \notin Escalation /\ "release" \notin Reviving
        /\ "release" \notin Owned /\ "release" \in AfterBooking
    BY DEF Escalation, Reviving, Owned, AfterBooking
  <2> HIDE DEF d, h
  <2>6. run[p].job = l /\ UNCHANGED pages /\ run[p].at = "approve_record"
    BY <1>3, <2>4 DEF ApproveRecord
  <2>7. /\ h.job \in {l, NoLead} /\ d.status # "absent"
        /\ d.status = "booked" => h.at \in AfterBooking
                                  /\ (lead[l].status = "booked" \/ Alone(p, l))
        /\ lead[l].status = "booked" /\ run[p].at \in AfterBooking =>
             d.status \in {"booked", "completed", "cancelled"}
    BY <2>1, <2>2, <2>3, <2>5
  <2> HIDE DEF l
  <2> QED
    BY <1>0, <2>1, <2>2, <2>3, <2>4, <2>5, <2>6, <2>7, QuietSweeps
<1>4. CASE RejectWrite(p)
  BY <1>0, <1>4, SetStatusSweeps DEF RejectWrite, Status, Active, AfterBooking
<1>5. CASE SearchWrite(p)
  BY <1>0, <1>5, InHand, TakeOverSweeps DEF SearchWrite
<1> QED
  BY <1>1, <1>2, <1>3, <1>4, <1>5 DEF ProStep

\* A step that moves a handler on and leaves the leads alone, apart from its at
LEMMA MoveSweeps ==
    ASSUME Swept, WellFormed', NEW a \in Actors, run[a].at \notin {"idle", "intake_upsert"},
           NEW h \in Handler, run' = [run EXCEPT ![a] = h], h.job = run[a].job,
           UNCHANGED <<lead, pages>>,
           h.at \notin Escalation,
           h.at \in Reviving => run[a].at \in Reviving,
           h.at \in Owned => run[a].at \in Owned,
           run[a].at \in AfterBooking => h.at \in AfterBooking
    PROVE  SweptStep
<1> DEFINE l == run[a].job
<1>1. l \in Leads /\ lead[l] \in LeadDoc /\ lead[l].status # "absent"
  BY InHand
<1>2. lead' = [lead EXCEPT ![l] = lead[l]]
  BY DEF Swept, WellFormed, TypeOK
<1>3. lead[l].status = "booked" => h.at \in AfterBooking
  BY <1>1 DEF Swept, ConfirmedIsSettled
<1> QED
  BY <1>1, <1>2, <1>3, QuietSweeps

\* The page: the lead was there to be escalated, so nobody was paged about it, and
\* the only other handler that can be at work on it is escalating it as well.
LEMMA EscalateSweeps ==
    ASSUME Swept, WellFormed', NEW a \in Actors, ReassignEscalate(a)
    PROVE  SweptStep
<1> DEFINE l == run[a].job
           d == [lead[l] EXCEPT !.status = "pending_admin_review", !.exhausted = TRUE]
           h == [run[a] EXCEPT !.at = "release"]
<1>0. /\ l \in Leads /\ lead[l] \in LeadDoc /\ run[a].at = "reassign_escalate"
  BY InHand DEF ReassignEscalate
<1>1. CASE lead[l].status # run[a].seen
  BY <1>1, ReturnSweeps DEF ReassignEscalate
<1>2. CASE lead[l].status = run[a].seen
  <2>1. lead[l].status \in Active /\ lead[l].count # 0
    BY <1>0, <1>2 DEF Swept, PagesActive
  <2>2. pages[l] = 0
    BY <1>0, <2>1 DEF Swept, PagedIsGuarded, BeingEscalated, AtRest, Escalation
  <2>3. /\ d \in LeadDoc /\ d.status = "pending_admin_review" /\ d.chat = lead[l].chat
        /\ d.exhausted /\ d.count = lead[l].count
    <3>1. \A e \in BOOLEAN :
            LET r == [lead[l] EXCEPT !.status = "pending_admin_review", !.exhausted = e]
            IN  /\ r \in LeadDoc /\ r.status = "pending_admin_review"
                /\ r.chat = lead[l].chat /\ r.exhausted = e /\ r.count = lead[l].count
      BY <1>0 DEF LeadDoc, Status
    <3> QED
      BY <3>1, Zenon
  <2>4. lead' = [lead EXCEPT ![l] = d]
    BY <1>0, <1>2, ReassignEscalateWrites, Zenon
  <2>5. h \in Handler /\ h.at = "release" /\ h.job = l
    BY ToStep DEF Steps
  <2>6. run' = [run EXCEPT ![a] = h] /\ pages' = [pages EXCEPT ![l] = 1]
    BY <1>0, <1>2, <2>2 DEF ReassignEscalate, Goto, Swept, WellFormed, TypeOK
  <2>7. run[a].job = l /\ 1 \in {0, 1}
    OBVIOUS
  <2> HIDE DEF d, h
  <2>8. /\ \A b \in Actors : run'[b] = IF b = a THEN h ELSE run[b]
        /\ \A m \in Leads : /\ lead'[m] = IF m = l THEN d ELSE lead[m]
                            /\ pages'[m] = IF m = l THEN 1 ELSE pages[m]
    BY <1>0, <2>4, <2>6 DEF Swept, WellFormed, TypeOK
  <2> HIDE DEF l
  <2>9. PagedIsGuarded'
    <3> SUFFICES ASSUME NEW m \in Leads, pages'[m] # 0,
                        ~lead'[m].exhausted \/ BeingEscalated(m)'
                 PROVE  AtRest(m)'
      BY DEF PagedIsGuarded
    <3>1. CASE m # l
      <4>1. ~lead[m].exhausted \/ BeingEscalated(m)
        BY <2>5, <2>7, <2>8, <3>1 DEF BeingEscalated
      <4>2. AtRest(m)
        BY <2>8, <3>1, <4>1 DEF Swept, PagedIsGuarded
      <4> QED
        BY <2>5, <2>7, <2>8, <3>1, <4>2 DEF AtRest
    <3>2. CASE m = l
      <4>1. PICK b \in Actors : b # a /\ run[b].job = l /\ run[b].at \in Escalation
        BY <2>3, <2>5, <2>8, <3>2 DEF BeingEscalated, Escalation
      <4>2. ASSUME NEW c \in Actors, run'[c].job = l, run'[c].at \in Reviving
            PROVE  FALSE
        <5>1. c # a /\ run[c].job = l /\ run[c].at \in Reviving
          BY <2>5, <2>8, <4>2 DEF Reviving
        <5>2. {a, b, c} \subseteq {Healer, lead[l].chat}
          BY <1>0, <2>7, <4>1, <5>1 DEF Swept, OwnedByTwo, Owned, Escalation, Reviving
        <5>3. b # c
          BY <4>1, <5>1 DEF Escalation, Reviving
        <5> QED
          BY <4>1, <5>1, <5>2, <5>3
      <4>3. d.status \notin Active
        BY <2>3 DEF Active
      <4> QED
        BY <2>8, <3>2, <4>2, <4>3 DEF AtRest
    <3> QED
      BY <3>1, <3>2
  <2>10. /\ "release" \notin Escalation /\ "release" \notin Owned
         /\ "reassign_escalate" \notin AfterBooking
    BY DEF Escalation, Owned, AfterBooking
  <2>11. /\ d.count = lead[l].count \/ d.count # 0 \/ Alone(a, l)
         /\ d.status # "absent"
         /\ h.job \in {l, NoLead}
         /\ h.at \notin Escalation
         /\ h.at \in Owned => run[a].at \in Owned
         /\ 1 # 0 => d.count # 0
    BY <2>1, <2>3, <2>5, <2>10
  <2>12. /\ d.status = "booked" => /\ h.at \in AfterBooking
                                   /\ lead[l].status = "booked" \/ Alone(a, l)
         /\ lead[l].status = "booked" /\ run[a].at \in AfterBooking =>
              d.status \in {"booked", "completed", "cancelled"}
    BY <1>0, <2>3, <2>10
  <2> QED
    BY <1>0, <2>3, <2>4, <2>5, <2>6, <2>7, <2>9, <2>11, <2>12, WriteSweeps
<1> QED
  BY <1>1, <1>2

\* The escalation that overwrites the reason: if the admin was paged before, the lead
\* was at rest, and it stays so.
LEMMA NoLocationSweeps ==
    ASSUME Swept, WellFormed', NEW a \in Actors, ReassignNoLocation(a)
    PROVE  SweptStep
<1> DEFINE l == run[a].job
           d == [lead[l] EXCEPT !.status = "pending_admin_review", !.exhausted = FALSE]
           h == [run[a] EXCEPT !.at = "release"]
<1>0. /\ l \in Leads /\ lead[l] \in LeadDoc /\ run[a].at = "reassign_no_location"
      /\ UNCHANGED pages
  BY InHand DEF ReassignNoLocation
<1>1. /\ d \in LeadDoc /\ d.status = "pending_admin_review" /\ d.chat = lead[l].chat
      /\ d.count = lead[l].count
  <2>1. \A e \in BOOLEAN :
          LET r == [lead[l] EXCEPT !.status = "pending_admin_review", !.exhausted = e]
          IN  /\ r \in LeadDoc /\ r.status = "pending_admin_review"
              /\ r.chat = lead[l].chat /\ r.count = lead[l].count
    BY <1>0 DEF LeadDoc, Status
  <2> QED
    BY <2>1, Zenon
<1>2. lead' = [lead EXCEPT ![l] = d]
  BY ReassignNoLocationWrites, Zenon
<1>3. h \in Handler /\ h.at = "release" /\ h.job = l
  BY ToStep DEF Steps
<1>4. run' = [run EXCEPT ![a] = h]
  BY DEF ReassignNoLocation, Goto, Swept, WellFormed, TypeOK
<1>5. pages[l] \in {0, 1} /\ pages' = [pages EXCEPT ![l] = pages[l]] /\ run[a].job = l
  BY <1>0 DEF Swept, OnePagePerTakeover, WellFormed, TypeOK
<1> HIDE DEF d, h
<1>6. /\ \A b \in Actors : run'[b] = IF b = a THEN h ELSE run[b]
      /\ \A m \in Leads : lead'[m] = IF m = l THEN d ELSE lead[m]
  BY <1>0, <1>2, <1>4 DEF Swept, WellFormed, TypeOK
<1> HIDE DEF l
<1>7. PagedIsGuarded'
  <2> SUFFICES ASSUME NEW m \in Leads, pages[m] # 0,
                      ~lead'[m].exhausted \/ BeingEscalated(m)'
               PROVE  AtRest(m)'
    BY <1>0 DEF PagedIsGuarded
  <2>1. ~lead[m].exhausted \/ BeingEscalated(m)
    BY <1>0, <1>3, <1>5, <1>6 DEF BeingEscalated, Escalation
  <2>2. AtRest(m)
    BY <2>1 DEF Swept, PagedIsGuarded
  <2>3. d.status \notin Active /\ h.at \notin Reviving
    BY <1>1, <1>3 DEF Active, Reviving
  <2> QED
    BY <1>3, <1>5, <1>6, <2>2, <2>3 DEF AtRest
<1>8. /\ "release" \notin Escalation /\ "release" \notin Owned
      /\ "reassign_no_location" \notin AfterBooking
      /\ pages[l] # 0 => lead[l].count # 0
  BY <1>0 DEF Escalation, Owned, AfterBooking, Swept, PagedHasLocation
<1>9. /\ d.count = lead[l].count \/ d.count # 0 \/ Alone(a, l)
      /\ d.status # "absent"
      /\ h.job \in {l, NoLead}
      /\ h.at \notin Escalation
      /\ h.at \in Owned => run[a].at \in Owned
      /\ pages[l] # 0 => d.count # 0
  BY <1>1, <1>3, <1>8
<1>10. /\ d.status = "booked" => /\ h.at \in AfterBooking
                                 /\ lead[l].status = "booked" \/ Alone(a, l)
       /\ lead[l].status = "booked" /\ run[a].at \in AfterBooking =>
            d.status \in {"booked", "completed", "cancelled"}
  BY <1>0, <1>1, <1>8
<1> QED
  BY <1>0, <1>1, <1>2, <1>3, <1>4, <1>5, <1>7, <1>9, <1>10, WriteSweeps

LEMMA ReassignStepsSweep ==
    ASSUME Swept, WellFormed', NEW a \in Actors, ReassignSteps(a)
    PROVE  SweptStep
<1>1. CASE ReassignMatch(a)
  <2>0. run[a].at = "reassign_match" /\ run[a] \in Handler /\ run[a].job \in Leads
    BY <1>1, InHand DEF ReassignMatch
  <2>1. CASE Goto(a, "reassign_give_up")
    BY <1>1, <2>0, <2>1, GotoSweeps
    DEF ReassignMatch, Steps, Escalation, Reviving, Owned, AfterBooking
  <2>2. ASSUME NEW p \in Pros, run' = [run EXCEPT ![a].at = "reassign_give", ![a].pick = p]
        PROVE  SweptStep
    <3> DEFINE h == [run[a] EXCEPT !.at = "reassign_give", !.pick = p]
    <3>1. h \in Handler /\ h.at = "reassign_give" /\ h.job = run[a].job
      BY <2>0 DEF Handler, Steps
    <3>2. run' = [run EXCEPT ![a] = h]
      BY <2>2 DEF Swept, WellFormed, TypeOK
    <3>3. UNCHANGED <<lead, pages>>
      BY <1>1 DEF ReassignMatch
    <3>4. /\ "reassign_give" \notin Escalation /\ "reassign_match" \notin AfterBooking
          /\ "reassign_match" \in Reviving /\ "reassign_match" \in Owned
      BY DEF Escalation, Reviving, Owned, AfterBooking
    <3> HIDE DEF h
    <3> QED
      BY <2>0, <3>1, <3>2, <3>3, <3>4, MoveSweeps
  <2> QED
    BY <1>1, <2>1, <2>2 DEF ReassignMatch
<1>2. CASE ReassignGive(a)
  <2> DEFINE l == run[a].job
             d == [lead[l] EXCEPT !.status = "new", !.pro = run[a].pick,
                                  !.count = run[a].count + 1, !.offered = FALSE]
             h == [run[a] EXCEPT !.at = "release"]
  <2>0. /\ l \in Leads /\ lead[l] \in LeadDoc /\ run[a].at = "reassign_give"
        /\ run[a].count \in Nat /\ run[a].pick \in Pros \cup {NoPro}
    BY <1>2, InHand DEF ReassignGive, Handler
  <2>1. /\ d \in LeadDoc /\ d.status = "new" /\ d.chat = lead[l].chat
        /\ d.exhausted = lead[l].exhausted /\ d.count # 0
    <3> DEFINE n == run[a].count + 1
               q == run[a].pick
    <3>1. n \in Nat /\ n # 0 /\ q \in Pros \cup {NoPro}
      BY <2>0
    <3> HIDE DEF n, q
    <3>2. \A e \in BOOLEAN :
            LET r == [lead[l] EXCEPT !.status = "new", !.pro = q, !.count = n, !.offered = e]
            IN  /\ r \in LeadDoc /\ r.status = "new" /\ r.chat = lead[l].chat
                /\ r.exhausted = lead[l].exhausted /\ r.count = n
      BY <2>0, <3>1 DEF LeadDoc, Status
    <3> QED
      BY <3>1, <3>2, Zenon DEF n, q
  <2>2. lead' = [lead EXCEPT ![l] = d]
    BY <1>2, ReassignGiveWrites
  <2>3. h \in Handler /\ h.at = "release" /\ h.job = l
    BY ToStep DEF Steps
  <2>4. run' = [run EXCEPT ![a] = h] /\ UNCHANGED pages
    BY <1>2 DEF ReassignGive, Goto, Swept, WellFormed, TypeOK
  <2>5. /\ "release" \notin Escalation /\ "release" \notin Reviving /\ "release" \notin Owned
        /\ "reassign_give" \in Reviving /\ "reassign_give" \notin AfterBooking
    BY DEF Escalation, Reviving, Owned, AfterBooking
  <2>6. run[a].job = l
    OBVIOUS
  <2> HIDE DEF d, h, l
  <2>7. /\ h.job \in {l, NoLead} /\ d.status # "absent"
        /\ d.count = lead[l].count \/ d.count # 0
        /\ d.status = lead[l].status \/ d.status \notin Active \/ run[a].at \in Reviving
        /\ d.status = "booked" => h.at \in AfterBooking
                                  /\ (lead[l].status = "booked" \/ Alone(a, l))
        /\ lead[l].status = "booked" /\ run[a].at \in AfterBooking =>
             d.status \in {"booked", "completed", "cancelled"}
    BY <2>0, <2>1, <2>3, <2>5
  <2> QED
    BY <2>0, <2>1, <2>2, <2>3, <2>4, <2>5, <2>6, <2>7, QuietSweeps
<1>3. CASE ReassignGiveUp(a)
  BY <1>3, SetStatusSweeps DEF ReassignGiveUp, Status, Active, AfterBooking
<1> QED
  BY <1>1, <1>2, <1>3, EscalateSweeps, NoLocationSweeps DEF ReassignSteps

\* A step that writes another field of the document than those the invariant is about
LEMMA FieldSweeps ==
    ASSUME Swept, WellFormed', NEW a \in Actors, run[a].at \notin {"idle", "intake_upsert"},
           NEW h \in Handler, run' = [run EXCEPT ![a] = h], h.job \in {run[a].job, NoLead},
           NEW d \in LeadDoc, lead' = [lead EXCEPT ![run[a].job] = d], UNCHANGED pages,
           d.chat = lead[run[a].job].chat, d.status = lead[run[a].job].status,
           d.exhausted = lead[run[a].job].exhausted, d.count = lead[run[a].job].count,
           h.at \notin Escalation,
           h.at \in Reviving => run[a].at \in Reviving,
           h.at \in Owned => run[a].at \in Owned,
           run[a].at \in AfterBooking => h.at \in AfterBooking
    PROVE  SweptStep
<1> DEFINE l == run[a].job
<1>1. l \in Leads /\ lead[l].status # "absent" /\ run[a].job = l
  BY InHand
<1>2. lead[l].status = "booked" => h.at \in AfterBooking
  BY <1>1 DEF Swept, ConfirmedIsSettled
<1> HIDE DEF l
<1>3. /\ d.chat = lead[l].chat /\ d.status = lead[l].status
      /\ d.exhausted = lead[l].exhausted /\ d.count = lead[l].count
      /\ lead' = [lead EXCEPT ![l] = d] /\ h.job \in {l, NoLead}
  BY DEF l
<1>4. /\ d.count = lead[l].count \/ d.count # 0
      /\ d.status # "absent"
      /\ d.status = lead[l].status \/ d.status \notin Active \/ run[a].at \in Reviving
      /\ d.status = "booked" => h.at \in AfterBooking
                                /\ (lead[l].status = "booked" \/ Alone(a, l))
      /\ lead[l].status = "booked" /\ run[a].at \in AfterBooking =>
           d.status \in {"booked", "completed", "cancelled"}
  BY <1>1, <1>2, <1>3
<1> QED
  BY <1>1, <1>3, <1>4, QuietSweeps

LEMMA OtherField ==
    ASSUME NEW d \in LeadDoc
    PROVE  /\ \A p \in Pros \cup {NoPro} :
                LET r == [d EXCEPT !.pro = p]
                IN  /\ r \in LeadDoc /\ r.chat = d.chat /\ r.status = d.status
                    /\ r.exhausted = d.exhausted /\ r.count = d.count
           /\ \A s \in Slots \cup {NoSlot} :
                LET r == [d EXCEPT !.slot = s]
                IN  /\ r \in LeadDoc /\ r.chat = d.chat /\ r.status = d.status
                    /\ r.exhausted = d.exhausted /\ r.count = d.count
           /\ \A e \in BOOLEAN :
                LET r == [d EXCEPT !.offered = e]
                IN  /\ r \in LeadDoc /\ r.chat = d.chat /\ r.status = d.status
                    /\ r.exhausted = d.exhausted /\ r.count = d.count
BY DEF LeadDoc

\* The lead of a first message: found, or inserted
LEMMA UpsertSweeps ==
    ASSUME Swept, WellFormed', NEW c \in Customers, IntakeUpsert(c)
    PROVE  SweptStep
<1>0. c \in Actors /\ run[c] \in Handler
  BY DEF Actors, Swept, WellFormed, TypeOK
<1>1. PICK l \in Leads :
        /\ lead[l].chat = c
        /\ MayTake(c, l)
        /\ \/ lead[l].status = "contacted" /\ UNCHANGED lead
           \/ lead[l].status = "absent" /\ SetStatus(l, "contacted")
        /\ run' = [run EXCEPT ![c].at = "intake_match", ![c].job = l]
        /\ UNCHANGED pages
  BY DEF IntakeUpsert, OfChat
<1> DEFINE h == [run[c] EXCEPT !.at = "intake_match", !.job = l]
<1>2. h \in Handler /\ h.at = "intake_match" /\ h.job = l
  BY <1>0 DEF Handler, Steps
<1>3. run' = [run EXCEPT ![c] = h]
  BY <1>0, <1>1 DEF Swept, WellFormed, TypeOK
<1>4. "intake_match" \notin Escalation /\ "contacted" \in Active
  BY DEF Escalation, Active
<1> HIDE DEF h
<1>5. CASE lead[l].status = "contacted" /\ UNCHANGED lead
  BY <1>0, <1>1, <1>2, <1>3, <1>4, <1>5, TakeUpSweeps
<1>6. CASE lead[l].status = "absent" /\ SetStatus(l, "contacted")
  <2> DEFINE d == [lead[l] EXCEPT !.status = "contacted"]
  <2>1. /\ d.status = "contacted" /\ d.chat = lead[l].chat
        /\ d.exhausted = lead[l].exhausted /\ d.count = lead[l].count
    BY DEF Swept, WellFormed, TypeOK, LeadDoc
  <2>2. lead' = [lead EXCEPT ![l] = d]
    BY <1>6 DEF SetStatus
  <2> HIDE DEF d
  <2>3. /\ \A b \in Actors : run'[b] = IF b = c THEN h ELSE run[b]
        /\ \A m \in Leads : lead'[m] = IF m = l THEN d ELSE lead[m]
    BY <1>3, <2>2 DEF Swept, WellFormed, TypeOK
  <2>4. pages[l] = 0 /\ \A b \in Actors : run[b].job # l
    BY <1>6 DEF Swept, Untouched
  <2>5. Apart' /\ OwnedByTwo' /\ PagesActive'
    <3>1. \A b \in Actors : run[b].at \in Owned => run[b].job \in Leads \ {l}
      BY <2>4 DEF Swept, WellFormed, LeadInHand, Owned
    <3>2. Apart'
      BY <1>2, <2>3, <2>4 DEF Swept, Apart
    <3>3. OwnedByTwo'
      <4> SUFFICES ASSUME NEW b \in Actors, run'[b].at \in Owned
                   PROVE  b \in {Healer, lead'[run'[b].job].chat}
        BY DEF OwnedByTwo
      <4>1. CASE b = c
        BY <1>1, <1>2, <2>1, <2>3, <4>1
      <4>2. CASE b # c
        BY <2>3, <3>1, <4>2 DEF Swept, OwnedByTwo
      <4> QED
        BY <4>1, <4>2
    <3>4. PagesActive'
      BY <1>2, <1>4, <2>3, <3>1 DEF Swept, PagesActive, Owned
    <3> QED
      BY <3>2, <3>3, <3>4
  <2>6. Untouched' /\ PagedHasLocation' /\ OnePagePerTakeover' /\ ConfirmedIsSettled'
    <3>1. Untouched'
      <4> SUFFICES ASSUME NEW m \in Leads, lead'[m].status = "absent"
                   PROVE  pages'[m] = 0 /\ \A b \in Actors : run'[b].job # m
        BY DEF Untouched
      <4>1. m # l /\ lead[m].status = "absent"
        BY <2>1, <2>3
      <4>2. pages[m] = 0 /\ \A b \in Actors : run[b].job # m
        BY <4>1 DEF Untouched, Swept
      <4> QED
        BY <1>1, <1>2, <2>3, <4>1, <4>2
    <3>2. PagedHasLocation' /\ OnePagePerTakeover'
      BY <1>1, <2>1, <2>3, <2>4 DEF PagedHasLocation, OnePagePerTakeover, Swept
    <3>3. ConfirmedIsSettled'
      BY <1>2, <2>1, <2>3, <2>4 DEF ConfirmedIsSettled, Swept
    <3> QED
      BY <3>1, <3>2, <3>3
  <2>7. PagedIsGuarded'
    <3> SUFFICES ASSUME NEW m \in Leads, pages'[m] # 0,
                        ~lead'[m].exhausted \/ BeingEscalated(m)'
                 PROVE  AtRest(m)'
      BY DEF PagedIsGuarded
    <3>1. m # l /\ pages[m] # 0
      BY <1>1, <2>4
    <3>2. ~lead[m].exhausted \/ BeingEscalated(m)
      BY <1>2, <2>3, <3>1 DEF BeingEscalated
    <3>3. AtRest(m)
      BY <3>1, <3>2 DEF Swept, PagedIsGuarded
    <3> QED
      BY <1>2, <2>3, <3>1, <3>3 DEF AtRest
  <2>8. \A m \in Leads : Kept(m)
    BY <1>6, <2>3 DEF Kept
  <2> QED
    BY <2>5, <2>6, <2>7, <2>8 DEF SweptStep, Swept
<1> QED
  BY <1>1, <1>5, <1>6

LEMMA CustomerStepsSweep ==
    ASSUME Swept, WellFormed', NEW c \in Customers,
           CustomerStep(c) \/ RescheduleLeave(c) \/ StateExpires(c)
    PROVE  SweptStep
<1>0. c \in Actors
  BY DEF Actors
<1> DEFINE l == run[c].job
<1>1. CASE RescheduleOffer(c) \/ DealPark(c)
  BY <1>0, <1>1, ReturnSweeps DEF RescheduleOffer, DealPark
<1>2. CASE RescheduleClaim(c)
  <2>0. run[c].job \in Leads /\ UNCHANGED <<lead, pages>> /\ run[c].at = "resched_claim"
    BY <1>0, <1>2, InHand DEF RescheduleClaim
  <2>1. CASE Return(c)
    BY <1>0, <2>0, <2>1, ReturnSweeps
  <2>2. CASE Goto(c, IF run[c].ref = NoSlot THEN "resched_write" ELSE "resched_free")
    BY <1>0, <2>0, <2>2, GotoSweeps DEF Steps, Escalation, Reviving, Owned, AfterBooking
  <2> QED
    BY <1>2, <2>1, <2>2 DEF RescheduleClaim
<1>3. CASE RescheduleFree(c)
  BY <1>0, <1>3, InHand, GotoSweeps
  DEF RescheduleFree, Steps, Escalation, Reviving, Owned, AfterBooking
<1>4. CASE RescheduleWrite(c)
  <2> DEFINE d == [lead[l] EXCEPT !.slot = run[c].claim]
             h == [run[c] EXCEPT !.at = "release"]
  <2>1. lead[l] \in LeadDoc /\ run[c].claim \in Slots \cup {NoSlot}
    BY <1>0, <1>4, InHand DEF RescheduleWrite, Handler
  <2>2. /\ d \in LeadDoc /\ d.chat = lead[l].chat /\ d.status = lead[l].status
        /\ d.exhausted = lead[l].exhausted /\ d.count = lead[l].count
    BY <2>1, OtherField, Zenon
  <2>3. h \in Handler /\ h.at = "release" /\ h.job = l
    BY <1>0, ToStep DEF Steps
  <2>4. /\ run' = [run EXCEPT ![c] = h] /\ lead' = [lead EXCEPT ![l] = d]
        /\ UNCHANGED pages
    BY <1>0, <1>4 DEF RescheduleWrite, Goto, Swept, WellFormed, TypeOK
  <2>5. run[c].at = "resched_write"
    BY <1>4 DEF RescheduleWrite
  <2>6. /\ "release" \notin Escalation /\ "release" \notin Reviving
        /\ "release" \notin Owned /\ "release" \in AfterBooking
    BY DEF Escalation, Reviving, Owned, AfterBooking
  <2> HIDE DEF d, h
  <2> QED
    BY <1>0, <2>1, <2>2, <2>3, <2>4, <2>5, <2>6, FieldSweeps
<1>5. CASE KeepWaiting(c)
  <2> DEFINE d == [lead[l] EXCEPT !.offered = FALSE]
  <2>1. lead[l] \in LeadDoc /\ run[c].at = "keep_waiting"
    BY <1>0, <1>5, InHand DEF KeepWaiting
  <2>2. /\ d \in LeadDoc /\ d.chat = lead[l].chat /\ d.status = lead[l].status
        /\ d.exhausted = lead[l].exhausted /\ d.count = lead[l].count
    BY <2>1, OtherField, Zenon
  <2>3. Idle \in Handler /\ Idle.at = "idle" /\ Idle.job = NoLead
    BY IdleType DEF Idle
  <2>4. lead' = [lead EXCEPT ![l] = d]
    BY <1>5, Zenon DEF KeepWaiting
  <2>5. run' = [run EXCEPT ![c] = Idle] /\ UNCHANGED pages
    BY <1>5 DEF KeepWaiting, Return
  <2>6. /\ "idle" \notin Escalation /\ "idle" \notin Reviving
        /\ "idle" \notin Owned /\ "idle" \in AfterBooking
    BY DEF Escalation, Reviving, Owned, AfterBooking
  <2> HIDE DEF d
  <2> QED
    BY <1>0, <2>1, <2>2, <2>3, <2>4, <2>5, <2>6, FieldSweeps
<1>6. CASE IntakeUpsert(c)
  BY <1>6, UpsertSweeps
<1>7. CASE IntakeMatch(c)
  <2>0. run[c].at = "intake_match" /\ run[c] \in Handler /\ UNCHANGED <<lead, pages>>
        /\ run[c].job \in Leads
    BY <1>0, <1>7, InHand DEF IntakeMatch
  <2>1. ASSUME NEW p \in Pros, run' = [run EXCEPT ![c].at = "intake_assign", ![c].pick = p]
        PROVE  SweptStep
    <3> DEFINE h == [run[c] EXCEPT !.at = "intake_assign", !.pick = p]
    <3>1. h \in Handler /\ h.at = "intake_assign" /\ h.job = run[c].job
      BY <2>0 DEF Handler, Steps
    <3>2. run' = [run EXCEPT ![c] = h]
      BY <1>0, <2>1 DEF Swept, WellFormed, TypeOK
    <3>3. /\ "intake_assign" \notin Escalation /\ "intake_match" \notin AfterBooking
          /\ "intake_match" \in Reviving /\ "intake_match" \in Owned
      BY DEF Escalation, Reviving, Owned, AfterBooking
    <3> HIDE DEF h
    <3> QED
      BY <1>0, <2>0, <3>1, <3>2, <3>3, MoveSweeps
  <2>2. CASE Goto(c, "intake_escalate")
    BY <1>0, <2>0, <2>2, GotoSweeps DEF Steps, Escalation, Reviving, Owned, AfterBooking
  <2>3. CASE Return(c)
    BY <1>0, <2>0, <2>3, ReturnSweeps
  <2> QED
    BY <1>7, <2>1, <2>2, <2>3 DEF IntakeMatch
<1>8. CASE IntakeEscalate(c)
  BY <1>0, <1>8, SetStatusSweeps DEF IntakeEscalate, Status, Active, AfterBooking
<1>9. CASE IntakeAssign(c)
  <2> DEFINE d == [lead[l] EXCEPT !.pro = run[c].pick]
  <2>1. /\ lead[l] \in LeadDoc /\ run[c].at = "intake_assign"
        /\ run[c].pick \in Pros \cup {NoPro}
    BY <1>0, <1>9, InHand DEF IntakeAssign, Handler
  <2>2. /\ d \in LeadDoc /\ d.chat = lead[l].chat /\ d.status = lead[l].status
        /\ d.exhausted = lead[l].exhausted /\ d.count = lead[l].count
    BY <2>1, OtherField, Zenon
  <2>3. lead' = [lead EXCEPT ![l] = d] /\ UNCHANGED pages
    BY <1>9 DEF IntakeAssign
  <2>4. /\ "intake_assign" \in Reviving /\ "intake_assign" \in Owned
        /\ "intake_assign" \notin AfterBooking
        /\ "idle" \notin Escalation /\ "deal_write" \notin Escalation
    BY DEF Escalation, Reviving, Owned, AfterBooking
  <2> HIDE DEF d
  <2>5. CASE Return(c)
    <3>1. Idle \in Handler /\ Idle.at = "idle" /\ Idle.job = NoLead
      BY IdleType DEF Idle
    <3>2. run' = [run EXCEPT ![c] = Idle]
      BY <2>5 DEF Return
    <3> QED
      BY <1>0, <2>1, <2>2, <2>3, <2>4, <3>1, <3>2, FieldSweeps
  <2>6. CASE Goto(c, "deal_write")
    <3> DEFINE h == [run[c] EXCEPT !.at = "deal_write"]
    <3>1. h \in Handler /\ h.at = "deal_write" /\ h.job = l
      BY <1>0, ToStep DEF Steps
    <3>2. run' = [run EXCEPT ![c] = h]
      BY <1>0, <2>6 DEF Goto, Swept, WellFormed, TypeOK
    <3> HIDE DEF h
    <3> QED
      BY <1>0, <2>1, <2>2, <2>3, <2>4, <3>1, <3>2, FieldSweeps
  <2> QED
    BY <1>9, <2>5, <2>6 DEF IntakeAssign
<1>10. CASE DealWrite(c)
  <2> DEFINE d == [lead[l] EXCEPT !.status = "new", !.pro = run[c].pick, !.offered = FALSE]
             h == [run[c] EXCEPT !.at = "deal_park"]
  <2>0. /\ l \in Leads /\ lead[l] \in LeadDoc /\ run[c].at = "deal_write"
        /\ run[c].pick \in Pros \cup {NoPro}
    BY <1>0, <1>10, InHand DEF DealWrite, Handler
  <2>1. /\ d \in LeadDoc /\ d.status = "new" /\ d.chat = lead[l].chat
        /\ d.exhausted = lead[l].exhausted /\ d.count = lead[l].count
    <3> DEFINE q == run[c].pick
    <3>1. q \in Pros \cup {NoPro}
      BY <2>0
    <3> HIDE DEF q
    <3>2. \A e \in BOOLEAN :
            LET r == [lead[l] EXCEPT !.status = "new", !.pro = q, !.offered = e]
            IN  /\ r \in LeadDoc /\ r.status = "new" /\ r.chat = lead[l].chat
                /\ r.exhausted = lead[l].exhausted /\ r.count = lead[l].count
      BY <2>0, <3>1 DEF LeadDoc, Status
    <3> QED
      BY <3>2, Zenon DEF q
  <2>2. lead' = [lead EXCEPT ![l] = d]
    BY <1>10, DealWriteWrites
  <2>3. h \in Handler /\ h.at = "deal_park" /\ h.job = l
    BY <1>0, ToStep DEF Steps
  <2>4. run' = [run EXCEPT ![c] = h] /\ UNCHANGED pages
    BY <1>0, <1>10 DEF DealWrite, Goto, Swept, WellFormed, TypeOK
  <2>5. /\ "deal_park" \notin Escalation /\ "deal_park" \notin Reviving
        /\ "deal_park" \notin Owned
        /\ "deal_write" \in Reviving /\ "deal_write" \notin AfterBooking
    BY DEF Escalation, Reviving, Owned, AfterBooking
  <2>6. run[c].job = l
    OBVIOUS
  <2> HIDE DEF d, h, l
  <2>7. /\ h.job \in {l, NoLead} /\ d.status # "absent"
        /\ d.count = lead[l].count \/ d.count # 0
        /\ d.status = lead[l].status \/ d.status \notin Active \/ run[c].at \in Reviving
        /\ d.status = "booked" => h.at \in AfterBooking
                                  /\ (lead[l].status = "booked" \/ Alone(c, l))
        /\ lead[l].status = "booked" /\ run[c].at \in AfterBooking =>
             d.status \in {"booked", "completed", "cancelled"}
    BY <2>0, <2>1, <2>3, <2>5
  <2> QED
    BY <1>0, <2>0, <2>1, <2>2, <2>3, <2>4, <2>5, <2>6, <2>7, QuietSweeps
<1>11. CASE RescheduleLeave(c) \/ StateExpires(c)
  BY <1>11, StillSweeps DEF RescheduleLeave, StateExpires
<1> QED
  BY <1>1, <1>2, <1>3, <1>4, <1>5, <1>6, <1>7, <1>8, <1>9, <1>10, <1>11 DEF CustomerStep

LEMMA OtherStepsSweep ==
    ASSUME Swept, WellFormed', SweepsOnly,
           \/ OfferClaim \/ WizardLeave
           \/ \E p \in Pros : WizardAssign(p)
           \/ \E a \in Actors : Crash(a)
    PROVE  SweptStep
<1>0. Sla \in Actors /\ Admin \in Actors /\ Admin \notin Overlap
  BY DEF Actors, SweepsOnly
<1>1. CASE OfferClaim
  <2> DEFINE l == run[Sla].job
             d == [lead[l] EXCEPT !.offered = TRUE]
  <2>0. run[Sla].at = "offer_claim" /\ lead[l] \in LeadDoc /\ Return(Sla) /\ UNCHANGED pages
    BY <1>0, <1>1, InHand DEF OfferClaim
  <2>1. CASE UNCHANGED lead
    BY <1>0, <2>0, <2>1, ReturnSweeps
  <2>2. CASE lead' = [lead EXCEPT ![l] = d]
    <3>1. /\ d \in LeadDoc /\ d.chat = lead[l].chat /\ d.status = lead[l].status
          /\ d.exhausted = lead[l].exhausted /\ d.count = lead[l].count
      BY <2>0, OtherField, Zenon
    <3>2. Idle \in Handler /\ Idle.at = "idle" /\ Idle.job = NoLead
      BY IdleType DEF Idle
    <3>3. run' = [run EXCEPT ![Sla] = Idle]
      BY <2>0 DEF Return
    <3>4. /\ "idle" \notin Escalation /\ "idle" \notin Reviving
          /\ "idle" \notin Owned /\ "idle" \in AfterBooking
      BY DEF Escalation, Reviving, Owned, AfterBooking
    <3> HIDE DEF d
    <3> QED
      BY <1>0, <2>0, <2>2, <3>1, <3>2, <3>3, <3>4, FieldSweeps
  <2>3. UNCHANGED lead \/ lead' = [lead EXCEPT ![l] = d]
    BY <1>1, Zenon DEF OfferClaim
  <2> QED
    BY <2>1, <2>2, <2>3
<1>2. CASE WizardLeave
  BY <1>0, <1>2, ReturnSweeps DEF WizardLeave
<1>3. ASSUME NEW p \in Pros, WizardAssign(p) PROVE SweptStep
  BY <1>0, <1>3, InHand, TakeOverSweeps DEF WizardAssign
<1>4. ASSUME NEW a \in Actors, Crash(a) PROVE SweptStep
  BY <1>4, ReturnSweeps DEF Crash
<1> QED
  BY <1>1, <1>2, <1>3, <1>4

-----------------------------------------------------------------------------
(* The theorems *)

LEMMA InitSwept == Init => Swept
<1> SUFFICES ASSUME Init PROVE Swept
  OBVIOUS
<1>1. WellFormed
  BY InitWellFormed
<1>2. \A a \in Actors : run[a].at = "idle" /\ run[a].job = NoLead
  BY DEF Init, Idle
<1>3. \A l \in Leads : lead[l].status = "absent" /\ pages[l] = 0
  BY DEF Init
<1>4. Apart /\ OwnedByTwo /\ PagesActive
  BY <1>2 DEF Apart, OwnedByTwo, PagesActive, Owned
<1>5. Untouched /\ PagedHasLocation /\ PagedIsGuarded /\ ConfirmedIsSettled /\ OnePagePerTakeover
  BY <1>2, <1>3, NullsAssumption
  DEF Untouched, PagedHasLocation, PagedIsGuarded, ConfirmedIsSettled, OnePagePerTakeover
<1> QED
  BY <1>1, <1>4, <1>5 DEF Swept

LEMMA NextSweeps == SweepsOnly /\ Swept /\ [Next]_vars => SweptStep
<1> SUFFICES ASSUME SweepsOnly, Swept, [Next]_vars PROVE SweptStep
  OBVIOUS
<1>1. WellFormed'
  BY NextKeeps DEF Swept
<1>2. CASE UNCHANGED vars
  BY <1>1, <1>2, StillSweeps DEF vars
<1>3. CASE Next
  BY <1>1, <1>3, ProReadsSweep, CustomerReadsSweep, SweepReadsSweep, ProStepsSweep,
     CustomerStepsSweep, CloseStepsSweep, ReassignStepsSweep, OtherStepsSweep DEF Next
<1> QED
  BY <1>2, <1>3

Undisturbed == SweepsOnly /\ Swept

LEMMA AlwaysSwept == SweepsOnly /\ Spec => []Undisturbed
<1>1. SweepsOnly /\ Init => Undisturbed
  BY InitSwept DEF Undisturbed
<1>2. Undisturbed /\ [Next]_vars => Undisturbed'
  BY NextSweeps DEF SweptStep, Undisturbed, SweepsOnly
<1> QED
  BY <1>1, <1>2, PTL DEF Spec

(* The Healer and the customer who answers "1" may reassign a lead at the  *)
(* same time, from documents they read at any time before, and handlers    *)
(* may die: until a pro or an admin takes the lead over, the admin is      *)
(* paged about it at most once.  reassign_lead relies on expected_status   *)
(* for this, on the recorded escalation_reason and, as the reason can be   *)
(* overwritten, on a lead with a location never losing it.                 *)
THEOREM PagedOncePerTakeover == SweepsOnly /\ Spec => []OnePagePerTakeover
<1>1. Undisturbed => OnePagePerTakeover
  BY DEF Undisturbed, Swept
<1> QED
  BY <1>1, AlwaysSwept, PTL

(* No sweep and no customer who overlaps undoes a confirmed job: every     *)
(* handler that read the lead before the pro confirmed it has finished.    *)
THEOREM BookingKept == SweepsOnly /\ Spec => BookingIsKept
<1>1. Undisturbed /\ [Next]_vars =>
        [\A l \in Leads : lead[l].status = "booked" =>
           lead'[l].status \in {"booked", "completed", "cancelled"}]_vars
  BY NextSweeps DEF SweptStep, Kept, Undisturbed
<1> QED
  BY <1>1, AlwaysSwept, PTL DEF Spec, BookingIsKept

=============================================================================
