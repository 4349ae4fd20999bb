-------------------------- MODULE LeadCalendar_proofs --------------------------
(***************************************************************************)
(* The calendar is exact, and LeadBooking implements SlotBook, for every   *)
(* set of customers, pros, leads and slots, when no two handlers work on   *)
(* one lead at the same time and no handler dies half way.  Both           *)
(* conditions are needed: without either, TLC finds a double booking.      *)
(***************************************************************************)
EXTENDS LeadBooking_proofs

Isolated == Overlap = {} /\ MaxCrashes = 0

-----------------------------------------------------------------------------
(* The invariant *)

(* The hour s is held for a lead whose document is d and on which only the *)
(* handler h works (Idle when none does).                                  *)
HeldIn(d, h, s) ==
    \/ /\ d.slot = s
       /\ \/ d.status \in {"booked", "completed"} /\ h.at # "resched_write"
          \/ h.at = "cancel_free"
    \/ h.claim = s /\ h.at \in {"approve_record", "resched_free", "resched_write"}

\* Steps at which the handler itself matters for what is held
Midway == {"approve_record", "resched_free", "resched_write", "cancel_free"}

\* A lead that nobody confirmed has no hour.
Unconfirmed == {"absent", "contacted", "new", "rejected", "pending_admin_review"}
NoHourYet(d) == d.status \in Unconfirmed => d.slot = NoSlot

\* Steps that write a lead which was not confirmed when it was read
BeforeBooking == {"approve_book", "reject_write", "search_write", "wizard_assign",
                  "reassign_escalate", "reassign_no_location", "reassign_match",
                  "reassign_give", "reassign_give_up", "keep_waiting", "offer_claim",
                  "intake_match", "intake_assign", "intake_escalate", "deal_write"}

(* What the handler h read of the document d and relies on still holds.    *)
StillTrue(h, d) ==
    /\ h.at \in BeforeBooking => d.status \in Unconfirmed
    /\ h.at \in {"approve_claim", "approve_record"} => d.status = "booked" /\ d.slot = NoSlot
    /\ h.at \in {"cancel_write", "resched_claim", "resched_free"} =>
         d.status = "booked" /\ d.slot = h.ref
    /\ h.at \in {"finish_write", "resched_write"} => d.status = "booked"
    /\ h.at = "cancel_free" => d.status = "cancelled" /\ d.slot = h.ref /\ h.ref \in Slots
    /\ h.at = "resched_free" => h.ref \in Slots /\ h.claim # h.ref
    /\ h.at \in {"approve_record", "resched_claim", "resched_free", "resched_write"} =>
         h.claim \in Slots

\* A handler has a lead in hand, unless it has none yet.
InHandIff(h) == h.job = NoLead <=> h.at \in {"idle", "intake_upsert"}

(* No two handlers work on one lead. *)
Exclusive ==
    \A a, b \in Actors : a # b /\ run[a].job = run[b].job => run[a].job = NoLead

ReadsStillTrue ==
    \A a \in Actors :
      /\ InHandIff(run[a])
      /\ run[a].job # NoLead => StillTrue(run[a], lead[run[a].job])

Calendar ==
    /\ Isolated
    /\ WellFormed
    /\ Exclusive
    /\ ReadsStillTrue
    /\ \A l \in Leads : NoHourYet(lead[l])
    /\ NoDoubleBooking
    /\ SlotLedger

-----------------------------------------------------------------------------
(* What a lead holds is a matter of its document and of the one handler    *)
(* that works on it.  D and R stand for lead and run, now or after a step. *)

HoldsAt(D, R, l, s) ==
    \/ /\ D[l].slot = s
       /\ \/ /\ D[l].status \in {"booked", "completed"}
             /\ \A a \in Actors : ~(R[a].job = l /\ R[a].at = "resched_write")
          \/ \E a \in Actors : R[a].job = l /\ R[a].at = "cancel_free"
    \/ \E a \in Actors :
         /\ R[a].job = l /\ R[a].claim = s
         /\ R[a].at \in {"approve_record", "resched_free", "resched_write"}

LEMMA HoldsIsHoldsAt ==
    ASSUME NEW l, NEW s
    PROVE  /\ Holds(l, s) <=> HoldsAt(lead, run, l, s)
           /\ Holds(l, s)' <=> HoldsAt(lead', run', l, s)
BY DEF Holds, Reserves, Claiming, HoldsAt

LEMMA HoldsIsLocal ==
    ASSUME NEW D, NEW R, NEW a \in Actors, NEW l, NEW s,
           \A b \in Actors \ {a} : R[b].job # l,
           R[a].job # l => R[a].at \notin Midway
    PROVE  HoldsAt(D, R, l, s) <=> HeldIn(D[l], R[a], s)
BY DEF HoldsAt, HeldIn, Midway

\* A lead that a step leaves alone, with every handler on it, holds the same.
LEMMA HoldsIsKept ==
    ASSUME NEW D, NEW R, NEW E, NEW S, NEW l, NEW s, E[l] = D[l],
           \A b \in Actors : (R[b].job = l \/ S[b].job = l) => S[b] = R[b]
    PROVE  HoldsAt(D, R, l, s) <=> HoldsAt(E, S, l, s)
BY DEF HoldsAt

-----------------------------------------------------------------------------
(* A step changes what one lead holds in one of three ways: not at all, by *)
(* a free hour, or by giving up one of its own.                            *)

HoldingsChange(l) ==
    \/ /\ taken' = taken
       /\ \A s \in Slots : Holds(l, s)' <=> Holds(l, s)
    \/ \E t \in Slots :
         /\ ~taken[t] /\ taken' = [taken EXCEPT ![t] = TRUE]
         /\ \A s \in Slots : Holds(l, s)' <=> (Holds(l, s) \/ s = t)
    \/ \E t \in Slots :
         /\ Holds(l, t) /\ taken' = [taken EXCEPT ![t] = FALSE]
         /\ \A s \in Slots : Holds(l, s)' <=> (Holds(l, s) /\ s # t)

OthersHoldTheSame(l) ==
    \A m \in Leads \ {l}, s \in Slots : Holds(m, s)' <=> Holds(m, s)

LEMMA BookStaysExact ==
    ASSUME TypeOK, NoDoubleBooking, SlotLedger, NEW l \in Leads,
           HoldingsChange(l), OthersHoldTheSame(l)
    PROVE  NoDoubleBooking' /\ SlotLedger'
<1>1. NoDoubleBooking'
  BY DEF NoDoubleBooking, SlotLedger, HoldingsChange, OthersHoldTheSame
<1>2. SlotLedger'
  BY DEF TypeOK, NoDoubleBooking, SlotLedger, HoldingsChange, OthersHoldTheSame
<1> QED
  BY <1>1, <1>2

\* The one lead that holds an hour is its holder.
LEMMA HolderIs ==
    ASSUME NEW s \in Slots, NEW l \in Leads, \A m \in Leads : Holds(m, s) <=> m = l
    PROVE  Holder[s] = l
BY DEF Holder

LEMMA HolderWillBe ==
    ASSUME NEW s \in Slots, NEW l \in Leads, \A m \in Leads : Holds(m, s)' <=> m = l
    PROVE  Holder'[s] = l
BY DEF Holder

LEMMA NoHolder ==
    ASSUME NEW s \in Slots
    PROVE  /\ (\A m \in Leads : ~Holds(m, s)) => Holder[s] = NoLead
           /\ (\A m \in Leads : ~Holds(m, s)') => Holder'[s] = NoLead
BY DEF Holder

LEMMA HolderIsFunction ==
    /\ Holder = [s \in Slots |-> Holder[s]]
    /\ Holder' = [s \in Slots |-> Holder'[s]]
BY DEF Holder

\* Whoever holds the hour before and after, the holder is the same.
LEMMA HolderStays ==
    ASSUME NoDoubleBooking, NoDoubleBooking', NEW s \in Slots,
           \A m \in Leads : Holds(m, s)' <=> Holds(m, s)
    PROVE  Holder'[s] = Holder[s]
<1>1. CASE \E m \in Leads : Holds(m, s)
  <2>1. PICK l \in Leads : Holds(l, s)
    BY <1>1
  <2>2. \A m \in Leads : (Holds(m, s) <=> m = l) /\ (Holds(m, s)' <=> m = l)
    BY <2>1 DEF NoDoubleBooking
  <2> QED
    BY <2>2, HolderIs, HolderWillBe
<1>2. CASE \A m \in Leads : ~Holds(m, s)
  BY <1>2, NoHolder
<1> QED
  BY <1>1, <1>2

LEMMA BookSteps ==
    ASSUME TypeOK, NoDoubleBooking, SlotLedger, NEW l \in Leads,
           HoldingsChange(l), OthersHoldTheSame(l)
    PROVE  [Book!Next]_<<Holder, taken>>
<1>0. NoDoubleBooking' /\ SlotLedger'
  BY BookStaysExact
<1>1. CASE taken' = taken /\ \A s \in Slots : Holds(l, s)' <=> Holds(l, s)
  <2>1. \A s \in Slots : Holder'[s] = Holder[s]
    BY <1>0, <1>1, HolderStays DEF OthersHoldTheSame
  <2>2. Holder' = Holder
    BY <2>1, HolderIsFunction
  <2> QED
    BY <1>1, <2>2
<1>2. ASSUME NEW t \in Slots, ~taken[t], taken' = [taken EXCEPT ![t] = TRUE],
             \A s \in Slots : Holds(l, s)' <=> (Holds(l, s) \/ s = t)
      PROVE  [Book!Next]_<<Holder, taken>>
  <2>1. Holder[t] = NoLead
    BY <1>2, NoHolder DEF SlotLedger
  <2>2. Holder'[t] = l
    <3>1. \A m \in Leads : Holds(m, t)' <=> m = l
      BY <1>2 DEF SlotLedger, OthersHoldTheSame
    <3> QED
      BY <3>1, HolderWillBe
  <2>3. \A s \in Slots \ {t} : Holder'[s] = Holder[s]
    BY <1>0, <1>2, HolderStays DEF OthersHoldTheSame
  <2>4. Holder' = [Holder EXCEPT ![t] = l]
    BY <2>2, <2>3, HolderIsFunction
  <2>5. Book!Reserve(l, t)
    BY <1>2, <2>1, <2>4 DEF Book!Reserve
  <2> QED
    BY <2>5 DEF Book!Next
<1>3. ASSUME NEW t \in Slots, Holds(l, t), taken' = [taken EXCEPT ![t] = FALSE],
             \A s \in Slots : Holds(l, s)' <=> (Holds(l, s) /\ s # t)
      PROVE  [Book!Next]_<<Holder, taken>>
  <2>1. \A m \in Leads : Holds(m, t) <=> m = l
    BY <1>3 DEF NoDoubleBooking
  <2>2. Holder[t] = l
    BY <2>1, HolderIs
  <2>3. Holder'[t] = NoLead
    <3>1. \A m \in Leads : ~Holds(m, t)'
      BY <1>3, <2>1 DEF OthersHoldTheSame
    <3> QED
      BY <3>1, NoHolder
  <2>4. \A s \in Slots \ {t} : Holder'[s] = Holder[s]
    BY <1>0, <1>3, HolderStays DEF OthersHoldTheSame
  <2>5. Holder' = [Holder EXCEPT ![t] = NoLead]
    BY <2>3, <2>4, HolderIsFunction
  <2>6. Book!Release(t)
    BY <1>3, <2>2, <2>5, NullsAssumption DEF Book!Release
  <2> QED
    BY <2>6 DEF Book!Next
<1> QED
  BY <1>1, <1>2, <1>3 DEF HoldingsChange

-----------------------------------------------------------------------------
(* One step: actor a moves from run[a] to the handler h and leaves the     *)
(* document d in place of lead[l], on which nobody else works.             *)

HeldChange(l, a, d, h) ==
    \/ /\ taken' = taken
       /\ \A s \in Slots : HeldIn(d, h, s) <=> HeldIn(lead[l], run[a], s)
    \/ \E t \in Slots :
         /\ ~taken[t] /\ taken' = [taken EXCEPT ![t] = TRUE]
         /\ \A s \in Slots : HeldIn(d, h, s) <=> (HeldIn(lead[l], run[a], s) \/ s = t)
    \/ \E t \in Slots :
         /\ HeldIn(lead[l], run[a], t) /\ taken' = [taken EXCEPT ![t] = FALSE]
         /\ \A s \in Slots : HeldIn(d, h, s) <=> (HeldIn(lead[l], run[a], s) /\ s # t)

Alone(a, l) == \A b \in Actors \ {a} : run[b].job # l

\* What the invariant and SlotBook ask of a step
CalendarStep == Calendar' /\ [Book!Next]_<<Holder, taken>>

LEMMA AloneOnItsJob ==
    ASSUME Calendar, NEW a \in Actors, run[a].job \in Leads
    PROVE  Alone(a, run[a].job)
BY NullsAssumption DEF Calendar, Exclusive, Alone

LEMMA StepKeepsCalendar ==
    ASSUME Calendar, WellFormed', NEW a \in Actors, NEW l \in Leads, Alone(a, l),
           run[a].job \in {l, NoLead},
           NEW h, run' = [run EXCEPT ![a] = h], h.job \in {l, NoLead}, InHandIff(h),
           NEW d, lead' = [lead EXCEPT ![l] = d], NoHourYet(d),
           h.job = l => StillTrue(h, d),
           HeldChange(l, a, d, h)
    PROVE  CalendarStep
<1>1. /\ \A b \in Actors : run'[b] = IF b = a THEN h ELSE run[b]
      /\ \A m \in Leads : lead'[m] = IF m = l THEN d ELSE lead[m]
  BY DEF Calendar, WellFormed, TypeOK
<1>2. \A b \in Actors \ {a} : run[b].job \in (Leads \ {l}) \cup {NoLead}
  BY DEF Alone, Calendar, WellFormed, TypeOK, Handler
<1>3. Exclusive'
  BY <1>1, <1>2 DEF Calendar, Exclusive
<1>4. ReadsStillTrue'
  BY <1>1, <1>2, NullsAssumption DEF Calendar, ReadsStillTrue
<1>5. \A m \in Leads : NoHourYet(lead[m])'
  BY <1>1 DEF Calendar, NoHourYet
<1>6. \A s \in Slots : Holds(l, s) <=> HeldIn(lead[l], run[a], s)
  <2>1. \A b \in Actors \ {a} : run[b].job # l
    BY DEF Alone
  <2>2. run[a].job # l => run[a].at \notin Midway
    BY DEF Calendar, ReadsStillTrue, InHandIff, Midway
  <2> QED
    BY <2>1, <2>2, HoldsIsHoldsAt, HoldsIsLocal
<1>7. \A s \in Slots : Holds(l, s)' <=> HeldIn(d, h, s)
  <2>1. \A b \in Actors \ {a} : run'[b].job # l
    BY <1>1 DEF Alone
  <2>2. run'[a].job # l => run'[a].at \notin Midway
    BY <1>1 DEF InHandIff, Midway
  <2>3. \A s \in Slots : HoldsAt(lead', run', l, s) <=> HeldIn(lead'[l], run'[a], s)
    BY <2>1, <2>2, HoldsIsLocal
  <2> QED
    BY <1>1, <2>3, HoldsIsHoldsAt
<1>8. OthersHoldTheSame(l)
  <2> SUFFICES ASSUME NEW m \in Leads \ {l}, NEW s \in Slots
               PROVE  Holds(m, s)' <=> Holds(m, s)
    BY DEF OthersHoldTheSame
  <2>1. \A b \in Actors : (run[b].job = m \/ run'[b].job = m) => run'[b] = run[b]
    BY <1>1, NullsAssumption
  <2>2. lead'[m] = lead[m]
    BY <1>1
  <2> QED
    BY <2>1, <2>2, HoldsIsKept, HoldsIsHoldsAt
<1>9. HoldingsChange(l)
  BY <1>6, <1>7 DEF HeldChange, HoldingsChange
<1>10. NoDoubleBooking' /\ SlotLedger'
  BY <1>8, <1>9, BookStaysExact DEF Calendar, WellFormed
<1>11. [Book!Next]_<<Holder, taken>>
  BY <1>8, <1>9, BookSteps DEF Calendar, WellFormed
<1> QED
  BY <1>3, <1>4, <1>5, <1>10, <1>11 DEF CalendarStep, Calendar, Isolated

-----------------------------------------------------------------------------
(* The steps that hold nothing more and nothing less afterwards            *)

\* The document d reserves for l what lead[l] reserves.
SameHour(d, l) ==
    /\ d.slot = lead[l].slot
    /\ \/ d.slot = NoSlot
       \/ d.status \in {"booked", "completed"} <=> lead[l].status \in {"booked", "completed"}

LEMMA QuietStep ==
    ASSUME Calendar, WellFormed', NEW a \in Actors, NEW l \in Leads, Alone(a, l),
           run[a].job \in {l, NoLead}, run[a].at \notin Midway,
           NEW h, run' = [run EXCEPT ![a] = h], h.job \in {l, NoLead}, InHandIff(h),
           h.at \notin Midway,
           NEW d, lead' = [lead EXCEPT ![l] = d], NoHourYet(d), SameHour(d, l),
           h.job = l => StillTrue(h, d),
           taken' = taken
    PROVE  CalendarStep
<1>1. \A s \in Slots : HeldIn(d, h, s) <=> HeldIn(lead[l], run[a], s)
  BY NullsAssumption DEF HeldIn, Midway, SameHour
<1> QED
  BY <1>1, StepKeepsCalendar DEF HeldChange

\* A step of a handler with no lead in hand, or of none at all
LEMMA LeadlessStep ==
    ASSUME Calendar, WellFormed', UNCHANGED <<lead, taken>>,
           \/ UNCHANGED run
           \/ \E a \in Actors : /\ run[a] = Idle
                               /\ run' = [run EXCEPT ![a] = At("intake_upsert", NoLead)]
    PROVE  CalendarStep
<1> DEFINE h == At("intake_upsert", NoLead)
<1>1. h.job = NoLead /\ h.at = "intake_upsert" /\ Idle.job = NoLead
  BY DEF At, Idle
<1>2. \A b \in Actors : run'[b] = run[b] \/ (run[b] = Idle /\ run'[b] = h)
  BY DEF Calendar, WellFormed, TypeOK
<1> HIDE DEF h
<1>3. Exclusive'
  BY <1>1, <1>2 DEF Calendar, Exclusive
<1>4. ReadsStillTrue'
  BY <1>1, <1>2 DEF Calendar, ReadsStillTrue, InHandIff
<1>5. \A l \in Leads, s \in Slots : Holds(l, s)' <=> Holds(l, s)
  <2> SUFFICES ASSUME NEW l \in Leads, NEW s \in Slots PROVE Holds(l, s)' <=> Holds(l, s)
    OBVIOUS
  <2>1. \A b \in Actors : (run[b].job = l \/ run'[b].job = l) => run'[b] = run[b]
    BY <1>1, <1>2, NullsAssumption
  <2> QED
    BY <2>1, HoldsIsKept, HoldsIsHoldsAt
<1>6. NoDoubleBooking' /\ SlotLedger'
  BY <1>5 DEF Calendar, NoDoubleBooking, SlotLedger
<1>7. \A s \in Slots : Holder'[s] = Holder[s]
  BY <1>5, <1>6, HolderStays DEF Calendar
<1>8. UNCHANGED <<Holder, taken>>
  BY <1>7, HolderIsFunction
<1> QED
  BY <1>3, <1>4, <1>6, <1>8 DEF CalendarStep, Calendar, Isolated

\* A first read: with nobody overlapping, nobody else has the lead in hand.
LEMMA ReadStep ==
    ASSUME Calendar, WellFormed', NEW a \in Actors, NEW l \in Leads,
           NEW h, Begin(a, h), h.job = l, h.at \notin Midway \cup {"idle", "intake_upsert"},
           StillTrue(h, lead[l]), UNCHANGED <<lead, taken>>
    PROVE  CalendarStep
<1>1. run[a] = Idle /\ run' = [run EXCEPT ![a] = h]
  BY DEF Begin
<1>2. \A b \in Actors : run[b].job # l
  BY NullsAssumption DEF Begin, MayTake, Calendar, Isolated
<1>3. lead' = [lead EXCEPT ![l] = lead[l]]
  BY DEF Calendar, WellFormed, TypeOK
<1>4. /\ NoHourYet(lead[l]) /\ SameHour(lead[l], l)
      /\ InHandIff(h)
      /\ run[a].job = NoLead /\ run[a].at \notin Midway
  BY <1>1, NullsAssumption DEF Calendar, SameHour, InHandIff, Idle, Midway
<1> QED
  BY <1>1, <1>2, <1>3, <1>4, QuietStep DEF Alone

LEMMA ReturnStep ==
    ASSUME Calendar, WellFormed', NEW a \in Actors, Return(a), run[a].at \notin Midway,
           run[a].job \in Leads, UNCHANGED taken,
           NEW d, lead' = [lead EXCEPT ![run[a].job] = d], NoHourYet(d),
           SameHour(d, run[a].job)
    PROVE  CalendarStep
<1>1. Idle.job = NoLead /\ InHandIff(Idle) /\ Idle.at \notin Midway
  BY DEF Idle, InHandIff, Midway
<1> QED
  BY <1>1, AloneOnItsJob, QuietStep, NullsAssumption DEF Return

LEMMA GotoStep ==
    ASSUME Calendar, WellFormed', NEW a \in Actors, run[a].job \in Leads,
           NEW st \in Steps \ {"idle", "intake_upsert"}, Goto(a, st),
           NEW d, lead' = [lead EXCEPT ![run[a].job] = d], NoHourYet(d),
           StillTrue([run[a] EXCEPT !.at = st], d),
           \/ HeldChange(run[a].job, a, d, [run[a] EXCEPT !.at = st])
           \/ /\ {st, run[a].at} \cap Midway = {}
              /\ UNCHANGED taken /\ SameHour(d, run[a].job)
    PROVE  CalendarStep
<1> DEFINE h == [run[a] EXCEPT !.at = st]
<1>1. h.job = run[a].job /\ h.at = st /\ run' = [run EXCEPT ![a] = h]
  BY DEF Goto, Calendar, WellFormed, TypeOK, Handler
<1>2. InHandIff(h)
  BY <1>1, NullsAssumption DEF InHandIff
<1> HIDE DEF h
<1>3. CASE HeldChange(run[a].job, a, d, h)
  BY <1>1, <1>2, <1>3, AloneOnItsJob, StepKeepsCalendar DEF h
<1>4. CASE {st, run[a].at} \cap Midway = {} /\ UNCHANGED taken /\ SameHour(d, run[a].job)
  BY <1>1, <1>2, <1>4, AloneOnItsJob, QuietStep DEF h
<1> QED
  BY <1>3, <1>4 DEF h

-----------------------------------------------------------------------------
(* First reads *)

\* A read of a lead that is not confirmed, for a step that relies on that
LEMMA UnconfirmedRead ==
    ASSUME Calendar, WellFormed', NEW a \in Actors, NEW l \in Leads,
           lead[l].status \in Unconfirmed, NEW h, Begin(a, h), h.job = l,
           h.at \in BeforeBooking, UNCHANGED <<lead, taken>>
    PROVE  CalendarStep
<1>1. StillTrue(h, lead[l]) /\ h.at \notin Midway \cup {"idle", "intake_upsert"}
  BY DEF StillTrue, BeforeBooking, Midway
<1> QED
  BY <1>1, ReadStep

\* A read of a booked lead, by a handler that keeps its slot
LEMMA BookedRead ==
    ASSUME Calendar, WellFormed', NEW a \in Actors, NEW l \in Leads,
           lead[l].status = "booked", NEW h, Begin(a, h), h.job = l,
           \/ h.at = "finish_write" \/ h.at = "resched_offer"
           \/ h.at = "cancel_write" /\ h.ref = lead[l].slot
           \/ h.at = "resched_claim" /\ h.ref = lead[l].slot /\ h.claim \in Slots,
           UNCHANGED <<lead, taken>>
    PROVE  CalendarStep
<1>1. StillTrue(h, lead[l]) /\ h.at \notin Midway \cup {"idle", "intake_upsert"}
  BY DEF StillTrue, BeforeBooking, Midway
<1> QED
  BY <1>1, ReadStep

LEMMA ReassignRead ==
    ASSUME Calendar, WellFormed', NEW a \in Actors, NEW l \in Leads,
           lead[l].status \in Active, BeginReassign(a, l)
    PROVE  CalendarStep
<1>1. PICK st \in ReassignStep(l) :
        Begin(a, [At(st, l) EXCEPT !.seen = lead[l].status, !.count = lead[l].count,
                                   !.from = lead[l].pro])
  BY DEF BeginReassign
<1> DEFINE h == [At(st, l) EXCEPT !.seen = lead[l].status, !.count = lead[l].count,
                                  !.from = lead[l].pro]
<1>2. h.job = l /\ h.at = st
  BY DEF At, Idle
<1>3. st \in BeforeBooking
  BY DEF ReassignStep, BeforeBooking
<1>4. lead[l].status \in Unconfirmed /\ UNCHANGED <<lead, taken>>
  BY DEF Active, Unconfirmed, BeginReassign
<1> HIDE DEF h
<1> QED
  BY <1>1, <1>2, <1>3, <1>4, UnconfirmedRead DEF h

LEMMA ProReadsCalendar ==
    ASSUME Calendar, WellFormed', NEW p \in Pros, ProReads(p)
    PROVE  CalendarStep
<1>0. p \in Actors /\ UNCHANGED <<lead, taken>>
  BY DEF Actors, ProReads, ReadApprove, ReadReject, ReadFinish, ReadProCancel, ReadSearch
<1>1. CASE ReadApprove(p) \/ ReadReject(p) \/ ReadSearch(p)
  <2>1. PICK l \in Leads, st \in {"approve_book", "reject_write", "search_write"} :
          Begin(p, At(st, l)) /\ lead[l].status \in Unconfirmed
    BY <1>1 DEF ReadApprove, ReadReject, ReadSearch, Newest, Oldest, OfPro, Unconfirmed
  <2>2. At(st, l).job = l /\ At(st, l).at = st /\ st \in BeforeBooking
    BY DEF At, Idle, BeforeBooking
  <2> QED
    BY <1>0, <2>1, <2>2, UnconfirmedRead
<1>2. CASE ReadFinish(p)
  <2>1. PICK l \in Leads : Begin(p, At("finish_write", l)) /\ lead[l].status = "booked"
    BY <1>2 DEF ReadFinish, OnlyBookedJob, OfPro
  <2>2. At("finish_write", l).job = l /\ At("finish_write", l).at = "finish_write"
    BY DEF At, Idle
  <2> QED
    BY <1>0, <2>1, <2>2, BookedRead
<1>3. CASE ReadProCancel(p)
  <2>1. PICK l \in Leads : /\ Begin(p, [At("cancel_write", l) EXCEPT !.ref = lead[l].slot])
                           /\ lead[l].status = "booked"
    BY <1>3 DEF ReadProCancel, OnlyBookedJob, OfPro
  <2> DEFINE h == [At("cancel_write", l) EXCEPT !.ref = lead[l].slot]
  <2>2. h.job = l /\ h.at = "cancel_write" /\ h.ref = lead[l].slot
    BY DEF At, Idle
  <2> HIDE DEF h
  <2> QED
    BY <1>0, <2>1, <2>2, BookedRead DEF h
<1> QED
  BY <1>1, <1>2, <1>3 DEF ProReads

LEMMA CustomerReadsCalendar ==
    ASSUME Calendar, WellFormed', NEW c \in Customers, CustomerReads(c)
    PROVE  CalendarStep
<1>0. c \in Actors
  BY DEF Actors
<1>1. CASE ReadCustomerCancel(c)
  <2>1. PICK l \in Leads : /\ Begin(c, [At("cancel_write", l) EXCEPT !.ref = lead[l].slot])
                           /\ lead[l].status = "booked"
    BY <1>1 DEF ReadCustomerCancel, Newest, OfChat
  <2> DEFINE h == [At("cancel_write", l) EXCEPT !.ref = lead[l].slot]
  <2>2. h.job = l /\ h.at = "cancel_write" /\ h.ref = lead[l].slot
    BY DEF At, Idle
  <2> HIDE DEF h
  <2> QED
    BY <1>0, <1>1, <2>1, <2>2, BookedRead DEF h, ReadCustomerCancel
<1>2. CASE ReadCustomerCompletion(c)
  <2>1. PICK l \in Leads : Begin(c, At("finish_write", l)) /\ lead[l].status = "booked"
    BY <1>2 DEF ReadCustomerCompletion, Newest, OfChat
  <2>2. At("finish_write", l).job = l /\ At("finish_write", l).at = "finish_write"
    BY DEF At, Idle
  <2> QED
    BY <1>0, <1>2, <2>1, <2>2, BookedRead DEF ReadCustomerCompletion
<1>3. CASE ReadReschedule(c)
  <2>1. PICK l \in Leads : /\ Begin(c, [At("resched_offer", l) EXCEPT !.from = lead[l].pro])
                           /\ lead[l].status = "booked"
    BY <1>3 DEF ReadReschedule, Newest, OfChat
  <2> DEFINE h == [At("resched_offer", l) EXCEPT !.from = lead[l].pro]
  <2>2. h.job = l /\ h.at = "resched_offer"
    BY DEF At, Idle
  <2> HIDE DEF h
  <2> QED
    BY <1>0, <1>3, <2>1, <2>2, BookedRead DEF h, ReadReschedule
<1>4. CASE ReadReschedulePick(c)
  <2>1. PICK l \in Leads, s \in menu[c] :
          /\ Begin(c, [At("resched_claim", l) EXCEPT !.ref = lead[l].slot, !.claim = s])
          /\ lead[l].status = "booked"
    BY <1>4 DEF ReadReschedulePick, Newest, OfChat
  <2> DEFINE h == [At("resched_claim", l) EXCEPT !.ref = lead[l].slot, !.claim = s]
  <2>2. h.job = l /\ h.at = "resched_claim" /\ h.ref = lead[l].slot /\ h.claim = s
    BY DEF At, Idle
  <2>3. s \in Slots
    BY DEF Calendar, WellFormed, TypeOK
  <2> HIDE DEF h
  <2> QED
    BY <1>0, <1>4, <2>1, <2>2, <2>3, BookedRead DEF h, ReadReschedulePick
<1>5. CASE ReadOfferAccepted(c)
  <2>1. PICK l \in Leads : BeginReassign(c, l) /\ lead[l].status = "new"
    BY <1>5 DEF ReadOfferAccepted, Newest, OfChat
  <2> QED
    BY <1>0, <2>1, ReassignRead DEF Active
<1>6. CASE ReadOfferDeclined(c)
  <2>1. PICK l \in Leads : Begin(c, At("keep_waiting", l)) /\ lead[l].status = "new"
    BY <1>6 DEF ReadOfferDeclined, Newest, OfChat
  <2>2. At("keep_waiting", l).job = l /\ At("keep_waiting", l).at \in BeforeBooking
    BY DEF At, Idle, BeforeBooking
  <2> QED
    BY <1>0, <1>6, <2>1, <2>2, UnconfirmedRead DEF ReadOfferDeclined, Unconfirmed
<1>7. CASE ReadIntake(c)
  <2>0. UNCHANGED <<lead, taken>>
    BY <1>7 DEF ReadIntake
  <2>1. ASSUME NEW l \in Leads, lead[l].status \in Active, Begin(c, At("intake_match", l))
        PROVE  CalendarStep
    <3>1. At("intake_match", l).job = l /\ At("intake_match", l).at \in BeforeBooking
      BY DEF At, Idle, BeforeBooking
    <3> QED
      BY <1>0, <2>0, <2>1, <3>1, UnconfirmedRead DEF Active, Unconfirmed
  <2>2. ASSUME NEW l \in Leads, lead[l].status \in Active,
               Begin(c, [At("deal_write", l) EXCEPT !.pick = lead[l].pro])
        PROVE  CalendarStep
    <3> DEFINE h == [At("deal_write", l) EXCEPT !.pick = lead[l].pro]
    <3>1. h.job = l /\ h.at \in BeforeBooking
      BY DEF At, Idle, BeforeBooking
    <3> HIDE DEF h
    <3> QED
      BY <1>0, <2>0, <2>2, <3>1, UnconfirmedRead DEF Active, Unconfirmed, h
  <2>3. CASE Begin(c, At("intake_upsert", NoLead))
    BY <1>0, <2>0, <2>3, LeadlessStep DEF Begin
  <2> QED
    BY <1>7, <2>1, <2>2, <2>3 DEF ReadIntake, Newest, OfChat
<1> QED
  BY <1>1, <1>2, <1>3, <1>4, <1>5, <1>6, <1>7 DEF CustomerReads

-----------------------------------------------------------------------------
(* Later steps *)

\* What is known at a step of a handler that has a lead in hand
LEMMA InHand ==
    ASSUME Calendar, NEW a \in Actors, run[a].at \notin {"idle", "intake_upsert"}
    PROVE  /\ run[a].job \in Leads /\ lead[run[a].job] \in LeadDoc /\ run[a] \in Handler
           /\ StillTrue(run[a], lead[run[a].job])
           /\ NoHourYet(lead[run[a].job])
           /\ lead = [lead EXCEPT ![run[a].job] = lead[run[a].job]]
BY DEF Calendar, WellFormed, TypeOK, ReadsStillTrue, InHandIff, LeadInHand

\* The handler at its next step: only `at` changes.
LEMMA Advanced ==
    ASSUME NEW h \in Handler, NEW st
    PROVE  LET k == [h EXCEPT !.at = st]
           IN  k.at = st /\ k.job = h.job /\ k.ref = h.ref /\ k.claim = h.claim
BY DEF Handler

(* A step before the booking: the lead stays unconfirmed and the handler   *)
(* goes on before the booking, releases the customer, or ends.             *)
LEMMA UnconfirmedStep ==
    ASSUME Calendar, WellFormed', NEW a \in Actors, run[a].at \in BeforeBooking,
           UNCHANGED taken,
           NEW d, lead' = [lead EXCEPT ![run[a].job] = d],
           d.status \in Unconfirmed, d.slot = lead[run[a].job].slot,
           \/ Return(a)
           \/ \E st \in Steps : /\ Goto(a, st)
                                /\ st \in BeforeBooking \cup {"deal_park", "release"}
    PROVE  CalendarStep
<1>1. /\ run[a].at \notin {"idle", "intake_upsert"} \cup Midway
      /\ lead[run[a].job].status \in Unconfirmed
      /\ lead[run[a].job].slot = NoSlot
  BY InHand DEF BeforeBooking, Midway, StillTrue, NoHourYet
<1>2. NoHourYet(d) /\ SameHour(d, run[a].job)
  BY <1>1 DEF NoHourYet, SameHour
<1>3. CASE Return(a)
  BY <1>1, <1>2, <1>3, InHand, ReturnStep
<1>4. ASSUME NEW st \in Steps, Goto(a, st), st \in BeforeBooking \cup {"deal_park", "release"}
      PROVE  CalendarStep
  <2>1. st \notin Midway \cup {"idle", "intake_upsert"}
    BY <1>4 DEF BeforeBooking, Midway
  <2>2. StillTrue([run[a] EXCEPT !.at = st], d)
    <3> DEFINE h == [run[a] EXCEPT !.at = st]
    <3>1. h.at = st
      BY <1>1, InHand, Advanced
    <3> HIDE DEF h
    <3>2. StillTrue(h, d)
      BY <1>4, <3>1 DEF StillTrue, BeforeBooking
    <3> QED
      BY <3>2 DEF h
  <2>3. run[a].job \in Leads /\ {st, run[a].at} \cap Midway = {}
    BY <1>1, <2>1, InHand
  <2> QED
    BY <1>2, <1>4, <2>1, <2>2, <2>3, GotoStep
<1> QED
  BY <1>3, <1>4

LEMMA TakeOverCalendar ==
    ASSUME Calendar, WellFormed', NEW a \in Actors, run[a].at \in BeforeBooking,
           NEW p, TakeOver(run[a].job, p), Return(a), UNCHANGED taken
    PROVE  CalendarStep
<1> DEFINE l == run[a].job
           d == [lead[l] EXCEPT !.status = "new", !.pro = p, !.count = 0,
                                !.exhausted = FALSE, !.offered = FALSE]
<1>1. l \in Leads /\ lead[l] \in LeadDoc
  BY InHand DEF BeforeBooking
<1>2. d.status \in Unconfirmed /\ d.slot = lead[l].slot
  BY <1>1 DEF LeadDoc, Unconfirmed
<1>3. lead' = [lead EXCEPT ![l] = d]
  BY TakeOverWrites
<1> HIDE DEF d
<1> QED
  BY <1>2, <1>3, UnconfirmedStep

LEMMA SetUnconfirmed ==
    ASSUME Calendar, WellFormed', NEW a \in Actors, run[a].at \in BeforeBooking,
           UNCHANGED taken, NEW st \in Unconfirmed, SetStatus(run[a].job, st),
           Return(a) \/ Goto(a, "release")
    PROVE  CalendarStep
<1> DEFINE d == [lead[run[a].job] EXCEPT !.status = st]
<1>1. run[a].job \in Leads /\ lead[run[a].job] \in LeadDoc
  BY InHand DEF BeforeBooking
<1>2. d.status \in Unconfirmed /\ d.slot = lead[run[a].job].slot
  BY <1>1 DEF LeadDoc
<1>3. lead' = [lead EXCEPT ![run[a].job] = d]
  BY <1>1 DEF SetStatus, Calendar, WellFormed, TypeOK
<1>4. "release" \in Steps
  BY DEF Steps
<1> HIDE DEF d
<1> QED
  BY <1>2, <1>3, <1>4, UnconfirmedStep

LEMMA ReassignCalendar ==
    ASSUME Calendar, WellFormed', NEW a \in Actors, ReassignSteps(a)
    PROVE  CalendarStep
<1> DEFINE l == run[a].job
<1>0. /\ run[a].at \in BeforeBooking
      /\ l \in Leads /\ lead[l] \in LeadDoc /\ run[a] \in Handler
      /\ lead[l].status \in Unconfirmed
      /\ lead = [lead EXCEPT ![l] = lead[l]]
      /\ UNCHANGED taken
      /\ {"release", "reassign_give_up"} \subseteq Steps
      /\ "reassign_give_up" \in BeforeBooking
  BY InHand DEF ReassignSteps, ReassignEscalate, ReassignNoLocation, ReassignMatch, ReassignGive,
                ReassignGiveUp, BeforeBooking, StillTrue, Steps
<1>1. CASE ReassignEscalate(a)
  <2>1. CASE lead[l].status = run[a].seen
    <3> DEFINE d == [lead[l] EXCEPT !.status = "pending_admin_review", !.exhausted = TRUE]
    <3>1. d.status \in Unconfirmed /\ d.slot = lead[l].slot
      BY <1>0 DEF LeadDoc, Unconfirmed
    <3>2. lead' = [lead EXCEPT ![l] = d] /\ Goto(a, "release")
      BY <1>1, <2>1, ReassignEscalateWrites DEF ReassignEscalate
    <3> HIDE DEF d
    <3> QED
      BY <1>0, <3>1, <3>2, UnconfirmedStep
  <2>2. CASE lead[l].status # run[a].seen
    <3>1. lead' = [lead EXCEPT ![l] = lead[l]] /\ Return(a)
      BY <1>0, <1>1, <2>2 DEF ReassignEscalate
    <3> QED
      BY <1>0, <3>1, UnconfirmedStep
  <2> QED
    BY <2>1, <2>2
<1>2. CASE ReassignNoLocation(a)
  <2> DEFINE d == [lead[l] EXCEPT !.status = "pending_admin_review", !.exhausted = FALSE]
  <2>1. d.status \in Unconfirmed /\ d.slot = lead[l].slot
    BY <1>0 DEF LeadDoc, Unconfirmed
  <2>2. lead' = [lead EXCEPT ![l] = d] /\ Goto(a, "release")
    BY <1>2, ReassignNoLocationWrites DEF ReassignNoLocation
  <2> HIDE DEF d
  <2> QED
    BY <1>0, <2>1, <2>2, UnconfirmedStep
<1>3. CASE ReassignMatch(a)
  <2>1. lead' = [lead EXCEPT ![l] = lead[l]]
    BY <1>0, <1>3 DEF ReassignMatch
  <2>2. CASE Goto(a, "reassign_give_up")
    BY <1>0, <2>1, <2>2, UnconfirmedStep
  <2>3. ASSUME NEW p \in Pros, run' = [run EXCEPT ![a].at = "reassign_give", ![a].pick = p]
        PROVE  CalendarStep
    <3> DEFINE h == [run[a] EXCEPT !.at = "reassign_give", !.pick = p]
    <3>1. h.at = "reassign_give" /\ h.job = l
      BY <1>0 DEF Handler
    <3>2. run' = [run EXCEPT ![a] = h]
      BY <2>3 DEF Calendar, WellFormed, TypeOK
    <3> HIDE DEF h
    <3>3. InHandIff(h) /\ StillTrue(h, lead[l]) /\ h.at \notin Midway /\ run[a].at \notin Midway
      BY <1>0, <1>3, <3>1, NullsAssumption DEF InHandIff, StillTrue, Midway, ReassignMatch
    <3>4. NoHourYet(lead[l]) /\ SameHour(lead[l], l)
      BY <1>0 DEF SameHour, Calendar
    <3> QED
      BY <1>0, <2>1, <3>1, <3>2, <3>3, <3>4, AloneOnItsJob, QuietStep
  <2> QED
    BY <1>3, <2>2, <2>3 DEF ReassignMatch
<1>4. CASE ReassignGive(a)
  <2> DEFINE d == [lead[l] EXCEPT !.status = "new", !.pro = run[a].pick,
                                  !.count = run[a].count + 1, !.offered = FALSE]
  <2>1. d.status \in Unconfirmed /\ d.slot = lead[l].slot
    BY <1>0 DEF LeadDoc, Unconfirmed
  <2>2. lead' = [lead EXCEPT ![l] = d] /\ Goto(a, "release")
    BY <1>4, ReassignGiveWrites DEF ReassignGive
  <2> HIDE DEF d
  <2> QED
    BY <1>0, <2>1, <2>2, UnconfirmedStep
<1>5. CASE ReassignGiveUp(a)
  BY <1>0, <1>5, SetUnconfirmed DEF ReassignGiveUp, Unconfirmed
<1> QED
  BY <1>1, <1>2, <1>3, <1>4, <1>5 DEF ReassignSteps

\* The pro books the lead, claims an hour and writes it down.
LEMMA ProStepsCalendar ==
    ASSUME Calendar, WellFormed', NEW p \in Pros, ProStep(p)
    PROVE  CalendarStep
<1> DEFINE l == run[p].job
<1>0. /\ p \in Actors
      /\ l \in Leads /\ lead[l] \in LeadDoc /\ run[p] \in Handler
      /\ lead = [lead EXCEPT ![l] = lead[l]] /\ NoHourYet(lead[l])
      /\ StillTrue(run[p], lead[l])
  <2>1. p \in Actors /\ run[p].at \notin {"idle", "intake_upsert"}
    BY DEF Actors, ProStep, ApproveBook, ApproveClaim, ApproveRecord, RejectWrite, SearchWrite
  <2> QED
    BY <2>1, InHand
<1>1. CASE ApproveBook(p)
  <2> DEFINE d == [lead[l] EXCEPT !.status = "booked", !.pro = p]
  <2>0. lead' = [lead EXCEPT ![l] = d]
    BY <1>1, ApproveBookWrites
  <2>1. lead' = [lead EXCEPT ![l] = d] /\ d.status = "booked" /\ d.slot = lead[l].slot
    BY <1>0, <2>0 DEF LeadDoc
  <2>2. d.slot = NoSlot
    BY <1>0, <1>1, <2>1 DEF ApproveBook, StillTrue, BeforeBooking, NoHourYet
  <2> HIDE DEF d
  <2>3. NoHourYet(d) /\ SameHour(d, l) /\ StillTrue([run[p] EXCEPT !.at = "approve_claim"], d)
    BY <1>0, <2>1, <2>2, Advanced DEF NoHourYet, SameHour, StillTrue, BeforeBooking
  <2>4. /\ {"approve_claim", run[p].at} \cap Midway = {}
        /\ "approve_claim" \in Steps \ {"idle", "intake_upsert"}
    BY <1>1 DEF ApproveBook, Midway, Steps
  <2> QED
    BY <1>0, <1>1, <2>1, <2>3, <2>4, GotoStep DEF ApproveBook
<1>2. CASE ApproveClaim(p)
  <2>1. lead[l].slot = NoSlot /\ lead' = [lead EXCEPT ![l] = lead[l]] /\ SameHour(lead[l], l)
    BY <1>0, <1>2 DEF ApproveClaim, StillTrue, SameHour
  <2>2. CASE Goto(p, "release") /\ UNCHANGED taken
    <3>1. StillTrue([run[p] EXCEPT !.at = "release"], lead[l])
      BY <1>0, Advanced DEF StillTrue, BeforeBooking
    <3>2. /\ {"release", run[p].at} \cap Midway = {}
          /\ "release" \in Steps \ {"idle", "intake_upsert"}
      BY <1>2 DEF ApproveClaim, Midway, Steps
    <3> QED
      BY <1>0, <2>1, <2>2, <3>1, <3>2, GotoStep
  <2>3. ASSUME NEW s \in Slots, ~taken[s], taken' = [taken EXCEPT ![s] = TRUE],
               run' = [run EXCEPT ![p].at = "approve_record", ![p].claim = s]
        PROVE  CalendarStep
    <3> DEFINE h == [run[p] EXCEPT !.at = "approve_record", !.claim = s]
    <3>1. h.at = "approve_record" /\ h.job = l /\ h.claim = s
      BY <1>0 DEF Handler
    <3>2. run' = [run EXCEPT ![p] = h]
      BY <1>0, <2>3 DEF Calendar, WellFormed, TypeOK
    <3> HIDE DEF h
    <3>3. InHandIff(h) /\ StillTrue(h, lead[l])
      BY <1>0, <1>2, <3>1, NullsAssumption DEF InHandIff, StillTrue, ApproveClaim, BeforeBooking
    <3>4. \A t \in Slots : HeldIn(lead[l], h, t) <=> (HeldIn(lead[l], run[p], t) \/ t = s)
      BY <1>2, <2>1, <3>1, NullsAssumption DEF HeldIn, ApproveClaim
    <3>5. HeldChange(l, p, lead[l], h)
      BY <2>3, <3>4 DEF HeldChange
    <3> QED
      BY <1>0, <2>1, <3>1, <3>2, <3>3, <3>5, AloneOnItsJob, StepKeepsCalendar
  <2> QED
    BY <1>2, <2>2, <2>3 DEF ApproveClaim
<1>3. CASE ApproveRecord(p)
  <2> DEFINE d == [lead[l] EXCEPT !.slot = run[p].claim]
             h == [run[p] EXCEPT !.at = "release", !.claim = NoSlot]
  <2>1. lead' = [lead EXCEPT ![l] = d] /\ d.status = lead[l].status /\ d.slot = run[p].claim
    BY <1>0, <1>3 DEF ApproveRecord, Calendar, WellFormed, TypeOK, LeadDoc
  <2>2. run' = [run EXCEPT ![p] = h] /\ h.at = "release" /\ h.job = l
    BY <1>0, <1>3 DEF ApproveRecord, Calendar, WellFormed, TypeOK, Handler
  <2>3. lead[l].status = "booked" /\ lead[l].slot = NoSlot /\ run[p].at = "approve_record"
    BY <1>0, <1>3 DEF ApproveRecord, StillTrue
  <2> HIDE DEF d, h
  <2>4. NoHourYet(d) /\ InHandIff(h) /\ StillTrue(h, d)
    BY <1>0, <2>1, <2>2, <2>3, NullsAssumption
    DEF NoHourYet, InHandIff, StillTrue, Unconfirmed, BeforeBooking
  <2>5. \A t \in Slots : HeldIn(d, h, t) <=> HeldIn(lead[l], run[p], t)
    BY <2>1, <2>2, <2>3, NullsAssumption DEF HeldIn
  <2>6. HeldChange(l, p, d, h)
    BY <1>3, <2>5 DEF HeldChange, ApproveRecord
  <2> QED
    BY <1>0, <2>1, <2>2, <2>4, <2>6, AloneOnItsJob, StepKeepsCalendar
<1>4. CASE RejectWrite(p)
  BY <1>0, <1>4, SetUnconfirmed DEF RejectWrite, Unconfirmed, BeforeBooking
<1>5. CASE SearchWrite(p)
  BY <1>0, <1>5, TakeOverCalendar DEF SearchWrite, BeforeBooking
<1> QED
  BY <1>1, <1>2, <1>3, <1>4, <1>5 DEF ProStep

\* A booking ends: the hour is held until it is released, or for good.
LEMMA CloseStepsCalendar ==
    ASSUME Calendar, WellFormed', NEW a \in Actors, CloseStep(a)
    PROVE  CalendarStep
<1> DEFINE l == run[a].job
<1>0. /\ l \in Leads /\ lead[l] \in LeadDoc /\ run[a] \in Handler
      /\ lead = [lead EXCEPT ![l] = lead[l]] /\ NoHourYet(lead[l])
      /\ StillTrue(run[a], lead[l])
  <2>1. run[a].at \notin {"idle", "intake_upsert"}
    BY DEF CloseStep, CancelWrite, CancelFree, FinishWrite, Release
  <2> QED
    BY <2>1, InHand
<1>1. CASE CancelWrite(a)
  <2> DEFINE d == [lead[l] EXCEPT !.status = "cancelled"]
             st == IF run[a].ref = NoSlot THEN "release" ELSE "cancel_free"
             h == [run[a] EXCEPT !.at = st]
  <2>1. lead' = [lead EXCEPT ![l] = d] /\ d.status = "cancelled" /\ d.slot = lead[l].slot
    BY <1>0, <1>1 DEF CancelWrite, SetStatus, Calendar, WellFormed, TypeOK, LeadDoc
  <2>2. /\ lead[l].status = "booked" /\ lead[l].slot = run[a].ref /\ run[a].at = "cancel_write"
        /\ run[a].ref \in Slots \cup {NoSlot}
    BY <1>0, <1>1 DEF CancelWrite, StillTrue, Handler
  <2>3. st \in Steps \ {"idle", "intake_upsert"} /\ Goto(a, st)
    BY <1>1 DEF CancelWrite, Steps
  <2>4. h.at = st /\ h.ref = run[a].ref
    BY <1>0 DEF Handler
  <2> HIDE DEF d, h
  <2>5. NoHourYet(d) /\ StillTrue(h, d)
    BY <2>1, <2>2, <2>4 DEF NoHourYet, StillTrue, Unconfirmed, BeforeBooking
  <2>6. \A t \in Slots : HeldIn(d, h, t) <=> HeldIn(lead[l], run[a], t)
    BY <2>1, <2>2, <2>4, NullsAssumption DEF HeldIn
  <2>7. HeldChange(l, a, d, h)
    BY <1>1, <2>6 DEF HeldChange, CancelWrite
  <2> QED
    BY <1>0, <2>1, <2>3, <2>5, <2>7, GotoStep DEF h
<1>2. CASE CancelFree(a)
  <2> DEFINE h == [run[a] EXCEPT !.at = "release"]
  <2>1. /\ lead[l].status = "cancelled" /\ lead[l].slot = run[a].ref /\ run[a].ref \in Slots
        /\ run[a].at = "cancel_free" /\ "release" \in Steps \ {"idle", "intake_upsert"}
    BY <1>0, <1>2 DEF CancelFree, StillTrue, Steps
  <2>2. h.at = "release"
    BY <1>0 DEF Handler
  <2>3. lead' = [lead EXCEPT ![l] = lead[l]]
    BY <1>0, <1>2 DEF CancelFree
  <2> HIDE DEF h
  <2>4. /\ StillTrue(h, lead[l])
        /\ HeldIn(lead[l], run[a], run[a].ref)
        /\ \A t \in Slots : HeldIn(lead[l], h, t) <=> (HeldIn(lead[l], run[a], t) /\ t # run[a].ref)
    BY <2>1, <2>2 DEF HeldIn, StillTrue, BeforeBooking
  <2>5. HeldChange(l, a, lead[l], h)
    BY <1>2, <2>1, <2>4 DEF HeldChange, CancelFree
  <2> QED
    BY <1>0, <1>2, <2>1, <2>3, <2>4, <2>5, GotoStep DEF CancelFree, h
<1>3. CASE FinishWrite(a)
  <2> DEFINE d == [lead[l] EXCEPT !.status = "completed"]
  <2>1. lead' = [lead EXCEPT ![l] = d] /\ d.status = "completed" /\ d.slot = lead[l].slot
    BY <1>0, <1>3 DEF FinishWrite, SetStatus, Calendar, WellFormed, TypeOK, LeadDoc
  <2> HIDE DEF d
  <2>2. /\ lead[l].status = "booked" /\ run[a].at \notin Midway
        /\ NoHourYet(d) /\ SameHour(d, l)
    BY <1>0, <1>3, <2>1 DEF FinishWrite, StillTrue, Midway, NoHourYet, Unconfirmed, SameHour
  <2> QED
    BY <1>0, <1>3, <2>1, <2>2, ReturnStep DEF FinishWrite
<1>4. CASE Release(a)
  <2>1. SameHour(lead[l], l) /\ run[a].at \notin Midway
    BY <1>4 DEF SameHour, Midway, Release
  <2> QED
    BY <1>0, <1>4, <2>1, ReturnStep DEF Release
<1> QED
  BY <1>1, <1>2, <1>3, <1>4 DEF CloseStep

\* A reschedule claims the new hour, gives up the old one, and writes.
LEMMA RescheduleCalendar ==
    ASSUME Calendar, WellFormed', NEW c \in Customers,
           RescheduleOffer(c) \/ RescheduleClaim(c) \/ RescheduleFree(c) \/ RescheduleWrite(c)
    PROVE  CalendarStep
<1> DEFINE l == run[c].job
<1>0. /\ c \in Actors
      /\ l \in Leads /\ lead[l] \in LeadDoc /\ run[c] \in Handler
      /\ lead = [lead EXCEPT ![l] = lead[l]] /\ NoHourYet(lead[l])
      /\ StillTrue(run[c], lead[l]) /\ SameHour(lead[l], l)
  <2>1. c \in Actors /\ run[c].at \notin {"idle", "intake_upsert"}
    BY DEF Actors, RescheduleOffer, RescheduleClaim, RescheduleFree, RescheduleWrite
  <2> QED
    BY <2>1, InHand DEF SameHour
<1>1. CASE RescheduleOffer(c)
  BY <1>0, <1>1, ReturnStep DEF RescheduleOffer, Midway
<1>2. CASE RescheduleClaim(c)
  <2>1. /\ lead[l].status = "booked" /\ lead[l].slot = run[c].ref
        /\ run[c].claim \in Slots /\ run[c].ref \in Slots \cup {NoSlot}
        /\ run[c].at = "resched_claim"
    BY <1>0, <1>2 DEF RescheduleClaim, StillTrue, Handler
  <2>2. lead' = [lead EXCEPT ![l] = lead[l]]
    BY <1>0, <1>2 DEF RescheduleClaim
  <2>3. CASE taken[run[c].claim]
    BY <1>0, <1>2, <2>1, <2>2, <2>3, ReturnStep DEF RescheduleClaim, Midway
  <2>4. CASE ~taken[run[c].claim]
    <3> DEFINE st == IF run[c].ref = NoSlot THEN "resched_write" ELSE "resched_free"
               h == [run[c] EXCEPT !.at = st]
    <3>1. /\ st \in Steps \ {"idle", "intake_upsert"} /\ Goto(c, st)
          /\ taken' = [taken EXCEPT ![run[c].claim] = TRUE]
      BY <1>2, <2>4 DEF RescheduleClaim, Steps
    <3>2. h.at = st /\ h.ref = run[c].ref /\ h.claim = run[c].claim
      BY <1>0 DEF Handler
    \* the new hour is free and the old one, which the lead holds, is not
    <3>3. run[c].claim # run[c].ref
      <4>1. \A b \in Actors : run[b].job = l => b = c
        BY <1>0, AloneOnItsJob DEF Alone
      <4>2. run[c].ref \in Slots => Holds(l, run[c].ref)
        BY <2>1, <4>1 DEF Holds, Reserves
      <4>3. run[c].ref \in Slots => taken[run[c].ref]
        BY <1>0, <4>2 DEF Calendar, SlotLedger
      <4> QED
        BY <2>1, <2>4, <4>3
    <3> HIDE DEF h
    <3>4. StillTrue(h, lead[l])
      BY <2>1, <3>2, <3>3 DEF StillTrue, BeforeBooking
    <3>5. \A t \in Slots : HeldIn(lead[l], h, t) <=> (HeldIn(lead[l], run[c], t) \/ t = run[c].claim)
      BY <2>1, <3>2, NullsAssumption DEF HeldIn
    <3>6. HeldChange(l, c, lead[l], h)
      BY <2>1, <2>4, <3>1, <3>5 DEF HeldChange
    <3> QED
      BY <1>0, <2>2, <3>1, <3>4, <3>6, GotoStep DEF h
  <2> QED
    BY <2>3, <2>4
<1>3. CASE RescheduleFree(c)
  <2> DEFINE h == [run[c] EXCEPT !.at = "resched_write"]
  <2>1. /\ lead[l].status = "booked" /\ lead[l].slot = run[c].ref /\ run[c].ref \in Slots
        /\ run[c].claim # run[c].ref /\ run[c].claim \in Slots /\ run[c].at = "resched_free"
        /\ "resched_write" \in Steps \ {"idle", "intake_upsert"}
    BY <1>0, <1>3 DEF RescheduleFree, StillTrue, Steps
  <2>2. h.at = "resched_write" /\ h.claim = run[c].claim
    BY <1>0 DEF Handler
  <2>3. lead' = [lead EXCEPT ![l] = lead[l]]
    BY <1>0, <1>3 DEF RescheduleFree
  <2> HIDE DEF h
  <2>4. /\ StillTrue(h, lead[l])
        /\ HeldIn(lead[l], run[c], run[c].ref)
        /\ \A t \in Slots : HeldIn(lead[l], h, t) <=> (HeldIn(lead[l], run[c], t) /\ t # run[c].ref)
    BY <2>1, <2>2 DEF HeldIn, StillTrue, BeforeBooking
  <2>5. HeldChange(l, c, lead[l], h)
    BY <1>3, <2>1, <2>4 DEF HeldChange, RescheduleFree
  <2> QED
    BY <1>0, <1>3, <2>1, <2>3, <2>4, <2>5, GotoStep DEF RescheduleFree, h
<1>4. CASE RescheduleWrite(c)
  <2> DEFINE d == [lead[l] EXCEPT !.slot = run[c].claim]
             h == [run[c] EXCEPT !.at = "release"]
  <2>1. lead' = [lead EXCEPT ![l] = d]
    BY <1>0, <1>4 DEF RescheduleWrite, Calendar, WellFormed, TypeOK
  <2>2. d.status = lead[l].status /\ d.slot = run[c].claim /\ h.at = "release"
    BY <1>0 DEF LeadDoc, Handler
  <2>3. /\ lead[l].status = "booked" /\ run[c].claim \in Slots /\ run[c].at = "resched_write"
        /\ "release" \in Steps \ {"idle", "intake_upsert"}
    BY <1>0, <1>4 DEF RescheduleWrite, StillTrue, Steps
  <2> HIDE DEF d, h
  <2>4. /\ NoHourYet(d) /\ StillTrue(h, d)
        /\ \A t \in Slots : HeldIn(d, h, t) <=> HeldIn(lead[l], run[c], t)
    BY <2>2, <2>3 DEF HeldIn, NoHourYet, Unconfirmed, StillTrue, BeforeBooking
  <2>5. HeldChange(l, c, d, h)
    BY <1>4, <2>4 DEF HeldChange, RescheduleWrite
  <2> QED
    BY <1>0, <1>4, <2>1, <2>3, <2>4, <2>5, GotoStep DEF RescheduleWrite, h
<1> QED
  BY <1>1, <1>2, <1>3, <1>4

\* From the first message to a deal, no lead is confirmed.
LEMMA IntakeCalendar ==
    ASSUME Calendar, WellFormed', NEW c \in Customers,
           \/ IntakeUpsert(c) \/ IntakeMatch(c) \/ IntakeEscalate(c) \/ IntakeAssign(c)
           \/ DealWrite(c) \/ DealPark(c) \/ KeepWaiting(c)
    PROVE  CalendarStep
<1> DEFINE l == run[c].job
<1>0. /\ c \in Actors /\ UNCHANGED taken
      /\ {"deal_write", "deal_park", "intake_escalate", "intake_match"} \subseteq Steps
      /\ {"deal_write", "intake_escalate"} \subseteq BeforeBooking
  BY DEF Actors, Steps, BeforeBooking, IntakeUpsert, IntakeMatch, IntakeEscalate, IntakeAssign,
         DealWrite, DealPark, KeepWaiting
<1>1. CASE IntakeUpsert(c)
  <2>1. PICK m \in Leads :
          /\ MayTake(c, m)
          /\ lead[m].status \in {"absent", "contacted"}
          /\ UNCHANGED lead \/ SetStatus(m, "contacted")
          /\ run' = [run EXCEPT ![c].at = "intake_match", ![c].job = m]
    BY <1>1 DEF IntakeUpsert, OfChat
  <2>2. \A b \in Actors : run[b].job # m
    BY <2>1, NullsAssumption DEF MayTake, Calendar, Isolated
  <2>3. run[c] \in Handler /\ lead[m] \in LeadDoc /\ run[c].at = "intake_upsert" /\ run[c].job = NoLead
    BY <1>0, <1>1 DEF IntakeUpsert, Calendar, WellFormed, TypeOK, ReadsStillTrue, InHandIff
  <2> DEFINE h == [run[c] EXCEPT !.at = "intake_match", !.job = m]
  <2>4. run' = [run EXCEPT ![c] = h] /\ h.at = "intake_match" /\ h.job = m
    BY <1>0, <2>1, <2>3 DEF Calendar, WellFormed, TypeOK, Handler
  <2>5. PICK d \in {lead[m], [lead[m] EXCEPT !.status = "contacted"]} : lead' = [lead EXCEPT ![m] = d]
    BY <2>1 DEF SetStatus, Calendar, WellFormed, TypeOK
  <2>6. d.slot = lead[m].slot /\ d.status \in Unconfirmed /\ lead[m].slot = NoSlot
    BY <2>1, <2>3 DEF LeadDoc, Unconfirmed, Calendar, NoHourYet
  <2> HIDE DEF h
  <2>7. /\ NoHourYet(d) /\ SameHour(d, m) /\ InHandIff(h) /\ StillTrue(h, d)
        /\ h.at \notin Midway /\ run[c].at \notin Midway
    BY <2>3, <2>4, <2>6, NullsAssumption
    DEF NoHourYet, SameHour, InHandIff, StillTrue, BeforeBooking, Midway
  <2> QED
    BY <1>0, <2>2, <2>3, <2>4, <2>5, <2>7, QuietStep DEF Alone
<1>2. ASSUME run[c].at \in BeforeBooking
      PROVE  /\ l \in Leads /\ lead[l] \in LeadDoc /\ run[c] \in Handler
             /\ lead[l].status \in Unconfirmed
             /\ lead = [lead EXCEPT ![l] = lead[l]]
  BY <1>0, <1>2, InHand DEF BeforeBooking, StillTrue
<1>3. CASE IntakeMatch(c)
  <2>0. run[c].at \in BeforeBooking
    BY <1>3 DEF IntakeMatch, BeforeBooking
  <2>1. lead' = [lead EXCEPT ![l] = lead[l]]
    BY <1>2, <1>3, <2>0 DEF IntakeMatch
  <2>2. CASE Return(c) \/ Goto(c, "intake_escalate")
    BY <1>0, <1>2, <2>0, <2>1, <2>2, UnconfirmedStep
  <2>3. ASSUME NEW p \in Pros, run' = [run EXCEPT ![c].at = "intake_assign", ![c].pick = p]
        PROVE  CalendarStep
    <3> DEFINE h == [run[c] EXCEPT !.at = "intake_assign", !.pick = p]
    <3>1. h.at = "intake_assign" /\ h.job = l /\ run' = [run EXCEPT ![c] = h]
      BY <1>0, <1>2, <2>0, <2>3 DEF Calendar, WellFormed, TypeOK, Handler
    <3> HIDE DEF h
    <3>2. /\ InHandIff(h) /\ StillTrue(h, lead[l]) /\ h.at \notin Midway /\ run[c].at \notin Midway
          /\ NoHourYet(lead[l]) /\ SameHour(lead[l], l)
      BY <1>2, <1>3, <2>0, <3>1, NullsAssumption
      DEF InHandIff, StillTrue, Midway, IntakeMatch, Calendar, SameHour
    <3> QED
      BY <1>0, <1>2, <2>0, <2>1, <3>1, <3>2, AloneOnItsJob, QuietStep
  <2> QED
    BY <1>3, <2>2, <2>3 DEF IntakeMatch
<1>4. CASE IntakeEscalate(c)
  BY <1>0, <1>4, SetUnconfirmed DEF IntakeEscalate, Unconfirmed, BeforeBooking
<1>5. CASE IntakeAssign(c)
  <2> DEFINE d == [lead[l] EXCEPT !.pro = run[c].pick]
  <2>0. run[c].at \in BeforeBooking
    BY <1>5 DEF IntakeAssign, BeforeBooking
  <2>1. lead' = [lead EXCEPT ![l] = d]
    BY <1>2, <1>5, <2>0 DEF IntakeAssign, Calendar, WellFormed, TypeOK
  <2>2. d.status \in Unconfirmed /\ d.slot = lead[l].slot
    BY <1>2, <2>0 DEF LeadDoc
  <2> HIDE DEF d
  <2> QED
    BY <1>0, <1>5, <2>0, <2>1, <2>2, UnconfirmedStep DEF IntakeAssign
<1>6. CASE DealWrite(c)
  <2> DEFINE d == [lead[l] EXCEPT !.status = "new", !.pro = run[c].pick, !.offered = FALSE]
  <2>0. run[c].at \in BeforeBooking
    BY <1>6 DEF DealWrite, BeforeBooking
  <2>1. lead' = [lead EXCEPT ![l] = d]
    BY <1>6, DealWriteWrites
  <2>2. d.status \in Unconfirmed /\ d.slot = lead[l].slot
    BY <1>2, <2>0 DEF LeadDoc, Unconfirmed
  <2> HIDE DEF d
  <2> QED
    BY <1>0, <1>6, <2>0, <2>1, <2>2, UnconfirmedStep DEF DealWrite
<1>7. CASE DealPark(c)
  <2>1. /\ l \in Leads /\ NoHourYet(lead[l]) /\ run[c].at \notin Midway
        /\ lead' = [lead EXCEPT ![l] = lead[l]] /\ SameHour(lead[l], l)
    BY <1>0, <1>7, InHand DEF DealPark, Midway, SameHour
  <2> QED
    BY <1>0, <1>7, <2>1, ReturnStep DEF DealPark
<1>8. CASE KeepWaiting(c)
  <2> DEFINE d == [lead[l] EXCEPT !.offered = FALSE]
  <2>0. run[c].at \in BeforeBooking
    BY <1>8 DEF KeepWaiting, BeforeBooking
  <2>1. lead' = [lead EXCEPT ![l] = d]
    BY <1>2, <1>8, <2>0 DEF KeepWaiting, Calendar, WellFormed, TypeOK
  <2>2. d.status \in Unconfirmed /\ d.slot = lead[l].slot
    BY <1>2, <2>0 DEF LeadDoc
  <2> HIDE DEF d
  <2> QED
    BY <1>0, <1>8, <2>0, <2>1, <2>2, UnconfirmedStep DEF KeepWaiting
<1> QED
  BY <1>1, <1>3, <1>4, <1>5, <1>6, <1>7, <1>8

\* The sweeps, the wizard, expiry; a handler never dies here.
LEMMA OtherCalendar ==
    ASSUME Calendar, WellFormed',
           \/ \E l \in Leads : ReadStale(l) \/ ReadUnoffered(l) \/ ReadWizardLead(l)
           \/ OfferClaim \/ WizardLeave
           \/ \E p \in Pros : WizardAssign(p)
           \/ \E a \in Actors : Crash(a)
           \/ \E c \in Customers : RescheduleLeave(c) \/ StateExpires(c)
    PROVE  CalendarStep
<1>0. Healer \in Actors /\ Sla \in Actors /\ Admin \in Actors
  BY DEF Actors
<1>1. ASSUME NEW l \in Leads, ReadStale(l) PROVE CalendarStep
  BY <1>0, <1>1, ReassignRead DEF ReadStale
<1>2. ASSUME NEW l \in Leads, ReadUnoffered(l) PROVE CalendarStep
  <2>1. At("offer_claim", l).job = l /\ At("offer_claim", l).at \in BeforeBooking
    BY DEF At, Idle, BeforeBooking
  <2> QED
    BY <1>0, <1>2, <2>1, UnconfirmedRead DEF ReadUnoffered, Unconfirmed
<1>3. ASSUME NEW l \in Leads, ReadWizardLead(l) PROVE CalendarStep
  <2>1. At("wizard_assign", l).job = l /\ At("wizard_assign", l).at \in BeforeBooking
    BY DEF At, Idle, BeforeBooking
  <2> QED
    BY <1>0, <1>3, <2>1, UnconfirmedRead DEF ReadWizardLead, Unconfirmed
<1>4. CASE OfferClaim
  <2> DEFINE l == run[Sla].job
             d == [lead[l] EXCEPT !.offered = TRUE]
  <2>1. /\ l \in Leads /\ lead[l] \in LeadDoc /\ run[Sla].at \in BeforeBooking
        /\ lead[l].status \in Unconfirmed
        /\ lead = [lead EXCEPT ![l] = lead[l]]
    BY <1>0, <1>4, InHand DEF OfferClaim, BeforeBooking, StillTrue
  <2>2. d.status \in Unconfirmed /\ d.slot = lead[l].slot
    BY <2>1 DEF LeadDoc
  <2>3. lead' = [lead EXCEPT ![l] = d] \/ lead' = [lead EXCEPT ![l] = lead[l]]
    BY <1>4, <2>1 DEF OfferClaim, Calendar, WellFormed, TypeOK
  <2> HIDE DEF d
  <2> QED
    BY <1>0, <1>4, <2>1, <2>2, <2>3, UnconfirmedStep DEF OfferClaim
<1>5. CASE WizardLeave
  <2>1. /\ run[Admin].job \in Leads /\ run[Admin].at \in BeforeBooking
        /\ lead[run[Admin].job].status \in Unconfirmed
        /\ lead' = [lead EXCEPT ![run[Admin].job] = lead[run[Admin].job]]
    BY <1>0, <1>5, InHand DEF WizardLeave, BeforeBooking, StillTrue
  <2> QED
    BY <1>0, <1>5, <2>1, UnconfirmedStep DEF WizardLeave
<1>6. ASSUME NEW p \in Pros, WizardAssign(p) PROVE CalendarStep
  BY <1>0, <1>6, TakeOverCalendar DEF WizardAssign, BeforeBooking
<1>7. ASSUME NEW a \in Actors, Crash(a) PROVE CalendarStep
  BY <1>7 DEF Crash, Calendar, Isolated, WellFormed, TypeOK
<1>8. ASSUME NEW c \in Customers, RescheduleLeave(c) \/ StateExpires(c) PROVE CalendarStep
  BY <1>8, LeadlessStep DEF RescheduleLeave, StateExpires
<1> QED
  BY <1>1, <1>2, <1>3, <1>4, <1>5, <1>6, <1>7, <1>8

LEMMA NextCalendar == Calendar /\ [Next]_vars => CalendarStep
<1> SUFFICES ASSUME Calendar, [Next]_vars PROVE CalendarStep
  OBVIOUS
<1>0. WellFormed'
  BY NextKeeps DEF Calendar
<1>1. CASE UNCHANGED vars
  BY <1>0, <1>1, LeadlessStep DEF vars
<1>2. CASE Next
  BY <1>0, <1>2, ProReadsCalendar, CustomerReadsCalendar, ProStepsCalendar, CloseStepsCalendar,
     ReassignCalendar, RescheduleCalendar, IntakeCalendar, OtherCalendar
  DEF Next, CustomerStep
<1> QED
  BY <1>1, <1>2

LEMMA InitCalendar == Isolated /\ Init => Calendar
<1> SUFFICES ASSUME Isolated, Init PROVE Calendar
  OBVIOUS
<1>1. WellFormed
  BY InitWellFormed
<1>2. Exclusive /\ ReadsStillTrue
  BY DEF Init, Idle, Exclusive, ReadsStillTrue, InHandIff
<1>3. \A l \in Leads : NoHourYet(lead[l])
  BY DEF Init, NoHourYet
<1>4. \A l \in Leads, s \in Slots : ~Holds(l, s)
  BY NullsAssumption DEF Init, Idle, Holds, Reserves, Claiming
<1>5. NoDoubleBooking /\ SlotLedger
  BY <1>4 DEF Init, NoDoubleBooking, SlotLedger
<1> QED
  BY <1>1, <1>2, <1>3, <1>5 DEF Calendar

LEMMA AlwaysCalendar == Isolated /\ Spec => []Calendar
<1>1. Calendar /\ [Next]_vars => Calendar'
  BY NextCalendar DEF CalendarStep
<1> QED
  BY <1>1, InitCalendar, PTL DEF Spec

(* approve, cancel, reschedule, reassign, take over, in any order and for  *)
(* any number of jobs: no hour of a pro's calendar is promised to two      *)
(* jobs, while no two handlers work on one lead and none dies.             *)
THEOREM CalendarIsExclusive == Isolated /\ Spec => []NoDoubleBooking
<1>1. Calendar => NoDoubleBooking
  BY DEF Calendar
<1> QED
  BY <1>1, AlwaysCalendar, PTL

(* Under the same conditions is_taken of slots_collection says exactly     *)
(* that some job holds the hour: none is offered twice, none leaks.        *)
THEOREM CalendarIsExact == Isolated /\ Spec => []SlotLedger
<1>1. Calendar => SlotLedger
  BY DEF Calendar
<1> QED
  BY <1>1, AlwaysCalendar, PTL

(* Under the same conditions the handlers implement SlotBook: each of      *)
(* their steps reserves one free hour, releases one reserved hour, or      *)
(* leaves the calendar alone.                                              *)
THEOREM ImplementsSlotBook == Isolated /\ Spec => BookSpec
<1>1. Init => Book!Init
  <2> SUFFICES ASSUME Init PROVE Book!Init
    OBVIOUS
  <2>1. \A l \in Leads, s \in Slots : ~Holds(l, s)
    BY NullsAssumption DEF Init, Idle, Holds, Reserves, Claiming
  <2>2. \A s \in Slots : Holder[s] = NoLead
    BY <2>1, NoHolder
  <2>3. Holder = [s \in Slots |-> NoLead]
    BY <2>2, HolderIsFunction
  <2> QED
    BY <2>3 DEF Init, Book!Init
<1>2. Calendar /\ [Next]_vars => [Book!Next]_<<Holder, taken>>
  BY NextCalendar DEF CalendarStep
<1> QED
  BY <1>1, <1>2, AlwaysCalendar, PTL DEF Spec, BookSpec, Book!Spec

=============================================================================
