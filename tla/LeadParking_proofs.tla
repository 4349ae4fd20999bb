--------------------------- MODULE LeadParking_proofs ---------------------------
(***************************************************************************)
(* A customer who is told to wait for a pro has a lead that a pro can      *)
(* answer, for every set of customers, pros, leads and slots, when no two  *)
(* handlers work on one lead at the same time and no handler dies half     *)
(* way.  Without either condition TLC finds a customer who waits for       *)
(* nothing.                                                                *)
(***************************************************************************)
EXTENDS LeadCalendar_proofs

-----------------------------------------------------------------------------
(* The invariant *)

\* The steps of the conversation that may end in a deal
Talking == {"intake_upsert", "intake_match", "intake_assign", "intake_escalate",
            "deal_write", "deal_park"}

\* The steps of a handler that ends in the release of the customer
Releasing == {"approve_claim", "approve_record", "release"}

(* Who talks is not parked, and is about to be parked for a NEW lead.      *)
TalkersAreFree ==
    \A a \in Actors : run[a].at \in Talking =>
      /\ a \in Customers /\ chat[a] # "awaiting_pro_approval"
      /\ run[a].at # "intake_upsert" => lead[run[a].job].chat = a
      /\ run[a].at = "deal_park" => lead[run[a].job].status = "new"

\* A lead that a pro can answer, or whose customer is about to be released
Open(l) == \/ lead[l].status = "new"
           \/ \E a \in Actors : run[a].job = l /\ run[a].at \in Releasing

Parking == Calendar /\ TalkersAreFree /\ ParkedCustomerHasOpenLead

\* ParkedCustomerHasOpenLead, by way of Open
ParkedHaveOpen ==
    \A c \in Customers : chat[c] = "awaiting_pro_approval" =>
      \E l \in Leads : lead[l].chat = c /\ Open(l)

LEMMA ParkedIs == ParkedCustomerHasOpenLead <=> ParkedHaveOpen
BY DEF ParkedCustomerHasOpenLead, ParkedHaveOpen, Open, Releasing

LEMMA ParkedWillBe == ParkedCustomerHasOpenLead' <=> ParkedHaveOpen'
BY DEF ParkedCustomerHasOpenLead, ParkedHaveOpen, Open, Releasing

-----------------------------------------------------------------------------
(* Steps in general *)

\* Nobody is parked by the step.
NobodyParked ==
    \A c \in Customers : chat'[c] = "awaiting_pro_approval" => chat[c] = "awaiting_pro_approval"

\* A handler that is past its first read when it talks on, and has closed the deal when
\* it parks the customer
TalksOn(a, l, st, d) ==
    /\ st \in Talking => run[a].at \in Talking /\ {st, run[a].at} \cap {"intake_upsert"} = {}
    /\ st = "deal_park" => d.status = "new"

\* A lead that was open stays open, or its customer is not parked.
StaysOpen(a, l, st, d) ==
    /\ chat'[lead[l].chat] = "awaiting_pro_approval"
    /\ lead[l].status = "new" \/ run[a].at \in Releasing
    => d.status = "new" \/ st \in Releasing

\* A handler goes on, or ends, on its lead: nobody is parked by it, and a lead that
\* was open stays open or its customer is not parked.
LEMMA LeadStep ==
    ASSUME Parking, Calendar', NEW a \in Actors, NEW l \in Leads, run[a].job = l,
           NEW h, run' = [run EXCEPT ![a] = h], h.job = l \/ h.at = "idle",
           NEW d, lead' = [lead EXCEPT ![l] = d], d.chat = lead[l].chat,
           NobodyParked, TalksOn(a, l, h.at, d), StaysOpen(a, l, h.at, d)
    PROVE  Parking'
<1>1. /\ \A b \in Actors : run'[b] = IF b = a THEN h ELSE run[b]
      /\ \A m \in Leads : lead'[m] = IF m = l THEN d ELSE lead[m]
  BY DEF Parking, Calendar, WellFormed, TypeOK
<1>2. \A b \in Actors \ {a} : run[b].job # l
  BY AloneOnItsJob DEF Parking, Alone
<1>3. \A b \in Actors : run[b].at \in Talking \ {"intake_upsert"} => run[b].job \in Leads
  BY DEF Parking, Calendar, WellFormed, LeadInHand, Talking
<1>4. TalkersAreFree'
  <2> SUFFICES ASSUME NEW b \in Actors, run'[b].at \in Talking
               PROVE  /\ b \in Customers /\ chat'[b] # "awaiting_pro_approval"
                      /\ run'[b].at # "intake_upsert" => lead'[run'[b].job].chat = b
                      /\ run'[b].at = "deal_park" => lead'[run'[b].job].status = "new"
    BY DEF TalkersAreFree
  <2>1. CASE b = a
    <3>1. run'[a] = h /\ h.at \in Talking /\ h.job = l
      BY <1>1, <2>1 DEF Talking
    <3>2. /\ run[a].at \in Talking /\ h.at # "intake_upsert" /\ run[a].at # "intake_upsert"
          /\ h.at = "deal_park" => d.status = "new"
      BY <3>1 DEF TalksOn
    <3>3. a \in Customers /\ chat[a] # "awaiting_pro_approval" /\ lead[l].chat = a
      BY <3>2 DEF Parking, TalkersAreFree
    <3>4. lead'[l] = d
      BY <1>1
    <3> QED
      BY <2>1, <3>1, <3>2, <3>3, <3>4 DEF NobodyParked
  <2>2. CASE b # a
    BY <1>1, <1>2, <1>3, <2>2 DEF Parking, TalkersAreFree, NobodyParked
  <2> QED
    BY <2>1, <2>2
<1>5. ParkedHaveOpen'
  <2> SUFFICES ASSUME NEW c \in Customers, chat'[c] = "awaiting_pro_approval"
               PROVE  \E m \in Leads : lead'[m].chat = c /\ Open(m)'
    BY DEF ParkedHaveOpen
  <2>1. PICK m \in Leads : lead[m].chat = c /\ Open(m)
    BY ParkedIs DEF Parking, ParkedHaveOpen, NobodyParked
  <2>2. CASE m = l
    <3>1. lead[l].status = "new" \/ run[a].at \in Releasing
      BY <1>2, <2>1, <2>2 DEF Open
    <3>2. d.status = "new" \/ h.at \in Releasing
      BY <2>1, <2>2, <3>1 DEF StaysOpen
    <3>3. h.at \in Releasing => h.job = l
      BY DEF Releasing
    <3>4. Open(l)'
      BY <1>1, <3>2, <3>3 DEF Open
    <3> QED
      BY <1>1, <2>1, <2>2, <3>4
  <2>3. CASE m # l
    <3>1. Open(m)'
      BY <1>1, <2>1, <2>3 DEF Open
    <3> QED
      BY <1>1, <2>1, <2>3, <3>1
  <2> QED
    BY <2>2, <2>3
<1> QED
  BY <1>4, <1>5, ParkedWillBe DEF Parking

\* A handler that holds no open lead goes on, begins or ends, and nothing else changes.
LEMMA HandlerStep ==
    ASSUME Parking, Calendar', NEW a \in Actors, NEW h, run' = [run EXCEPT ![a] = h],
           UNCHANGED lead,
           NobodyParked,
           run[a].at \notin Releasing,
           h.at \in Talking =>
             /\ a \in Customers /\ chat[a] # "awaiting_pro_approval"
             /\ h.at # "deal_park"
             /\ h.at # "intake_upsert" => lead[h.job].chat = a
    PROVE  Parking'
<1>1. \A b \in Actors : run'[b] = IF b = a THEN h ELSE run[b]
  BY DEF Parking, Calendar, WellFormed, TypeOK
<1>2. TalkersAreFree'
  <2> SUFFICES ASSUME NEW b \in Actors, run'[b].at \in Talking
               PROVE  /\ b \in Customers /\ chat'[b] # "awaiting_pro_approval"
                      /\ run'[b].at # "intake_upsert" => lead'[run'[b].job].chat = b
                      /\ run'[b].at = "deal_park" => lead'[run'[b].job].status = "new"
    BY DEF TalkersAreFree
  <2>1. CASE b = a
    BY <1>1, <2>1 DEF NobodyParked
  <2>2. CASE b # a
    BY <1>1, <2>2 DEF Parking, TalkersAreFree, NobodyParked
  <2> QED
    BY <2>1, <2>2
<1>3. ParkedHaveOpen'
  <2> SUFFICES ASSUME NEW c \in Customers, chat'[c] = "awaiting_pro_approval"
               PROVE  \E m \in Leads : lead'[m].chat = c /\ Open(m)'
    BY DEF ParkedHaveOpen
  <2>1. PICK m \in Leads : lead[m].chat = c /\ Open(m)
    BY ParkedIs DEF Parking, ParkedHaveOpen, NobodyParked
  <2>2. Open(m)'
    BY <1>1, <2>1 DEF Open
  <2> QED
    BY <2>1, <2>2
<1> QED
  BY <1>2, <1>3, ParkedWillBe DEF Parking

\* A first read of a handler that does not talk to the customer
LEMMA SilentRead ==
    ASSUME Parking, Calendar', NEW a \in Actors, NEW h, Begin(a, h),
           UNCHANGED <<lead, chat>>, h.at \notin Talking
    PROVE  Parking'
<1>1. run' = [run EXCEPT ![a] = h] /\ run[a].at \notin Releasing /\ UNCHANGED lead
  BY DEF Begin, Idle, Releasing
<1>2. NobodyParked
  BY DEF NobodyParked
<1> QED
  BY <1>1, <1>2, HandlerStep

LEMMA AtIs == ASSUME NEW st, NEW l
              PROVE  At(st, l).at = st /\ At(st, l).job = l
BY DEF At, Idle

\* Nothing happens to the leads or the handlers, and nobody is parked.
LEMMA Standstill ==
    ASSUME Parking, Calendar', UNCHANGED <<lead, run>>, NobodyParked
    PROVE  Parking'
<1>1. TalkersAreFree'
  BY DEF Parking, TalkersAreFree, NobodyParked
<1>2. ParkedHaveOpen'
  BY ParkedIs DEF Parking, ParkedHaveOpen, Open, NobodyParked
<1> QED
  BY <1>1, <1>2, ParkedWillBe DEF Parking

-----------------------------------------------------------------------------
(* First reads *)

LEMMA ReadsPark ==
    ASSUME Parking, Calendar',
           \/ \E p \in Pros : ProReads(p)
           \/ \E c \in Customers : CustomerReads(c)
           \/ \E l \in Leads : ReadStale(l) \/ ReadUnoffered(l) \/ ReadWizardLead(l)
    PROVE  Parking'
<1>1. ASSUME NEW a \in Actors, NEW l, NEW st,
             Begin(a, At(st, l)), UNCHANGED <<lead, chat>>, st \notin Talking
      PROVE  Parking'
  BY <1>1, AtIs, SilentRead
<1>2. ASSUME NEW a \in Actors, NEW l, NEW s,
             Begin(a, [At("cancel_write", l) EXCEPT !.ref = s]), UNCHANGED <<lead, chat>>
      PROVE  Parking'
  <2> DEFINE h == [At("cancel_write", l) EXCEPT !.ref = s]
  <2>1. h.at = "cancel_write"
    BY DEF At, Idle
  <2> HIDE DEF h
  <2> QED
    BY <1>2, <2>1, SilentRead DEF h, Talking
<1>3. ASSUME NEW a \in Actors, NEW l, BeginReassign(a, l)
      PROVE  Parking'
  <2>1. PICK st \in ReassignStep(l) :
          Begin(a, [At(st, l) EXCEPT !.seen = lead[l].status, !.count = lead[l].count,
                                     !.from = lead[l].pro])
    BY <1>3 DEF BeginReassign
  <2> DEFINE h == [At(st, l) EXCEPT !.seen = lead[l].status, !.count = lead[l].count,
                                    !.from = lead[l].pro]
  <2>2. st \in {"reassign_escalate", "reassign_no_location", "reassign_match"}
    BY DEF ReassignStep
  <2>3. h.at = st
    BY DEF At, Idle
  <2>4. UNCHANGED <<lead, chat>>
    BY <1>3 DEF BeginReassign
  <2> HIDE DEF h
  <2> QED
    BY <2>1, <2>2, <2>3, <2>4, SilentRead DEF h, Talking
<1>4. ASSUME NEW p \in Pros, ProReads(p) PROVE Parking'
  <2>1. p \in Actors
    BY DEF Actors
  <2> QED
    BY <1>1, <1>2, <1>4, <2>1
    DEF ProReads, ReadApprove, ReadReject, ReadFinish, ReadProCancel, ReadSearch, Talking
<1>5. ASSUME NEW c \in Customers, CustomerReads(c) PROVE Parking'
  <2>0. c \in Actors
    BY DEF Actors
  <2>1. CASE ReadCustomerCancel(c)
    BY <1>2, <2>0, <2>1 DEF ReadCustomerCancel
  <2>2. CASE ReadCustomerCompletion(c) \/ ReadOfferDeclined(c)
    BY <1>1, <2>0, <2>2 DEF ReadCustomerCompletion, ReadOfferDeclined, Talking
  <2>3. CASE ReadOfferAccepted(c)
    BY <1>3, <2>0, <2>3 DEF ReadOfferAccepted
  <2>4. CASE ReadReschedule(c)
    <3>1. PICK l : Begin(c, [At("resched_offer", l) EXCEPT !.from = lead[l].pro])
      BY <2>4 DEF ReadReschedule
    <3> DEFINE h == [At("resched_offer", l) EXCEPT !.from = lead[l].pro]
    <3>2. h.at = "resched_offer"
      BY DEF At, Idle
    <3>3. UNCHANGED <<lead, chat>>
      BY <2>4 DEF ReadReschedule
    <3> HIDE DEF h
    <3> QED
      BY <2>0, <3>1, <3>2, <3>3, SilentRead DEF h, Talking
  <2>5. CASE ReadReschedulePick(c)
    <3>1. PICK l, s : Begin(c, [At("resched_claim", l) EXCEPT !.ref = lead[l].slot, !.claim = s])
      BY <2>5 DEF ReadReschedulePick
    <3> DEFINE h == [At("resched_claim", l) EXCEPT !.ref = lead[l].slot, !.claim = s]
    <3>2. h.at = "resched_claim"
      BY DEF At, Idle
    <3>3. UNCHANGED <<lead, chat>>
      BY <2>5 DEF ReadReschedulePick
    <3> HIDE DEF h
    <3> QED
      BY <2>0, <3>1, <3>2, <3>3, SilentRead DEF h, Talking
  <2>6. CASE ReadIntake(c)
    <3>0. UNCHANGED <<lead, chat>> /\ chat[c] # "awaiting_pro_approval"
      BY <2>6 DEF ReadIntake
    <3>1. ASSUME NEW h, Begin(c, h),
                 \/ h.at = "intake_upsert"
                 \/ h.at \in {"intake_match", "deal_write"} /\ lead[h.job].chat = c
          PROVE  Parking'
      <4>1. run' = [run EXCEPT ![c] = h] /\ run[c].at \notin Releasing
        BY <3>1 DEF Begin, Idle, Releasing
      <4>2. h.at # "deal_park" /\ NobodyParked /\ UNCHANGED lead
        BY <3>0, <3>1 DEF NobodyParked
      <4> QED
        BY <2>0, <3>0, <3>1, <4>1, <4>2, HandlerStep
    <3>2. ASSUME NEW l \in Leads, lead[l].chat = c, Begin(c, At("intake_match", l))
          PROVE  Parking'
      BY <3>1, <3>2, AtIs
    <3>3. ASSUME NEW l \in Leads, lead[l].chat = c,
                 Begin(c, [At("deal_write", l) EXCEPT !.pick = lead[l].pro])
          PROVE  Parking'
      <4> DEFINE h == [At("deal_write", l) EXCEPT !.pick = lead[l].pro]
      <4>1. h.at = "deal_write" /\ h.job = l
        BY DEF At, Idle
      <4> HIDE DEF h
      <4> QED
        BY <3>1, <3>3, <4>1 DEF h
    <3>4. CASE Begin(c, At("intake_upsert", NoLead))
      BY <3>1, <3>4, AtIs
    <3> QED
      BY <2>6, <3>2, <3>3, <3>4 DEF ReadIntake, Newest, OfChat
  <2> QED
    BY <1>5, <2>1, <2>2, <2>3, <2>4, <2>5, <2>6 DEF CustomerReads
<1>6. ASSUME NEW l \in Leads, ReadStale(l) \/ ReadUnoffered(l) \/ ReadWizardLead(l)
      PROVE  Parking'
  <2>1. Healer \in Actors /\ Sla \in Actors /\ Admin \in Actors
    BY DEF Actors
  <2> QED
    BY <1>1, <1>3, <1>6, <2>1 DEF ReadStale, ReadUnoffered, ReadWizardLead, Talking
<1> QED
  BY <1>4, <1>5, <1>6

-----------------------------------------------------------------------------
(* Later steps *)

\* A handler with a lead in hand moves on to st, or ends (st = "idle").
LEMMA MoveOn ==
    ASSUME Parking, Calendar', NEW a \in Actors,
           run[a].at \notin {"idle", "intake_upsert"},
           NEW st, Goto(a, st) \/ (st = "idle" /\ Return(a)),
           NEW d, lead' = [lead EXCEPT ![run[a].job] = d], d.chat = lead[run[a].job].chat,
           NobodyParked, TalksOn(a, run[a].job, st, d), StaysOpen(a, run[a].job, st, d)
    PROVE  Parking'
<1> DEFINE l == run[a].job
<1>1. l \in Leads /\ run[a] \in Handler /\ run[a].job = l
  BY InHand DEF Parking
<1>2. CASE Return(a) /\ st = "idle"
  <2>1. Idle.at = st /\ run' = [run EXCEPT ![a] = Idle]
    BY <1>2 DEF Idle, Return
  <2>2. Idle.job = l \/ Idle.at = "idle"
    BY <1>2, <2>1
  <2>3. TalksOn(a, l, Idle.at, d) /\ StaysOpen(a, l, Idle.at, d)
    BY <2>1
  <2> QED
    BY <1>1, <2>1, <2>2, <2>3, LeadStep
<1>3. CASE Goto(a, st)
  <2> DEFINE k == [run[a] EXCEPT !.at = st]
  <2>1. k.at = st /\ k.job = l
    BY <1>1, Advanced
  <2>2. run' = [run EXCEPT ![a] = k]
    BY <1>3 DEF Goto, Parking, Calendar, WellFormed, TypeOK
  <2> HIDE DEF k
  <2>3. TalksOn(a, l, k.at, d) /\ StaysOpen(a, l, k.at, d)
    BY <2>1
  <2> QED
    BY <1>1, <2>1, <2>2, <2>3, LeadStep
<1> QED
  BY <1>2, <1>3

\* The same, when the step leaves the documents alone
LEMMA MoveOnly ==
    ASSUME Parking, Calendar', NEW a \in Actors,
           run[a].at \notin {"idle", "intake_upsert"},
           NEW st, Goto(a, st) \/ (st = "idle" /\ Return(a)), UNCHANGED lead,
           NobodyParked,
           st \in Talking => run[a].at \in Talking /\ st # "intake_upsert",
           st # "deal_park",
           run[a].at \in Releasing => st \in Releasing
    PROVE  Parking'
<1> DEFINE d == lead[run[a].job]
<1>1. lead' = [lead EXCEPT ![run[a].job] = d]
  BY InHand DEF Parking
<1>2. TalksOn(a, run[a].job, st, d) /\ StaysOpen(a, run[a].job, st, d)
  BY DEF TalksOn, StaysOpen
<1>3. d.chat = lead[run[a].job].chat
  OBVIOUS
<1> HIDE DEF d
<1> QED
  BY <1>1, <1>2, <1>3, MoveOn

\* The same, for a handler that does not talk to the customer and leaves their state alone
LEMMA MoveQuietly ==
    ASSUME Parking, Calendar', NEW a \in Actors,
           run[a].at \notin {"idle", "intake_upsert"},
           NEW st, Goto(a, st) \/ (st = "idle" /\ Return(a)), UNCHANGED chat,
           NEW d, lead' = [lead EXCEPT ![run[a].job] = d], d.chat = lead[run[a].job].chat,
           st \notin Talking,
           \/ d.status = "new" \/ st \in Releasing
           \/ lead[run[a].job].status # "new" /\ run[a].at \notin Releasing
           \/ chat[lead[run[a].job].chat] # "awaiting_pro_approval"
    PROVE  Parking'
<1>1. NobodyParked
  BY DEF NobodyParked
<1>2. TalksOn(a, run[a].job, st, d)
  BY DEF TalksOn, Talking
<1>3. StaysOpen(a, run[a].job, st, d)
  BY DEF StaysOpen
<1> QED
  BY <1>1, <1>2, <1>3, MoveOn

\* What the writes of a status leave of a document
LEMMA StatusOnly ==
    ASSUME NEW l \in Leads, lead[l] \in LeadDoc, NEW st \in Status, SetStatus(l, st)
    PROVE  LET d == [lead[l] EXCEPT !.status = st]
           IN  lead' = [lead EXCEPT ![l] = d] /\ d.chat = lead[l].chat /\ d.status = st
BY DEF SetStatus, LeadDoc

\* A step that sets the status of a lead which is not open, or which it goes on to release
LEMMA SetStatusParks ==
    ASSUME Parking, Calendar', NEW a \in Actors,
           run[a].at \notin {"idle", "intake_upsert"}, UNCHANGED chat,
           NEW st \in Status, SetStatus(run[a].job, st),
           NEW next, Goto(a, next) \/ (next = "idle" /\ Return(a)), next \notin Talking,
           \/ next \in Releasing
           \/ lead[run[a].job].status # "new" /\ run[a].at \notin Releasing
           \/ chat[lead[run[a].job].chat] # "awaiting_pro_approval"
    PROVE  Parking'
<1> DEFINE l == run[a].job
           d == [lead[l] EXCEPT !.status = st]
<1>1. l \in Leads /\ lead[l] \in LeadDoc
  BY InHand DEF Parking
<1>2. lead' = [lead EXCEPT ![l] = d] /\ d.chat = lead[l].chat
  BY <1>1, StatusOnly
<1> HIDE DEF d
<1> QED
  BY <1>2, MoveQuietly

LEMMA TakeOverParks ==
    ASSUME Parking, Calendar', NEW a \in Actors, NEW p \in Pros,
           run[a].at \notin {"idle", "intake_upsert"},
           TakeOver(run[a].job, p), Return(a), UNCHANGED chat
    PROVE  Parking'
<1> DEFINE l == run[a].job
           d == [lead[l] EXCEPT !.status = "new", !.pro = p, !.count = 0,
                                !.exhausted = FALSE, !.offered = FALSE]
<1>1. lead[l] \in LeadDoc
  BY InHand DEF Parking
<1>2. d.status = "new" /\ d.chat = lead[l].chat
  <2>1. \A e \in BOOLEAN :
          LET r == [lead[l] EXCEPT !.status = "new", !.pro = p, !.count = 0,
                                   !.exhausted = e, !.offered = e]
          IN  r.status = "new" /\ r.chat = lead[l].chat
    BY <1>1 DEF LeadDoc
  <2> QED
    BY <2>1, Zenon
<1>3. lead' = [lead EXCEPT ![l] = d]
  BY TakeOverWrites
<1>4. "idle" \notin Talking
  BY DEF Talking
<1> HIDE DEF d
<1> QED
  BY <1>2, <1>3, <1>4, MoveQuietly

LEMMA ProStepsPark ==
    ASSUME Parking, Calendar', NEW p \in Pros, ProStep(p)
    PROVE  Parking'
<1>0. p \in Actors
  BY DEF Actors
<1> DEFINE l == run[p].job
<1>1. CASE ApproveBook(p)
  <2> DEFINE d == [lead[l] EXCEPT !.status = "booked", !.pro = p]
  <2>1. lead[l] \in LeadDoc
    BY <1>0, <1>1, InHand DEF ApproveBook, Parking
  <2>2. d.chat = lead[l].chat
    BY <2>1 DEF LeadDoc
  <2>3. lead' = [lead EXCEPT ![l] = d]
    BY <1>1, ApproveBookWrites
  <2>4. run[p].at = "approve_book" /\ Goto(p, "approve_claim") /\ UNCHANGED chat
    BY <1>1 DEF ApproveBook
  <2>5. "approve_claim" \notin Talking /\ "approve_claim" \in Releasing
    BY DEF Talking, Releasing
  <2> HIDE DEF d
  <2> QED
    BY <1>0, <2>2, <2>3, <2>4, <2>5, MoveQuietly
<1>2. CASE ApproveClaim(p)
  <2>0. run[p].at = "approve_claim" /\ UNCHANGED <<lead, chat>> /\ NobodyParked
    BY <1>2 DEF ApproveClaim, NobodyParked
  <2>1. CASE Goto(p, "release")
    BY <1>0, <2>0, <2>1, MoveOnly DEF Talking, Releasing
  <2>2. ASSUME NEW s \in Slots,
               run' = [run EXCEPT ![p].at = "approve_record", ![p].claim = s]
        PROVE  Parking'
    <3> DEFINE h == [run[p] EXCEPT !.at = "approve_record", !.claim = s]
    <3>1. l \in Leads /\ run[p] \in Handler /\ lead' = [lead EXCEPT ![l] = lead[l]]
      BY <1>0, <2>0, InHand DEF Parking
    <3>2. h.at = "approve_record" /\ h.job = l
      BY <3>1 DEF Handler
    <3>3. run' = [run EXCEPT ![p] = h] /\ run[p].job = l
      BY <1>0, <2>2 DEF Parking, Calendar, WellFormed, TypeOK
    <3>4. "approve_record" \notin Talking /\ "approve_record" \in Releasing
      BY DEF Talking, Releasing
    <3>5. TalksOn(p, l, h.at, lead[l]) /\ StaysOpen(p, l, h.at, lead[l])
      BY <3>2, <3>4 DEF TalksOn, StaysOpen, Talking
    <3> HIDE DEF h, l
    <3> QED
      BY <1>0, <2>0, <3>1, <3>2, <3>3, <3>5, LeadStep
  <2> QED
    BY <1>2, <2>1, <2>2 DEF ApproveClaim
<1>3. CASE ApproveRecord(p)
  <2> DEFINE h == [run[p] EXCEPT !.at = "release", !.claim = NoSlot]
             d == [lead[l] EXCEPT !.slot = run[p].claim]
  <2>1. l \in Leads /\ lead[l] \in LeadDoc /\ run[p] \in Handler
    BY <1>0, <1>3, InHand DEF ApproveRecord, Parking
  <2>2. h.at = "release" /\ h.job = l
    BY <2>1 DEF Handler
  <2>3. d.chat = lead[l].chat
    BY <2>1 DEF LeadDoc
  <2>4. run' = [run EXCEPT ![p] = h] /\ lead' = [lead EXCEPT ![l] = d] /\ UNCHANGED chat
    BY <1>0, <1>3 DEF ApproveRecord, Parking, Calendar, WellFormed, TypeOK
  <2>5. "release" \notin Talking /\ "release" \in Releasing /\ run[p].job = l
    BY DEF Talking, Releasing
  <2>6. TalksOn(p, l, h.at, d) /\ StaysOpen(p, l, h.at, d) /\ NobodyParked
    BY <2>2, <2>4, <2>5 DEF TalksOn, StaysOpen, Talking, NobodyParked
  <2> HIDE DEF h, d, l
  <2> QED
    BY <1>0, <2>1, <2>2, <2>3, <2>4, <2>5, <2>6, LeadStep
<1>4. CASE RejectWrite(p)
  BY <1>0, <1>4, SetStatusParks DEF RejectWrite, Status, Talking, Releasing
<1>5. CASE SearchWrite(p)
  BY <1>0, <1>5, TakeOverParks DEF SearchWrite
<1> QED
  BY <1>1, <1>2, <1>3, <1>4, <1>5 DEF ProStep

LEMMA CloseStepsPark ==
    ASSUME Parking, Calendar', NEW a \in Actors, CloseStep(a)
    PROVE  Parking'
<1>1. CASE CancelWrite(a)
  <2>1. lead[run[a].job].status = "booked"
    BY <1>1, InHand DEF CancelWrite, StillTrue, Parking
  <2> QED
    BY <1>1, <2>1, SetStatusParks DEF CancelWrite, Status, Talking, Releasing
<1>2. CASE CancelFree(a)
  BY <1>2, MoveOnly DEF CancelFree, Talking, Releasing, NobodyParked
<1>3. CASE FinishWrite(a)
  <2>1. lead[run[a].job].status = "booked"
    BY <1>3, InHand DEF FinishWrite, StillTrue, Parking
  <2> QED
    BY <1>3, <2>1, SetStatusParks DEF FinishWrite, Status, Talking, Releasing
<1>4. CASE Release(a)
  <2> DEFINE d == lead[run[a].job]
  <2>1. /\ lead' = [lead EXCEPT ![run[a].job] = d] /\ d.chat \in Customers
        /\ run[a].at = "release" /\ Return(a)
    BY <1>4, InHand DEF Release, Parking, LeadDoc
  <2>2. \A c \in Customers : chat'[c] = IF c = d.chat THEN "idle" ELSE chat[c]
    BY <1>4 DEF Release, Parking, Calendar, WellFormed, TypeOK
  <2>3. "idle" \notin Talking
    BY DEF Talking
  <2> HIDE DEF d
  <2>4. d.chat = lead[run[a].job].chat /\ chat'[d.chat] # "awaiting_pro_approval"
    BY <2>1, <2>2 DEF d
  <2>5. TalksOn(a, run[a].job, "idle", d)
    BY <2>3 DEF TalksOn, Talking
  <2>6. StaysOpen(a, run[a].job, "idle", d) /\ NobodyParked
    BY <2>2, <2>4 DEF StaysOpen, NobodyParked
  <2> QED
    BY <2>1, <2>4, <2>5, <2>6, MoveOn
<1> QED
  BY <1>1, <1>2, <1>3, <1>4 DEF CloseStep

LEMMA ReassignStepsPark ==
    ASSUME Parking, Calendar', NEW a \in Actors, ReassignSteps(a)
    PROVE  Parking'
<1> DEFINE l == run[a].job
<1>0. "release" \in Releasing /\ "release" \notin Talking /\ "idle" \notin Talking
      /\ "release" # "deal_park"
  BY DEF Releasing, Talking
<1>1. CASE ReassignEscalate(a)
  <2>0. run[a].at = "reassign_escalate" /\ UNCHANGED chat /\ lead[l] \in LeadDoc
    BY <1>1, InHand DEF ReassignEscalate, Parking
  <2>1. CASE lead[l].status = run[a].seen
    <3> DEFINE d == [lead[l] EXCEPT !.status = "pending_admin_review", !.exhausted = TRUE]
    <3>1. lead' = [lead EXCEPT ![l] = d]
      BY <1>1, <2>1, ReassignEscalateWrites, Zenon
    <3>2. d.chat = lead[l].chat
      <4>1. \A e \in BOOLEAN :
              [lead[l] EXCEPT !.status = "pending_admin_review", !.exhausted = e].chat = lead[l].chat
        BY <2>0 DEF LeadDoc
      <4> QED
        BY <4>1, Zenon
    <3>3. Goto(a, "release")
      BY <1>1, <2>1 DEF ReassignEscalate
    <3> HIDE DEF d
    <3> QED
      BY <1>0, <2>0, <3>1, <3>2, <3>3, MoveQuietly
  <2>2. CASE lead[l].status # run[a].seen
    <3>1. Return(a) /\ UNCHANGED lead /\ run[a].at \notin Releasing /\ NobodyParked
      BY <1>1, <2>0, <2>2 DEF ReassignEscalate, Releasing, NobodyParked
    <3> QED
      BY <1>0, <2>0, <3>1, MoveOnly
  <2> QED
    BY <2>1, <2>2
<1>2. CASE ReassignNoLocation(a)
  <2> DEFINE d == [lead[l] EXCEPT !.status = "pending_admin_review", !.exhausted = FALSE]
  <2>0. /\ run[a].at = "reassign_no_location" /\ UNCHANGED chat /\ lead[l] \in LeadDoc
        /\ Goto(a, "release")
    BY <1>2, InHand DEF ReassignNoLocation, Parking
  <2>1. lead' = [lead EXCEPT ![l] = d]
    BY <1>2, ReassignNoLocationWrites, Zenon
  <2>2. d.chat = lead[l].chat
    <3>1. \A e \in BOOLEAN :
            [lead[l] EXCEPT !.status = "pending_admin_review", !.exhausted = e].chat = lead[l].chat
      BY <2>0 DEF LeadDoc
    <3> QED
      BY <3>1, Zenon
  <2> HIDE DEF d
  <2> QED
    BY <1>0, <2>0, <2>1, <2>2, MoveQuietly
<1>3. CASE ReassignMatch(a)
  <2>0. /\ run[a].at = "reassign_match" /\ UNCHANGED lead /\ NobodyParked
        /\ run[a] \in Handler /\ l \in Leads
    BY <1>3, InHand DEF ReassignMatch, Parking, NobodyParked
  <2>1. CASE Goto(a, "reassign_give_up")
    BY <2>0, <2>1, MoveOnly DEF Talking, Releasing
  <2>2. ASSUME NEW p \in Pros, run' = [run EXCEPT ![a].at = "reassign_give", ![a].pick = p]
        PROVE  Parking'
    <3> DEFINE h == [run[a] EXCEPT !.at = "reassign_give", !.pick = p]
    <3>1. h.at = "reassign_give"
      BY <2>0 DEF Handler
    <3>2. run' = [run EXCEPT ![a] = h]
      BY <2>2 DEF Parking, Calendar, WellFormed, TypeOK
    <3> HIDE DEF h
    <3> QED
      BY <2>0, <3>1, <3>2, HandlerStep DEF Talking, Releasing
  <2> QED
    BY <1>3, <2>1, <2>2 DEF ReassignMatch
<1>4. CASE ReassignGive(a)
  <2> DEFINE d == [lead[l] EXCEPT !.status = "new", !.pro = run[a].pick,
                                  !.count = run[a].count + 1, !.offered = FALSE]
  <2>0. /\ run[a].at = "reassign_give" /\ UNCHANGED chat /\ lead[l] \in LeadDoc
        /\ Goto(a, "release")
    BY <1>4, InHand DEF ReassignGive, Parking
  <2>1. lead' = [lead EXCEPT ![l] = d]
    BY <1>4, ReassignGiveWrites
  <2>2. d.chat = lead[l].chat
    <3>1. \A e \in BOOLEAN : \A q, n :
            [lead[l] EXCEPT !.status = "new", !.pro = q, !.count = n, !.offered = e].chat
              = lead[l].chat
      BY <2>0 DEF LeadDoc
    <3> QED
      BY <3>1, Zenon
  <2> HIDE DEF d
  <2> QED
    BY <1>0, <2>0, <2>1, <2>2, MoveQuietly
<1>5. CASE ReassignGiveUp(a)
  BY <1>0, <1>5, SetStatusParks DEF ReassignGiveUp, Status
<1> QED
  BY <1>1, <1>2, <1>3, <1>4, <1>5 DEF ReassignSteps

\* The find-or-create of the intake, on a lead nobody works on and that is not open
LEMMA UpsertParks ==
    ASSUME Parking, Calendar', NEW c \in Customers, IntakeUpsert(c)
    PROVE  Parking'
<1>0. /\ c \in Actors /\ UNCHANGED chat /\ run[c].at = "intake_upsert" /\ run[c].job = NoLead
      /\ run[c] \in Handler
  BY DEF Actors, IntakeUpsert, Parking, Calendar, WellFormed, TypeOK, ReadsStillTrue, InHandIff
<1>1. PICK m \in Leads :
        /\ MayTake(c, m) /\ lead[m].chat = c
        /\ lead[m].status \in {"absent", "contacted"}
        /\ UNCHANGED lead \/ SetStatus(m, "contacted")
        /\ run' = [run EXCEPT ![c].at = "intake_match", ![c].job = m]
  BY DEF IntakeUpsert, OfChat
<1>2. \A b \in Actors : run[b].job # m
  BY <1>1, NullsAssumption DEF MayTake, Parking, Calendar, Isolated
<1> DEFINE h == [run[c] EXCEPT !.at = "intake_match", !.job = m]
<1>3. run' = [run EXCEPT ![c] = h] /\ h.at = "intake_match" /\ h.job = m
  BY <1>0, <1>1 DEF Parking, Calendar, WellFormed, TypeOK, Handler
<1> HIDE DEF h
<1>4. \A b \in Actors : run'[b] = IF b = c THEN h ELSE run[b]
  BY <1>0, <1>3 DEF Parking, Calendar, WellFormed, TypeOK
<1>5. /\ \A l \in Leads \ {m} : lead'[l] = lead[l]
      /\ lead'[m].chat = c
  BY <1>1 DEF SetStatus, Parking, Calendar, WellFormed, TypeOK, LeadDoc
<1>6. \A b \in Actors : run[b].at \in Talking \ {"intake_upsert"} => run[b].job \in Leads \ {m}
  BY <1>2 DEF Parking, Calendar, WellFormed, LeadInHand, Talking
<1>7. TalkersAreFree'
  <2> SUFFICES ASSUME NEW b \in Actors, run'[b].at \in Talking
               PROVE  /\ b \in Customers /\ chat'[b] # "awaiting_pro_approval"
                      /\ run'[b].at # "intake_upsert" => lead'[run'[b].job].chat = b
                      /\ run'[b].at = "deal_park" => lead'[run'[b].job].status = "new"
    BY DEF TalkersAreFree
  <2>1. CASE b = c
    BY <1>0, <1>3, <1>4, <1>5, <2>1 DEF Parking, TalkersAreFree, Talking
  <2>2. CASE b # c
    BY <1>0, <1>4, <1>5, <1>6, <2>2 DEF Parking, TalkersAreFree
  <2> QED
    BY <2>1, <2>2
<1>8. ParkedHaveOpen'
  <2> SUFFICES ASSUME NEW k \in Customers, chat'[k] = "awaiting_pro_approval"
               PROVE  \E l \in Leads : lead'[l].chat = k /\ Open(l)'
    BY DEF ParkedHaveOpen
  <2>1. PICK l \in Leads : lead[l].chat = k /\ Open(l)
    BY <1>0, ParkedIs DEF Parking, ParkedHaveOpen
  <2>2. l # m
    BY <1>1, <1>2, <2>1 DEF Open
  <2>3. Open(l)'
    BY <1>0, <1>4, <1>5, <2>1, <2>2 DEF Open, Releasing
  <2> QED
    BY <1>5, <2>1, <2>2, <2>3
<1> QED
  BY <1>7, <1>8, ParkedWillBe DEF Parking

\* The end of a deal: the customer is parked for the lead the deal has made NEW.
LEMMA DealParks ==
    ASSUME Parking, Calendar', NEW c \in Customers, DealPark(c)
    PROVE  Parking'
<1> DEFINE l == run[c].job
<1>0. c \in Actors /\ run[c].at = "deal_park" /\ UNCHANGED lead
  BY DEF Actors, DealPark
<1>1. l \in Leads /\ lead[l].chat = c /\ lead[l].status = "new"
  BY <1>0, InHand DEF Parking, TalkersAreFree, Talking
<1>2. /\ \A b \in Actors : run'[b] = IF b = c THEN Idle ELSE run[b]
      /\ \A k \in Customers \ {c} : chat'[k] = chat[k]
  BY <1>0 DEF DealPark, Return, Parking, Calendar, WellFormed, TypeOK
<1>3. TalkersAreFree'
  BY <1>0, <1>2 DEF Parking, TalkersAreFree, Talking, Idle
<1>4. ParkedHaveOpen'
  <2> SUFFICES ASSUME NEW k \in Customers, chat'[k] = "awaiting_pro_approval"
               PROVE  \E m \in Leads : lead'[m].chat = k /\ Open(m)'
    BY DEF ParkedHaveOpen
  <2>1. CASE k = c
    BY <1>0, <1>1, <2>1 DEF Open
  <2>2. CASE k # c
    <3>1. PICK m \in Leads : lead[m].chat = k /\ Open(m)
      BY <1>2, <2>2, ParkedIs DEF Parking, ParkedHaveOpen
    <3>2. Open(m)'
      BY <1>0, <1>2, <3>1 DEF Open, Releasing
    <3> QED
      BY <1>0, <3>1, <3>2
  <2> QED
    BY <2>1, <2>2
<1> QED
  BY <1>3, <1>4, ParkedWillBe DEF Parking

LEMMA IntakeStepsPark ==
    ASSUME Parking, Calendar', NEW c \in Customers,
           \/ IntakeMatch(c) \/ IntakeEscalate(c) \/ IntakeAssign(c) \/ DealWrite(c)
           \/ KeepWaiting(c)
    PROVE  Parking'
<1> DEFINE l == run[c].job
<1>0. c \in Actors /\ UNCHANGED chat /\ NobodyParked
  BY DEF Actors, IntakeMatch, IntakeEscalate, IntakeAssign, DealWrite, KeepWaiting, NobodyParked
<1>1. run[c].at \notin {"idle", "intake_upsert"} /\ run[c].at \notin Releasing
  BY DEF IntakeMatch, IntakeEscalate, IntakeAssign, DealWrite, KeepWaiting, Releasing
<1>2. l \in Leads /\ lead[l] \in LeadDoc /\ run[c] \in Handler
  BY <1>0, <1>1, InHand DEF Parking
<1>3. CASE IntakeMatch(c)
  <2>0. run[c].at = "intake_match" /\ UNCHANGED lead
    BY <1>3 DEF IntakeMatch
  <2>1. CASE Goto(c, "intake_escalate")
    BY <1>0, <1>1, <2>0, <2>1, MoveOnly DEF Talking
  <2>2. CASE Return(c)
    BY <1>0, <1>1, <2>0, <2>2, MoveOnly DEF Talking
  <2>3. ASSUME NEW p \in Pros, run' = [run EXCEPT ![c].at = "intake_assign", ![c].pick = p]
        PROVE  Parking'
    <3> DEFINE h == [run[c] EXCEPT !.at = "intake_assign", !.pick = p]
    <3>1. h.at = "intake_assign" /\ h.job = l /\ run' = [run EXCEPT ![c] = h]
      BY <1>0, <1>2, <2>3 DEF Parking, Calendar, WellFormed, TypeOK, Handler
    <3>2. chat[c] # "awaiting_pro_approval" /\ lead[l].chat = c
      BY <1>0, <2>0 DEF Parking, TalkersAreFree, Talking
    <3> HIDE DEF h
    <3> QED
      BY <1>0, <1>1, <2>0, <3>1, <3>2, HandlerStep
  <2> QED
    BY <1>3, <2>1, <2>2, <2>3 DEF IntakeMatch
<1>4. CASE IntakeEscalate(c)
  <2>1. chat[lead[l].chat] # "awaiting_pro_approval"
    BY <1>0, <1>4 DEF IntakeEscalate, Parking, TalkersAreFree, Talking
  <2> QED
    BY <1>0, <1>1, <1>4, <2>1, SetStatusParks DEF IntakeEscalate, Status, Talking
<1>5. CASE IntakeAssign(c)
  <2> DEFINE d == [lead[l] EXCEPT !.pro = run[c].pick]
  <2>0. run[c].at = "intake_assign"
    BY <1>5 DEF IntakeAssign
  <2>1. lead' = [lead EXCEPT ![l] = d]
    BY <1>2, <1>5 DEF IntakeAssign, Parking, Calendar, WellFormed, TypeOK
  <2>2. d.status = lead[l].status /\ d.chat = lead[l].chat
    BY <1>2 DEF LeadDoc
  <2> HIDE DEF d
  <2>3. StaysOpen(c, l, "deal_write", d) /\ StaysOpen(c, l, "idle", d)
    BY <1>1, <2>2 DEF StaysOpen
  <2>4. TalksOn(c, l, "deal_write", d) /\ TalksOn(c, l, "idle", d)
    BY <2>0 DEF TalksOn, Talking
  <2>5. CASE Goto(c, "deal_write")
    BY <1>0, <1>1, <2>1, <2>2, <2>3, <2>4, <2>5, MoveOn
  <2>6. CASE Return(c)
    BY <1>0, <1>1, <2>1, <2>2, <2>3, <2>4, <2>6, MoveOn
  <2> QED
    BY <1>5, <2>5, <2>6 DEF IntakeAssign
<1>6. CASE DealWrite(c)
  <2> DEFINE d == [lead[l] EXCEPT !.status = "new", !.pro = run[c].pick, !.offered = FALSE]
  <2>0. run[c].at = "deal_write" /\ Goto(c, "deal_park")
    BY <1>6 DEF DealWrite
  <2>1. lead' = [lead EXCEPT ![l] = d]
    BY <1>6, DealWriteWrites
  <2>2. d.status = "new" /\ d.chat = lead[l].chat
    <3>1. \A e \in BOOLEAN :
            LET r == [lead[l] EXCEPT !.status = "new", !.pro = run[c].pick, !.offered = e]
            IN  r.status = "new" /\ r.chat = lead[l].chat
      BY <1>2 DEF LeadDoc
    <3> QED
      BY <3>1, Zenon
  <2> HIDE DEF d
  <2>3. StaysOpen(c, l, "deal_park", d) /\ TalksOn(c, l, "deal_park", d)
    BY <2>0, <2>2 DEF StaysOpen, TalksOn, Talking
  <2> QED
    BY <1>0, <1>1, <2>0, <2>1, <2>2, <2>3, MoveOn
<1>7. CASE KeepWaiting(c)
  <2> DEFINE d == [lead[l] EXCEPT !.offered = FALSE]
  <2>1. lead' = [lead EXCEPT ![l] = d] /\ Return(c)
    BY <1>2, <1>7 DEF KeepWaiting, Parking, Calendar, WellFormed, TypeOK
  <2>2. d.status = lead[l].status /\ d.chat = lead[l].chat
    BY <1>2 DEF LeadDoc
  <2> HIDE DEF d
  <2>3. "idle" \notin Talking /\ (d.status = "new" \/ lead[l].status # "new")
    BY <2>2 DEF Talking
  <2> QED
    BY <1>0, <1>1, <2>1, <2>2, <2>3, MoveQuietly
<1> QED
  BY <1>3, <1>4, <1>5, <1>6, <1>7

LEMMA RescheduleStepsPark ==
    ASSUME Parking, Calendar', NEW c \in Customers,
           \/ RescheduleOffer(c) \/ RescheduleClaim(c) \/ RescheduleFree(c) \/ RescheduleWrite(c)
           \/ RescheduleLeave(c) \/ StateExpires(c)
    PROVE  Parking'
<1>0. c \in Actors
  BY DEF Actors
<1>1. NobodyParked
  BY DEF NobodyParked, RescheduleOffer, RescheduleClaim, RescheduleFree, RescheduleWrite,
         RescheduleLeave, StateExpires, Parking, Calendar, WellFormed, TypeOK
<1>2. CASE RescheduleOffer(c)
  <2>1. run[c].at = "resched_offer" /\ Return(c) /\ UNCHANGED lead
    BY <1>2 DEF RescheduleOffer
  <2> QED
    BY <1>0, <1>1, <2>1, MoveOnly DEF Talking, Releasing
<1>3. CASE RescheduleClaim(c)
  <2>1. /\ run[c].at = "resched_claim" /\ UNCHANGED lead
        /\ Return(c) \/ Goto(c, "resched_write") \/ Goto(c, "resched_free")
    BY <1>3 DEF RescheduleClaim
  <2> QED
    BY <1>0, <1>1, <2>1, MoveOnly DEF Talking, Releasing
<1>4. CASE RescheduleFree(c)
  <2>1. run[c].at = "resched_free" /\ UNCHANGED lead /\ Goto(c, "resched_write")
    BY <1>4 DEF RescheduleFree
  <2> QED
    BY <1>0, <1>1, <2>1, MoveOnly DEF Talking, Releasing
<1>5. CASE RescheduleWrite(c)
  <2> DEFINE l == run[c].job
             d == [lead[l] EXCEPT !.slot = run[c].claim]
  <2>1. run[c].at = "resched_write" /\ UNCHANGED chat /\ Goto(c, "release")
    BY <1>5 DEF RescheduleWrite
  <2>2. l \in Leads /\ lead[l] \in LeadDoc
    BY <1>0, <2>1, InHand DEF Parking
  <2>3. lead' = [lead EXCEPT ![l] = d]
    BY <1>5, <2>2 DEF RescheduleWrite, Parking, Calendar, WellFormed, TypeOK
  <2>4. d.chat = lead[l].chat
    BY <2>2 DEF LeadDoc
  <2> HIDE DEF d
  <2>5. "release" \notin Talking /\ "release" \in Releasing
    BY DEF Talking, Releasing
  <2> QED
    BY <1>0, <2>1, <2>3, <2>4, <2>5, MoveQuietly
<1>6. CASE RescheduleLeave(c) \/ StateExpires(c)
  BY <1>1, <1>6, Standstill DEF RescheduleLeave, StateExpires
<1> QED
  BY <1>2, <1>3, <1>4, <1>5, <1>6

LEMMA OtherStepsPark ==
    ASSUME Parking, Calendar',
           \/ OfferClaim \/ WizardLeave
           \/ \E p \in Pros : WizardAssign(p)
           \/ \E a \in Actors : Crash(a)
    PROVE  Parking'
<1>0. Sla \in Actors /\ Admin \in Actors
  BY DEF Actors
<1>1. CASE OfferClaim
  <2> DEFINE l == run[Sla].job
             d == [lead[l] EXCEPT !.offered = TRUE]
  <2>1. run[Sla].at = "offer_claim" /\ UNCHANGED chat /\ Return(Sla)
    BY <1>1 DEF OfferClaim
  <2>2. l \in Leads /\ lead[l] \in LeadDoc
    BY <1>0, <2>1, InHand DEF Parking
  <2>3. CASE UNCHANGED lead
    <3>1. NobodyParked
      BY <2>1 DEF NobodyParked
    <3> QED
      BY <1>0, <2>1, <2>3, <3>1, MoveOnly DEF Talking, Releasing
  <2>4. CASE lead' = [lead EXCEPT ![l].offered = TRUE]
    <3>1. lead' = [lead EXCEPT ![l] = d]
      BY <2>4
    <3>2. d.status = lead[l].status /\ d.chat = lead[l].chat
      <4>1. \A e \in BOOLEAN :
              LET r == [lead[l] EXCEPT !.offered = e]
              IN  r.status = lead[l].status /\ r.chat = lead[l].chat
        BY <2>2 DEF LeadDoc
      <4> QED
        BY <4>1, Zenon
    <3> HIDE DEF d
    <3>3. /\ "idle" \notin Talking /\ run[Sla].at \notin Releasing
          /\ d.status = "new" \/ lead[l].status # "new"
      BY <2>1, <3>2 DEF Talking, Releasing
    <3> QED
      BY <1>0, <2>1, <3>1, <3>2, <3>3, MoveQuietly
  <2> QED
    BY <1>1, <2>3, <2>4 DEF OfferClaim
<1>2. CASE WizardLeave
  <2>1. run[Admin].at = "wizard_assign" /\ Return(Admin) /\ UNCHANGED lead /\ NobodyParked
    BY <1>2 DEF WizardLeave, NobodyParked
  <2> QED
    BY <1>0, <2>1, MoveOnly DEF Talking, Releasing
<1>3. ASSUME NEW p \in Pros, WizardAssign(p) PROVE Parking'
  BY <1>0, <1>3, TakeOverParks DEF WizardAssign
<1>4. ASSUME NEW a \in Actors, Crash(a) PROVE Parking'
  BY <1>4 DEF Crash, Parking, Calendar, Isolated, WellFormed, TypeOK
<1> QED
  BY <1>1, <1>2, <1>3, <1>4

-----------------------------------------------------------------------------
(* The theorem *)

LEMMA InitParking == Isolated /\ Init => Parking
<1> SUFFICES ASSUME Isolated, Init PROVE Parking
  OBVIOUS
<1>1. Calendar
  BY InitCalendar
<1>2. TalkersAreFree /\ ParkedHaveOpen
  BY DEF Init, Idle, TalkersAreFree, ParkedHaveOpen, Talking
<1> QED
  BY <1>1, <1>2, ParkedIs DEF Parking

LEMMA NextParking == Parking /\ [Next]_vars => Parking'
<1> SUFFICES ASSUME Parking, [Next]_vars PROVE Parking'
  OBVIOUS
<1>0. Calendar'
  BY NextCalendar DEF Parking, CalendarStep
<1>1. CASE UNCHANGED vars
  BY <1>0, <1>1, Standstill DEF vars, NobodyParked
<1>2. CASE Next
  BY <1>0, <1>2, ReadsPark, ProStepsPark, CloseStepsPark, ReassignStepsPark, UpsertParks, DealParks,
     IntakeStepsPark, RescheduleStepsPark, OtherStepsPark
  DEF Next, CustomerStep
<1> QED
  BY <1>1, <1>2

(* Whatever a pro, a sweep, the admin or time does to the lead of a        *)
(* customer in AWAITING_PRO_APPROVAL, a pro can still answer it or a       *)
(* handler is about to release the customer, while no two handlers work on *)
(* one lead and none dies: nobody waits for nothing.                       *)
THEOREM NobodyWaitsForNothing == Isolated /\ Spec => []ParkedCustomerHasOpenLead
<1>1. Parking => ParkedCustomerHasOpenLead
  BY DEF Parking
<1> QED
  BY <1>1, InitParking, NextParking, PTL DEF Spec

=============================================================================
