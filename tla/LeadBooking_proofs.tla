-------------------------- MODULE LeadBooking_proofs ---------------------------
(***************************************************************************)
(* Theorems about LeadBooking for every set of customers, pros, leads and  *)
(* slots, whoever overlaps and however many handlers die: type correctness *)
(* and the bound on reassignments.                                         *)
(***************************************************************************)
EXTENDS LeadBooking, TLAPS

-----------------------------------------------------------------------------
(* Type correctness *)

LEMMA IdleType == Idle \in Handler
BY DEF Idle, Handler, Steps, Status

LEMMA AtType ==
    ASSUME NEW l \in Leads \cup {NoLead}, NEW st \in Steps
    PROVE  At(st, l) \in Handler
BY IdleType DEF At, Handler, Idle

LEMMA InitType == Init => TypeOK
<1> SUFFICES ASSUME Init PROVE TypeOK
  OBVIOUS
<1>1. lead \in [Leads -> LeadDoc]
  BY DEF Init, LeadDoc, Status
<1>2. /\ newer \subseteq Leads \X Leads
      /\ taken \in [Slots -> BOOLEAN]
      /\ chat \in [Customers -> ChatState]
      /\ menu \in [Customers -> SUBSET Slots]
      /\ pages \in [Leads -> Nat]
  BY DEF Init, ChatState
<1>3. crashes \in 0..MaxCrashes
  BY BoundsAssumption DEF Init
<1>4. run \in [Actors -> Handler]
  BY IdleType DEF Init
<1> QED
  BY <1>1, <1>2, <1>3, <1>4 DEF TypeOK

\* What a step on an existing handler leaves in run
LEMMA GotoType ==
    ASSUME TypeOK, NEW a \in Actors, NEW st \in Steps, Goto(a, st)
    PROVE  run' \in [Actors -> Handler]
BY DEF TypeOK, Goto, Handler

LEMMA ReturnType ==
    ASSUME TypeOK, NEW a \in Actors, Return(a)
    PROVE  run' \in [Actors -> Handler]
BY IdleType DEF TypeOK, Return

LEMMA BeginType ==
    ASSUME TypeOK, NEW a \in Actors, NEW h \in Handler, Begin(a, h)
    PROVE  run' \in [Actors -> Handler]
BY DEF TypeOK, Begin

LEMMA TouchType ==
    ASSUME TypeOK, NEW l \in Leads, Touch(l)
    PROVE  newer' \subseteq Leads \X Leads
BY DEF TypeOK, Touch

-----------------------------------------------------------------------------
(* The steps that write several fields of a document write one document.   *)

LEMMA ApproveBookWrites ==
    ASSUME NEW p, ApproveBook(p)
    PROVE  lead' = [lead EXCEPT ![run[p].job] =
                      [lead[run[p].job] EXCEPT !.status = "booked", !.pro = p]]
BY DEF ApproveBook

LEMMA TakeOverWrites ==
    ASSUME NEW l, NEW p, TakeOver(l, p)
    PROVE  lead' = [lead EXCEPT ![l] =
                      [lead[l] EXCEPT !.status = "new", !.pro = p, !.count = 0,
                                      !.exhausted = FALSE, !.offered = FALSE]]
BY DEF TakeOver

LEMMA ReassignEscalateWrites ==
    ASSUME NEW a, ReassignEscalate(a), lead[run[a].job].status = run[a].seen
    PROVE  lead' = [lead EXCEPT ![run[a].job] =
                      [lead[run[a].job] EXCEPT !.status = "pending_admin_review",
                                               !.exhausted = TRUE]]
BY DEF ReassignEscalate

LEMMA ReassignNoLocationWrites ==
    ASSUME NEW a, ReassignNoLocation(a)
    PROVE  lead' = [lead EXCEPT ![run[a].job] =
                      [lead[run[a].job] EXCEPT !.status = "pending_admin_review",
                                               !.exhausted = FALSE]]
BY DEF ReassignNoLocation

LEMMA ReassignGiveWrites ==
    ASSUME NEW a, ReassignGive(a)
    PROVE  lead' = [lead EXCEPT ![run[a].job] =
                      [lead[run[a].job] EXCEPT !.status = "new", !.pro = run[a].pick,
                                               !.count = run[a].count + 1,
                                               !.offered = FALSE]]
BY DEF ReassignGive

LEMMA DealWriteWrites ==
    ASSUME NEW c, DealWrite(c)
    PROVE  lead' = [lead EXCEPT ![run[c].job] =
                      [lead[run[c].job] EXCEPT !.status = "new", !.pro = run[c].pick,
                                               !.offered = FALSE]]
BY DEF DealWrite

-----------------------------------------------------------------------------
(* The invariant behind both: a handler past its first read has a lead in  *)
(* hand, and one that is about to pass the lead on has read a count below  *)
(* the limit, so that writing the count it read plus one stays within it.  *)

LeadInHand(h) == h.at \notin {"idle", "intake_upsert"} => h.job \in Leads

MayPassOn(h) == h.at \in {"reassign_match", "reassign_give"} => h.count < MaxReassignments

WellFormed ==
    /\ TypeOK
    /\ \A a \in Actors : LeadInHand(run[a]) /\ MayPassOn(run[a])
    /\ ReassignmentBound

LEMMA InitWellFormed == Init => WellFormed
<1> SUFFICES ASSUME Init PROVE WellFormed
  OBVIOUS
<1>1. TypeOK
  BY InitType
<1>2. \A a \in Actors : LeadInHand(run[a]) /\ MayPassOn(run[a])
  BY DEF Init, Idle, LeadInHand, MayPassOn
<1>3. ReassignmentBound
  BY BoundsAssumption DEF Init, ReassignmentBound
<1> QED
  BY <1>1, <1>2, <1>3 DEF WellFormed

\* A first read changes nothing but its own handler.
LEMMA ReadKeeps ==
    ASSUME WellFormed, NEW a \in Actors, NEW h \in Handler, Begin(a, h),
           LeadInHand(h), MayPassOn(h),
           UNCHANGED <<lead, newer, taken, chat, menu, pages, crashes>>
    PROVE  WellFormed'
<1>1. run' \in [Actors -> Handler]
  BY BeginType DEF WellFormed
<1>2. TypeOK'
  BY <1>1 DEF WellFormed, TypeOK
<1>3. \A b \in Actors : run'[b] = IF b = a THEN h ELSE run[b]
  BY DEF Begin, WellFormed, TypeOK
<1>4. ReassignmentBound'
  BY DEF WellFormed, ReassignmentBound
<1> QED
  BY <1>2, <1>3, <1>4 DEF WellFormed

\* A later step moves one handler on to a well-formed state of its own.
LEMMA StepKeeps ==
    ASSUME WellFormed, NEW a \in Actors, NEW h \in Handler,
           run' = [run EXCEPT ![a] = h], LeadInHand(h), MayPassOn(h),
           lead' \in [Leads -> LeadDoc], newer' \subseteq Leads \X Leads,
           taken' \in [Slots -> BOOLEAN], chat' \in [Customers -> ChatState],
           menu' \in [Customers -> SUBSET Slots], pages' \in [Leads -> Nat],
           crashes' \in 0..MaxCrashes, ReassignmentBound'
    PROVE  WellFormed'
<1>1. run' \in [Actors -> Handler]
  BY DEF WellFormed, TypeOK
<1>2. TypeOK'
  BY <1>1 DEF TypeOK
<1>3. \A b \in Actors : run'[b] = IF b = a THEN h ELSE run[b]
  BY DEF WellFormed, TypeOK
<1> QED
  BY <1>2, <1>3 DEF WellFormed

LEMMA ReadsKeep ==
    ASSUME WellFormed,
           \/ \E p \in Pros : ProReads(p)
           \/ \E c \in Customers : CustomerReads(c)
           \/ \E l \in Leads : ReadStale(l) \/ ReadUnoffered(l) \/ ReadWizardLead(l)
    PROVE  WellFormed'
<1> USE DEF WellFormed
<1>1. ASSUME NEW a \in Actors, NEW l \in Leads, NEW st \in Steps \ {"reassign_match", "reassign_give"},
             Begin(a, At(st, l)), UNCHANGED <<lead, newer, taken, chat, menu, pages, crashes>>
      PROVE  WellFormed'
  <2>1. At(st, l) \in Handler /\ At(st, l).at = st /\ At(st, l).job = l
    BY AtType DEF At, Idle
  <2> QED
    BY <1>1, <2>1, ReadKeeps DEF LeadInHand, MayPassOn
<1>2. ASSUME NEW a \in Actors, NEW l \in Leads,
             Begin(a, [At("cancel_write", l) EXCEPT !.ref = lead[l].slot]),
             UNCHANGED <<lead, newer, taken, chat, menu, pages, crashes>>
      PROVE  WellFormed'
  <2> DEFINE h == [At("cancel_write", l) EXCEPT !.ref = lead[l].slot]
  <2>1. h \in Handler /\ h.at = "cancel_write" /\ h.job = l
    BY DEF At, Idle, Handler, Steps, Status, TypeOK, LeadDoc
  <2> HIDE DEF h
  <2> QED
    BY <1>2, <2>1, ReadKeeps DEF LeadInHand, MayPassOn, h
<1>3. ASSUME NEW a \in Actors, NEW l \in Leads, BeginReassign(a, l)
      PROVE  WellFormed'
  <2>1. PICK st \in ReassignStep(l) :
          Begin(a, [At(st, l) EXCEPT !.seen = lead[l].status, !.count = lead[l].count,
                                     !.from = lead[l].pro])
    BY <1>3 DEF BeginReassign
  <2> DEFINE h == [At(st, l) EXCEPT !.seen = lead[l].status, !.count = lead[l].count,
                                    !.from = lead[l].pro]
  <2>2. st \in Steps /\ (st \in {"reassign_match", "reassign_give"} => lead[l].count < MaxReassignments)
    BY BoundsAssumption DEF ReassignStep, Steps, TypeOK, LeadDoc
  <2>3. h \in Handler /\ h.at = st /\ h.job = l /\ h.count = lead[l].count
    BY <2>2 DEF At, Idle, Handler, Status, TypeOK, LeadDoc
  <2>4. UNCHANGED <<lead, newer, taken, chat, menu, pages, crashes>>
    BY <1>3 DEF BeginReassign
  <2> HIDE DEF h
  <2> QED
    BY <2>1, <2>2, <2>3, <2>4, ReadKeeps DEF LeadInHand, MayPassOn, h
<1>4. ASSUME NEW p \in Pros, ProReads(p) PROVE WellFormed'
  <2>1. p \in Actors
    BY DEF Actors
  <2> QED
    BY <1>1, <1>2, <1>4, <2>1
    DEF ProReads, ReadApprove, ReadReject, ReadFinish, ReadProCancel, ReadSearch,
        Newest, Oldest, OfPro, OnlyBookedJob, Steps
<1>5. ASSUME NEW c \in Customers, CustomerReads(c) PROVE WellFormed'
  <2>0. c \in Actors
    BY DEF Actors
  <2>1. CASE ReadCustomerCancel(c)
    BY <1>2, <2>0, <2>1 DEF ReadCustomerCancel, Newest, OfChat
  <2>2. CASE ReadCustomerCompletion(c) \/ ReadOfferDeclined(c)
    BY <1>1, <2>0, <2>2 DEF ReadCustomerCompletion, ReadOfferDeclined, Newest, OfChat, Steps
  <2>3. CASE ReadOfferAccepted(c)
    BY <1>3, <2>0, <2>3 DEF ReadOfferAccepted, Newest, OfChat
  <2>4. CASE ReadReschedule(c)
    <3>1. PICK l \in Leads : Begin(c, [At("resched_offer", l) EXCEPT !.from = lead[l].pro])
      BY <2>4 DEF ReadReschedule, Newest, OfChat
    <3> DEFINE h == [At("resched_offer", l) EXCEPT !.from = lead[l].pro]
    <3>2. h \in Handler /\ h.at = "resched_offer" /\ h.job = l
      BY DEF At, Idle, Handler, Steps, Status, TypeOK, LeadDoc
    <3> HIDE DEF h
    <3> QED
      BY <2>0, <2>4, <3>1, <3>2, ReadKeeps DEF LeadInHand, MayPassOn, ReadReschedule, h
  <2>5. CASE ReadReschedulePick(c)
    <3>1. PICK l \in Leads, s \in menu[c] :
            Begin(c, [At("resched_claim", l) EXCEPT !.ref = lead[l].slot, !.claim = s])
      BY <2>5 DEF ReadReschedulePick, Newest, OfChat
    <3> DEFINE h == [At("resched_claim", l) EXCEPT !.ref = lead[l].slot, !.claim = s]
    <3>2. h \in Handler /\ h.at = "resched_claim" /\ h.job = l
      BY DEF At, Idle, Handler, Steps, Status, TypeOK, LeadDoc
    <3> HIDE DEF h
    <3> QED
      BY <2>0, <2>5, <3>1, <3>2, ReadKeeps DEF LeadInHand, MayPassOn, ReadReschedulePick, h
  <2>6. CASE ReadIntake(c)
    <3>0. UNCHANGED <<lead, newer, taken, chat, menu, pages, crashes>>
      BY <2>6 DEF ReadIntake
    <3>1. CASE \E l \in Leads : Begin(c, At("intake_match", l))
      BY <1>1, <2>0, <3>0, <3>1 DEF Steps
    <3>2. CASE \E l \in Leads : Begin(c, [At("deal_write", l) EXCEPT !.pick = lead[l].pro])
      <4>1. PICK l \in Leads : Begin(c, [At("deal_write", l) EXCEPT !.pick = lead[l].pro])
        BY <3>2
      <4> DEFINE h == [At("deal_write", l) EXCEPT !.pick = lead[l].pro]
      <4>2. h \in Handler /\ h.at = "deal_write" /\ h.job = l
        BY DEF At, Idle, Handler, Steps, Status, TypeOK, LeadDoc
      <4> HIDE DEF h
      <4> QED
        BY <2>0, <3>0, <4>1, <4>2, ReadKeeps DEF LeadInHand, MayPassOn, h
    <3>3. CASE Begin(c, At("intake_upsert", NoLead))
      <4>1. At("intake_upsert", NoLead) \in Handler /\ At("intake_upsert", NoLead).at = "intake_upsert"
        BY AtType DEF At, Idle, Steps
      <4> QED
        BY <2>0, <3>0, <3>3, <4>1, ReadKeeps DEF LeadInHand, MayPassOn
    <3> QED
      BY <2>6, <3>1, <3>2, <3>3 DEF ReadIntake, Newest, OfChat
  <2> QED
    BY <1>5, <2>1, <2>2, <2>3, <2>4, <2>5, <2>6 DEF CustomerReads
<1>6. ASSUME NEW l \in Leads, ReadStale(l) \/ ReadUnoffered(l) \/ ReadWizardLead(l)
      PROVE  WellFormed'
  <2>1. Healer \in Actors /\ Sla \in Actors /\ Admin \in Actors
    BY DEF Actors
  <2> QED
    BY <1>1, <1>3, <1>6, <2>1 DEF ReadStale, ReadUnoffered, ReadWizardLead, Steps
<1> QED
  BY <1>4, <1>5, <1>6

\* The data that a step writes is well formed: what is left to show of a step.
DataKeeps ==
    /\ lead' \in [Leads -> LeadDoc] /\ newer' \subseteq Leads \X Leads
    /\ taken' \in [Slots -> BOOLEAN] /\ chat' \in [Customers -> ChatState]
    /\ menu' \in [Customers -> SUBSET Slots] /\ pages' \in [Leads -> Nat]
    /\ crashes' \in 0..MaxCrashes
    /\ ReassignmentBound'

\* A step that replaces one document by a well-formed one
LEMMA DocKeeps ==
    ASSUME WellFormed, NEW l \in Leads, NEW d \in LeadDoc, d.count <= MaxReassignments,
           lead' = [lead EXCEPT ![l] = d]
    PROVE  lead' \in [Leads -> LeadDoc] /\ ReassignmentBound'
BY DEF WellFormed, TypeOK, ReassignmentBound

\* What the writes of two fields leave of a document
LEMMA StatusAndPro ==
    ASSUME NEW d \in LeadDoc, NEW st \in Status, NEW p \in Pros
    PROVE  /\ [d EXCEPT !.status = st, !.pro = p] \in LeadDoc
           /\ [d EXCEPT !.status = st, !.pro = p].count = d.count
BY DEF LeadDoc

LEMMA StatusAndReason ==
    ASSUME NEW d \in LeadDoc, NEW st \in Status, NEW e \in BOOLEAN
    PROVE  /\ [d EXCEPT !.status = st, !.exhausted = e] \in LeadDoc
           /\ [d EXCEPT !.status = st, !.exhausted = e].count = d.count
BY DEF LeadDoc

LEMMA CountOf == ASSUME WellFormed, NEW l \in Leads
                 PROVE  lead[l] \in LeadDoc /\ lead[l].count <= MaxReassignments
BY DEF WellFormed, TypeOK, ReassignmentBound

LEMMA OneField ==
    ASSUME NEW d \in LeadDoc
    PROVE  /\ \A st \in Status :
                [d EXCEPT !.status = st] \in LeadDoc /\ [d EXCEPT !.status = st].count = d.count
           /\ \A p \in Pros \cup {NoPro} :
                [d EXCEPT !.pro = p] \in LeadDoc /\ [d EXCEPT !.pro = p].count = d.count
           /\ \A s \in Slots \cup {NoSlot} :
                [d EXCEPT !.slot = s] \in LeadDoc /\ [d EXCEPT !.slot = s].count = d.count
           /\ \A e \in BOOLEAN :
                [d EXCEPT !.offered = e] \in LeadDoc /\ [d EXCEPT !.offered = e].count = d.count
<1> USE DEF LeadDoc
<1>1. ASSUME NEW st \in Status
      PROVE  [d EXCEPT !.status = st] \in LeadDoc /\ [d EXCEPT !.status = st].count = d.count
  OBVIOUS
<1>2. ASSUME NEW p \in Pros \cup {NoPro}
      PROVE  [d EXCEPT !.pro = p] \in LeadDoc /\ [d EXCEPT !.pro = p].count = d.count
  OBVIOUS
<1>3. ASSUME NEW s \in Slots \cup {NoSlot}
      PROVE  [d EXCEPT !.slot = s] \in LeadDoc /\ [d EXCEPT !.slot = s].count = d.count
  OBVIOUS
<1>4. ASSUME NEW e \in BOOLEAN
      PROVE  [d EXCEPT !.offered = e] \in LeadDoc /\ [d EXCEPT !.offered = e].count = d.count
  OBVIOUS
<1> HIDE DEF LeadDoc
<1> QED
  BY <1>1, <1>2, <1>3, <1>4

\* A step that writes one field other than the count
LEMMA FieldKeeps ==
    ASSUME WellFormed, NEW l \in Leads,
           \/ \E st \in Status : lead' = [lead EXCEPT ![l].status = st]
           \/ \E p \in Pros \cup {NoPro} : lead' = [lead EXCEPT ![l].pro = p]
           \/ \E s \in Slots \cup {NoSlot} : lead' = [lead EXCEPT ![l].slot = s]
           \/ \E e \in BOOLEAN : lead' = [lead EXCEPT ![l].offered = e]
    PROVE  lead' \in [Leads -> LeadDoc] /\ ReassignmentBound'
<1>1. lead[l] \in LeadDoc /\ lead[l].count <= MaxReassignments
  BY CountOf
<1>2. PICK d \in LeadDoc : d.count = lead[l].count /\ lead' = [lead EXCEPT ![l] = d]
  BY <1>1, OneField
<1> QED
  BY <1>1, <1>2, DocKeeps

LEMMA TakeOverType ==
    ASSUME WellFormed, NEW l \in Leads, NEW p \in Pros, TakeOver(l, p)
    PROVE  /\ lead' \in [Leads -> LeadDoc] /\ ReassignmentBound'
           /\ newer' \subseteq Leads \X Leads
           /\ pages' \in [Leads -> Nat]
<1> DEFINE d == [lead[l] EXCEPT !.status = "new", !.pro = p, !.count = 0,
                                !.exhausted = FALSE, !.offered = FALSE]
<1>0. lead[l] \in LeadDoc
  BY DEF WellFormed, TypeOK
<1>1. d \in LeadDoc /\ d.count <= MaxReassignments
  <2>1. d \in LeadDoc
    BY <1>0 DEF LeadDoc, Status
  <2>2. d.count = 0
    BY <1>0 DEF LeadDoc
  <2> QED
    BY <2>1, <2>2, BoundsAssumption
<1>2. lead' = [lead EXCEPT ![l] = d]
  BY TakeOverWrites
<1>3. newer' \subseteq Leads \X Leads
  BY TouchType DEF TakeOver, WellFormed
<1>4. pages' \in [Leads -> Nat]
  BY DEF TakeOver, WellFormed, TypeOK
<1> HIDE DEF d
<1> QED
  BY <1>1, <1>2, <1>3, <1>4, DocKeeps

LEMMA GotoKeeps ==
    ASSUME WellFormed, NEW a \in Actors,
           NEW st \in Steps \ {"reassign_match", "reassign_give"},
           Goto(a, st), run[a].job \in Leads, DataKeeps
    PROVE  WellFormed'
<1> DEFINE h == [run[a] EXCEPT !.at = st]
<1>1. h \in Handler /\ h.at = st /\ h.job = run[a].job
  BY DEF WellFormed, TypeOK, Handler
<1>2. run' = [run EXCEPT ![a] = h]
  BY DEF Goto, WellFormed, TypeOK
<1> HIDE DEF h
<1> QED
  BY <1>1, <1>2, StepKeeps DEF LeadInHand, MayPassOn, DataKeeps

LEMMA ReturnKeeps ==
    ASSUME WellFormed, NEW a \in Actors, Return(a), DataKeeps
    PROVE  WellFormed'
<1>1. Idle \in Handler /\ LeadInHand(Idle) /\ MayPassOn(Idle)
  BY IdleType DEF Idle, LeadInHand, MayPassOn
<1> QED
  BY <1>1, StepKeeps DEF Return, DataKeeps

LEMMA ProStepsKeep ==
    ASSUME WellFormed, NEW p \in Pros, ProStep(p)
    PROVE  WellFormed'
<1>0. p \in Actors /\ LeadInHand(run[p]) /\ run[p] \in Handler
  BY DEF Actors, WellFormed, TypeOK
<1> USE DEF WellFormed, TypeOK
<1>1. CASE ApproveBook(p)
  <2>1. DataKeeps
    <3> DEFINE d == [lead[run[p].job] EXCEPT !.status = "booked", !.pro = p]
    <3>1. run[p].job \in Leads
      BY <1>0, <1>1 DEF ApproveBook, LeadInHand
    <3>2. d \in LeadDoc /\ d.count <= MaxReassignments
      <4>1. lead[run[p].job] \in LeadDoc /\ lead[run[p].job].count <= MaxReassignments
        BY <3>1, CountOf
      <4>2. "booked" \in Status
        BY DEF Status
      <4> HIDE DEF WellFormed, TypeOK
      <4> QED
        BY <4>1, <4>2, StatusAndPro
    <3>3. lead' = [lead EXCEPT ![run[p].job] = d]
      BY <1>1, ApproveBookWrites
    <3> HIDE DEF d
    <3> QED
      BY <1>1, <3>1, <3>2, <3>3, DocKeeps DEF ApproveBook, DataKeeps
  <2> QED
    BY <1>0, <1>1, <2>1, GotoKeeps DEF ApproveBook, LeadInHand, Steps
<1>2. CASE ApproveClaim(p)
  <2>1. CASE Goto(p, "release") /\ UNCHANGED taken
    <3>1. DataKeeps
      BY <1>2, <2>1 DEF ApproveClaim, DataKeeps, ReassignmentBound
    <3> QED
      BY <1>0, <1>2, <2>1, <3>1, GotoKeeps DEF ApproveClaim, LeadInHand, Steps
  <2>2. ASSUME NEW s \in Slots, taken' = [taken EXCEPT ![s] = TRUE],
               run' = [run EXCEPT ![p].at = "approve_record", ![p].claim = s]
        PROVE  WellFormed'
    <3> DEFINE h == [run[p] EXCEPT !.at = "approve_record", !.claim = s]
    <3>1. h \in Handler /\ h.at = "approve_record" /\ h.job = run[p].job
      <4> HIDE DEF WellFormed, TypeOK
      <4>1. "approve_record" \in Steps
        BY DEF Steps
      <4> QED
        BY <1>0, <4>1 DEF Handler
    <3>2. run' = [run EXCEPT ![p] = h]
      BY <1>0, <2>2
    <3>3. DataKeeps
      BY <1>2, <2>2 DEF ApproveClaim, DataKeeps, ReassignmentBound
    <3> HIDE DEF h
    <3> QED
      BY <1>0, <1>2, <3>1, <3>2, <3>3, StepKeeps
      DEF ApproveClaim, LeadInHand, MayPassOn, DataKeeps
  <2> QED
    BY <1>2, <2>1, <2>2 DEF ApproveClaim
<1>3. CASE ApproveRecord(p)
  <2> DEFINE h == [run[p] EXCEPT !.at = "release", !.claim = NoSlot]
  <2>1. h \in Handler /\ h.at = "release" /\ h.job = run[p].job
    <3> HIDE DEF WellFormed, TypeOK
    <3>1. "release" \in Steps
      BY DEF Steps
    <3> QED
      BY <1>0, <3>1 DEF Handler
  <2>2. run' = [run EXCEPT ![p] = h]
    BY <1>0, <1>3 DEF ApproveRecord
  <2>3. run[p].claim \in Slots \cup {NoSlot}
    BY <1>0 DEF Handler
  <2>4. DataKeeps
    BY <1>0, <1>3, <2>3, FieldKeeps DEF ApproveRecord, LeadInHand, DataKeeps
  <2> HIDE DEF h
  <2> QED
    BY <1>0, <1>3, <2>1, <2>2, <2>4, StepKeeps
    DEF ApproveRecord, LeadInHand, MayPassOn, DataKeeps
<1>4. CASE RejectWrite(p)
  <2>1. DataKeeps
    BY <1>0, <1>4, FieldKeeps DEF RejectWrite, SetStatus, LeadInHand, DataKeeps, Status
  <2> QED
    BY <1>0, <1>4, <2>1, GotoKeeps DEF RejectWrite, LeadInHand, Steps
<1>5. CASE SearchWrite(p)
  <2>1. run[p].job \in Leads
    BY <1>0, <1>5 DEF SearchWrite, LeadInHand
  <2>2. DataKeeps
    BY <1>5, <2>1, TakeOverType DEF SearchWrite, DataKeeps
  <2> QED
    BY <1>0, <1>5, <2>2, ReturnKeeps DEF SearchWrite
<1> QED
  BY <1>1, <1>2, <1>3, <1>4, <1>5 DEF ProStep

LEMMA CloseStepsKeep ==
    ASSUME WellFormed, NEW a \in Actors, CloseStep(a)
    PROVE  WellFormed'
<1>0. LeadInHand(run[a])
  BY DEF WellFormed
<1> USE DEF WellFormed, TypeOK
<1>1. CASE CancelWrite(a)
  <2>1. DataKeeps
    BY <1>0, <1>1, FieldKeeps DEF CancelWrite, SetStatus, LeadInHand, DataKeeps, Status
  <2> QED
    BY <1>0, <1>1, <2>1, GotoKeeps DEF CancelWrite, LeadInHand, Steps
<1>2. CASE CancelFree(a)
  <2>1. DataKeeps
    BY <1>2 DEF CancelFree, DataKeeps, ReassignmentBound
  <2> QED
    BY <1>0, <1>2, <2>1, GotoKeeps DEF CancelFree, LeadInHand, Steps
<1>3. CASE FinishWrite(a)
  <2>1. DataKeeps
    BY <1>0, <1>3, FieldKeeps DEF FinishWrite, SetStatus, LeadInHand, DataKeeps, Status
  <2> QED
    BY <1>3, <2>1, ReturnKeeps DEF FinishWrite
<1>4. CASE Release(a)
  <2>1. DataKeeps
    BY <1>4 DEF Release, DataKeeps, ChatState, ReassignmentBound
  <2> QED
    BY <1>4, <2>1, ReturnKeeps DEF Release
<1> QED
  BY <1>1, <1>2, <1>3, <1>4 DEF CloseStep

LEMMA ReassignStepsKeep ==
    ASSUME WellFormed, NEW a \in Actors, ReassignSteps(a)
    PROVE  WellFormed'
<1>0. LeadInHand(run[a]) /\ MayPassOn(run[a]) /\ run[a] \in Handler
  BY DEF WellFormed, TypeOK
<1> USE DEF WellFormed, TypeOK
<1>1. CASE ReassignEscalate(a)
  <2> DEFINE l == run[a].job
  <2>1. CASE lead[l].status = run[a].seen
    <3>1. DataKeeps
      <4> DEFINE d == [lead[l] EXCEPT !.status = "pending_admin_review", !.exhausted = TRUE]
      <4>1. l \in Leads
        BY <1>0, <1>1 DEF ReassignEscalate, LeadInHand
      <4>2. d \in LeadDoc /\ d.count <= MaxReassignments
        BY <4>1, CountOf, StatusAndReason DEF Status
      <4>3. lead' = [lead EXCEPT ![l] = d]
        BY <1>1, <2>1, ReassignEscalateWrites
      <4>4. pages' \in [Leads -> Nat]
        BY <1>1, <2>1, <4>1 DEF ReassignEscalate
      <4> HIDE DEF d
      <4> QED
        BY <1>1, <4>1, <4>2, <4>3, <4>4, DocKeeps DEF ReassignEscalate, DataKeeps
    <3> QED
      BY <1>0, <1>1, <2>1, <3>1, GotoKeeps DEF ReassignEscalate, LeadInHand, Steps
  <2>2. CASE lead[l].status # run[a].seen
    <3>1. DataKeeps
      BY <1>1, <2>2 DEF ReassignEscalate, DataKeeps, ReassignmentBound
    <3> QED
      BY <1>1, <2>2, <3>1, ReturnKeeps DEF ReassignEscalate
  <2> QED
    BY <2>1, <2>2
<1>2. CASE ReassignNoLocation(a)
  <2>1. DataKeeps
    <3> DEFINE l == run[a].job
               d == [lead[l] EXCEPT !.status = "pending_admin_review", !.exhausted = FALSE]
    <3>1. l \in Leads
      BY <1>0, <1>2 DEF ReassignNoLocation, LeadInHand
    <3>2. d \in LeadDoc /\ d.count <= MaxReassignments
      BY <3>1, CountOf, StatusAndReason DEF Status
    <3>3. lead' = [lead EXCEPT ![l] = d]
      BY <1>2, ReassignNoLocationWrites
    <3> HIDE DEF d
    <3> QED
      BY <1>2, <3>1, <3>2, <3>3, DocKeeps DEF ReassignNoLocation, DataKeeps
  <2> QED
    BY <1>0, <1>2, <2>1, GotoKeeps DEF ReassignNoLocation, LeadInHand, Steps
<1>3. CASE ReassignMatch(a)
  <2>1. DataKeeps
    BY <1>3 DEF ReassignMatch, DataKeeps, ReassignmentBound
  <2>2. ASSUME NEW p \in Pros, run' = [run EXCEPT ![a].at = "reassign_give", ![a].pick = p]
        PROVE  WellFormed'
    <3> DEFINE h == [run[a] EXCEPT !.at = "reassign_give", !.pick = p]
    <3>1. /\ h \in Handler /\ h.at = "reassign_give"
          /\ h.job = run[a].job /\ h.count = run[a].count
      BY <1>0 DEF Handler, Steps
    <3>2. run' = [run EXCEPT ![a] = h]
      BY <2>2
    <3> HIDE DEF h
    <3> QED
      BY <1>0, <1>3, <2>1, <3>1, <3>2, StepKeeps
      DEF ReassignMatch, LeadInHand, MayPassOn, DataKeeps
  <2>3. CASE Goto(a, "reassign_give_up")
    BY <1>0, <1>3, <2>1, <2>3, GotoKeeps DEF ReassignMatch, LeadInHand, Steps
  <2> QED
    BY <1>3, <2>2, <2>3 DEF ReassignMatch
<1>4. CASE ReassignGive(a)
  <2>1. /\ run[a].job \in Leads /\ run[a].count + 1 \in Nat
        /\ run[a].count + 1 <= MaxReassignments /\ run[a].pick \in Pros \cup {NoPro}
    BY <1>0, <1>4, BoundsAssumption DEF ReassignGive, LeadInHand, MayPassOn, Handler
  <2>2. DataKeeps
    <3> DEFINE l == run[a].job
               d == [lead[l] EXCEPT !.status = "new", !.pro = run[a].pick,
                                    !.count = run[a].count + 1, !.offered = FALSE]
    <3>1. d \in LeadDoc /\ d.count <= MaxReassignments
      <4>1. lead[l] \in LeadDoc
        BY <2>1
      <4> DEFINE n == run[a].count + 1
                 q == run[a].pick
      <4> HIDE DEF n, q
      <4>2. [lead[l] EXCEPT !.status = "new", !.pro = q, !.count = n, !.offered = FALSE] \in LeadDoc
        BY <2>1, <4>1 DEF LeadDoc, Status, n, q
      <4> QED
        BY <2>1, <4>1, <4>2 DEF LeadDoc, n, q
    <3>2. lead' = [lead EXCEPT ![l] = d]
      BY <1>4, ReassignGiveWrites
    <3>3. newer' \subseteq Leads \X Leads
      BY <1>4, <2>1, TouchType DEF ReassignGive
    <3> HIDE DEF d
    <3> QED
      BY <1>4, <2>1, <3>1, <3>2, <3>3, DocKeeps DEF ReassignGive, DataKeeps
  <2> QED
    BY <1>4, <2>1, <2>2, GotoKeeps DEF ReassignGive, Steps
<1>5. CASE ReassignGiveUp(a)
  <2>1. DataKeeps
    BY <1>0, <1>5, FieldKeeps DEF ReassignGiveUp, SetStatus, LeadInHand, DataKeeps, Status
  <2> QED
    BY <1>0, <1>5, <2>1, GotoKeeps DEF ReassignGiveUp, LeadInHand, Steps
<1> QED
  BY <1>1, <1>2, <1>3, <1>4, <1>5 DEF ReassignSteps

LEMMA CustomerStepsKeep ==
    ASSUME WellFormed, NEW c \in Customers, CustomerStep(c) \/ RescheduleLeave(c) \/ StateExpires(c)
    PROVE  WellFormed'
<1>0. c \in Actors /\ LeadInHand(run[c]) /\ run[c] \in Handler
  BY DEF Actors, WellFormed, TypeOK
<1> USE DEF WellFormed, TypeOK
<1>1. CASE RescheduleOffer(c)
  <2>1. DataKeeps
    BY <1>1 DEF RescheduleOffer, DataKeeps, ChatState, ReassignmentBound
  <2> QED
    BY <1>0, <1>1, <2>1, ReturnKeeps DEF RescheduleOffer
<1>2. CASE RescheduleClaim(c)
  <2>1. DataKeeps
    BY <1>2 DEF RescheduleClaim, DataKeeps, ReassignmentBound
  <2>2. CASE Return(c)
    BY <1>0, <2>1, <2>2, ReturnKeeps
  <2>3. CASE Goto(c, IF run[c].ref = NoSlot THEN "resched_write" ELSE "resched_free")
    BY <1>0, <1>2, <2>1, <2>3, GotoKeeps DEF RescheduleClaim, LeadInHand, Steps
  <2> QED
    BY <1>2, <2>2, <2>3 DEF RescheduleClaim
<1>3. CASE RescheduleFree(c)
  <2>1. DataKeeps
    BY <1>3 DEF RescheduleFree, DataKeeps, ReassignmentBound
  <2> QED
    BY <1>0, <1>3, <2>1, GotoKeeps DEF RescheduleFree, LeadInHand, Steps
<1>4. CASE RescheduleWrite(c)
  <2>1. DataKeeps
    BY <1>0, <1>4, FieldKeeps DEF RescheduleWrite, LeadInHand, DataKeeps, Handler
  <2> QED
    BY <1>0, <1>4, <2>1, GotoKeeps DEF RescheduleWrite, LeadInHand, Steps
<1>5. CASE KeepWaiting(c)
  <2>1. DataKeeps
    BY <1>0, <1>5, FieldKeeps DEF KeepWaiting, LeadInHand, DataKeeps
  <2> QED
    BY <1>0, <1>5, <2>1, ReturnKeeps DEF KeepWaiting
<1>6. CASE IntakeUpsert(c)
  <2>1. PICK l \in Leads :
          /\ \/ UNCHANGED <<lead, newer>>
             \/ SetStatus(l, "contacted") /\ Touch(l)
          /\ run' = [run EXCEPT ![c].at = "intake_match", ![c].job = l]
    BY <1>6 DEF IntakeUpsert, OfChat
  <2>2. DataKeeps
    <3>1. lead' \in [Leads -> LeadDoc] /\ ReassignmentBound'
      <4>1. CASE UNCHANGED lead
        BY <4>1 DEF ReassignmentBound
      <4>2. CASE SetStatus(l, "contacted")
        BY <4>2, FieldKeeps DEF SetStatus, Status
      <4> QED
        BY <2>1, <4>1, <4>2
    <3>2. newer' \subseteq Leads \X Leads
      BY <2>1, TouchType
    <3> QED
      BY <1>6, <3>1, <3>2 DEF IntakeUpsert, DataKeeps
  <2> DEFINE h == [run[c] EXCEPT !.at = "intake_match", !.job = l]
  <2>3. h \in Handler /\ h.at = "intake_match" /\ h.job = l
    BY <1>0 DEF Handler, Steps
  <2>4. run' = [run EXCEPT ![c] = h]
    BY <1>0, <2>1
  <2> HIDE DEF h
  <2> QED
    BY <1>0, <2>2, <2>3, <2>4, StepKeeps DEF LeadInHand, MayPassOn, DataKeeps
<1>7. CASE IntakeMatch(c)
  <2>1. DataKeeps
    BY <1>7 DEF IntakeMatch, DataKeeps, ReassignmentBound
  <2>2. ASSUME NEW p \in Pros, run' = [run EXCEPT ![c].at = "intake_assign", ![c].pick = p]
        PROVE  WellFormed'
    <3> DEFINE h == [run[c] EXCEPT !.at = "intake_assign", !.pick = p]
    <3>1. h \in Handler /\ h.at = "intake_assign" /\ h.job = run[c].job
      BY <1>0 DEF Handler, Steps
    <3>2. run' = [run EXCEPT ![c] = h]
      BY <1>0, <2>2
    <3> HIDE DEF h
    <3> QED
      BY <1>0, <1>7, <2>1, <3>1, <3>2, StepKeeps
      DEF IntakeMatch, LeadInHand, MayPassOn, DataKeeps
  <2>3. CASE Goto(c, "intake_escalate")
    BY <1>0, <1>7, <2>1, <2>3, GotoKeeps DEF IntakeMatch, LeadInHand, Steps
  <2>4. CASE Return(c)
    BY <1>0, <2>1, <2>4, ReturnKeeps
  <2> QED
    BY <1>7, <2>2, <2>3, <2>4 DEF IntakeMatch
<1>8. CASE IntakeEscalate(c)
  <2>1. DataKeeps
    BY <1>0, <1>8, FieldKeeps DEF IntakeEscalate, SetStatus, LeadInHand, DataKeeps, Status
  <2> QED
    BY <1>0, <1>8, <2>1, ReturnKeeps DEF IntakeEscalate
<1>9. CASE IntakeAssign(c)
  <2>1. run[c].job \in Leads /\ run[c].pick \in Pros \cup {NoPro}
    BY <1>0, <1>9 DEF IntakeAssign, LeadInHand, Handler
  <2>2. DataKeeps
    BY <1>9, <2>1, FieldKeeps DEF IntakeAssign, DataKeeps
  <2>3. CASE Goto(c, "deal_write")
    BY <1>0, <2>1, <2>2, <2>3, GotoKeeps DEF Steps
  <2>4. CASE Return(c)
    BY <1>0, <2>2, <2>4, ReturnKeeps
  <2> QED
    BY <1>9, <2>3, <2>4 DEF IntakeAssign
<1>10. CASE DealWrite(c)
  <2>1. run[c].job \in Leads /\ run[c].pick \in Pros \cup {NoPro}
    BY <1>0, <1>10 DEF DealWrite, LeadInHand, Handler
  <2>2. DataKeeps
    <3> DEFINE d == [lead[run[c].job] EXCEPT !.status = "new", !.pro = run[c].pick, !.offered = FALSE]
    <3>0. lead[run[c].job] \in LeadDoc
      BY <2>1
    <3>1. d \in LeadDoc
      BY <2>1, <3>0 DEF LeadDoc, Status
    <3>2. d.count <= MaxReassignments
      BY <2>1, <3>0 DEF LeadDoc, ReassignmentBound
    <3>3. lead' = [lead EXCEPT ![run[c].job] = d]
      BY <1>10, DealWriteWrites
    <3> HIDE DEF d
    <3> QED
      BY <1>10, <2>1, <3>1, <3>2, <3>3, DocKeeps DEF DealWrite, DataKeeps
  <2> QED
    BY <1>0, <1>10, <2>1, <2>2, GotoKeeps DEF DealWrite, Steps
<1>11. CASE DealPark(c)
  <2>1. DataKeeps
    BY <1>11 DEF DealPark, DataKeeps, ChatState, ReassignmentBound
  <2> QED
    BY <1>0, <1>11, <2>1, ReturnKeeps DEF DealPark
<1>12. CASE RescheduleLeave(c) \/ StateExpires(c)
  BY <1>12 DEF RescheduleLeave, StateExpires, ChatState, ReassignmentBound
<1> QED
  BY <1>1, <1>2, <1>3, <1>4, <1>5, <1>6, <1>7, <1>8, <1>9, <1>10, <1>11, <1>12 DEF CustomerStep

LEMMA OtherStepsKeep ==
    ASSUME WellFormed,
           \/ OfferClaim \/ WizardLeave
           \/ \E p \in Pros : WizardAssign(p)
           \/ \E a \in Actors : Crash(a)
    PROVE  WellFormed'
<1>0. Sla \in Actors /\ Admin \in Actors /\ LeadInHand(run[Admin]) /\ LeadInHand(run[Sla])
  BY DEF Actors, WellFormed
<1> USE DEF WellFormed, TypeOK
<1>1. CASE OfferClaim
  <2>1. DataKeeps
    <3>1. run[Sla].job \in Leads
      BY <1>0, <1>1 DEF OfferClaim, LeadInHand
    <3>2. lead' \in [Leads -> LeadDoc] /\ ReassignmentBound'
      <4>1. CASE UNCHANGED lead
        BY <4>1 DEF ReassignmentBound
      <4>2. CASE lead' = [lead EXCEPT ![run[Sla].job].offered = TRUE]
        BY <3>1, <4>2, FieldKeeps
      <4> QED
        BY <1>1, <4>1, <4>2 DEF OfferClaim
    <3> QED
      BY <1>1, <3>2 DEF OfferClaim, DataKeeps
  <2> QED
    BY <1>0, <1>1, <2>1, ReturnKeeps DEF OfferClaim
<1>2. CASE WizardLeave
  <2>1. DataKeeps
    BY <1>2 DEF WizardLeave, DataKeeps, ReassignmentBound
  <2> QED
    BY <1>0, <1>2, <2>1, ReturnKeeps DEF WizardLeave
<1>3. ASSUME NEW p \in Pros, WizardAssign(p) PROVE WellFormed'
  <2>1. run[Admin].job \in Leads
    BY <1>0, <1>3 DEF WizardAssign, LeadInHand
  <2>2. DataKeeps
    BY <1>3, <2>1, TakeOverType DEF WizardAssign, DataKeeps
  <2> QED
    BY <1>0, <1>3, <2>2, ReturnKeeps DEF WizardAssign
<1>4. ASSUME NEW a \in Actors, Crash(a) PROVE WellFormed'
  <2>1. crashes' \in 0..MaxCrashes
    BY <1>4, BoundsAssumption DEF Crash
  <2>2. DataKeeps
    BY <1>4, <2>1 DEF Crash, DataKeeps, ReassignmentBound
  <2> QED
    BY <1>4, <2>2, ReturnKeeps DEF Crash
<1> QED
  BY <1>1, <1>2, <1>3, <1>4

LEMMA NextKeeps == WellFormed /\ [Next]_vars => WellFormed'
<1> SUFFICES ASSUME WellFormed, [Next]_vars PROVE WellFormed'
  OBVIOUS
<1>1. CASE UNCHANGED vars
  BY <1>1 DEF vars, WellFormed, TypeOK, ReassignmentBound
<1>2. CASE Next
  BY <1>2, ReadsKeep, ProStepsKeep, CustomerStepsKeep, CloseStepsKeep, ReassignStepsKeep,
     OtherStepsKeep DEF Next
<1> QED
  BY <1>1, <1>2

LEMMA AlwaysWellFormed == Spec => []WellFormed
BY InitWellFormed, NextKeeps, PTL DEF Spec

(* Whoever overlaps and whatever dies, every document, state key and       *)
(* handler keeps its shape.                                                *)
THEOREM TypeCorrect == Spec => []TypeOK
<1>1. WellFormed => TypeOK
  BY DEF WellFormed
<1> QED
  BY <1>1, AlwaysWellFormed, PTL

(* monitor_service.reassign_lead never passes a lead on more than          *)
(* MAX_REASSIGNMENTS times, although it writes a count it read before its  *)
(* awaits: the count it read was below the limit when it chose to go on.   *)
THEOREM ReassignmentBounded == Spec => []ReassignmentBound
<1>1. WellFormed => ReassignmentBound
  BY DEF WellFormed
<1> QED
  BY <1>1, AlwaysWellFormed, PTL

=============================================================================
