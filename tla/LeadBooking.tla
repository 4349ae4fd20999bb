------------------------------ MODULE LeadBooking ------------------------------
(***************************************************************************)
(* The life of a lead and of the calendar slot it reserves.                *)
(*                                                                         *)
(* A lead is one document of leads_collection, a slot one document of      *)
(* slots_collection.  They are written by handlers that run as coroutines: *)
(* the ARQ jobs of the customers' and the pros' messages, the scheduler's  *)
(* Healer and approval-SLA sweeps, and the admin wizard.  A handler reads  *)
(* a lead, awaits, and writes by _id what it decided from what it read, so *)
(* every database call below is a step of its own and run[a] keeps the     *)
(* part of the document that actor a still holds in hand.                  *)
(*                                                                         *)
(* Messages of one chat are handled one at a time (the chat lock of        *)
(* arq_worker), and so are the ticks of one scheduler job: an actor runs   *)
(* one handler at a time.  Nothing in the code orders handlers of          *)
(* DIFFERENT actors that work on the same lead: the program as it is has   *)
(* Overlap = Actors, and a smaller set restricts the model to executions   *)
(* where at most the handlers of those actors meet on a lead.              *)
(***************************************************************************)
EXTENDS Naturals, FiniteSets

CONSTANTS
    Customers,         \* chat ids of customers
    Pros,              \* _ids of professionals
    Leads,             \* the lead documents that can be inserted
    Slots,             \* the calendar slots
    SlotPro,           \* SlotPro[s]: the pro whose calendar holds s
    Healer, Sla, Admin,  \* the two sweeps and the admin wizard
    NoLead, NoPro, NoSlot,
    MaxReassignments,  \* WorkerConstants.MAX_REASSIGNMENTS
    Overlap,           \* the actors whose handlers may work on one lead at once
    MaxInFlight,       \* bound: handlers in flight at the same time
    MaxCrashes         \* bound: handlers that die between two of their steps

ASSUME SlotProAssumption == SlotPro \in [Slots -> Pros]
ASSUME BoundsAssumption ==
    /\ MaxReassignments \in Nat \ {0}
    /\ MaxInFlight \in Nat \ {0}
    /\ MaxCrashes \in Nat
ASSUME NullsAssumption == NoLead \notin Leads /\ NoPro \notin Pros /\ NoSlot \notin Slots

Actors == Customers \cup Pros \cup {Healer, Sla, Admin}

VARIABLES
    lead,      \* leads_collection: the document of each lead id
    newer,     \* <<l, m>> \in newer: l.created_at is later than m.created_at
    taken,     \* slots_collection: is_taken of each slot
    chat,      \* the customer's FSM state in Redis
    menu,      \* reschedule_slots_context of the customer's state metadata
    run,       \* the handler each actor is running
    pages,     \* history: exhausted-reassignment notices of a lead since the
               \* last time a pro or an admin took it over
    crashes    \* handlers that have died so far

vars == <<lead, newer, taken, chat, menu, run, pages, crashes>>

-----------------------------------------------------------------------------
(* State *)

Active  == {"new", "contacted"}
Status  == {"absent", "contacted", "new", "booked", "completed", "rejected",
            "cancelled", "pending_admin_review"}
ChatState == {"idle", "awaiting_pro_approval", "awaiting_reschedule_time"}

LeadDoc == [chat: Customers, status: Status, pro: Pros \cup {NoPro},
            slot: Slots \cup {NoSlot},     \* booked_slot_id
            count: Nat,                    \* reassignment_count
            exhausted: BOOLEAN,            \* escalation_reason = "max_reassignments_exhausted"
            offered: BOOLEAN]              \* reassign_offered

Steps == {"idle",
          "approve_book", "approve_claim", "approve_record",
          "reject_write",
          "cancel_write", "cancel_free",
          "finish_write",
          "resched_offer", "resched_claim", "resched_free", "resched_write",
          "reassign_escalate", "reassign_no_location", "reassign_match",
          "reassign_give", "reassign_give_up",
          "keep_waiting", "offer_claim",
          "search_write", "wizard_assign",
          "intake_upsert", "intake_match", "intake_assign", "intake_escalate",
          "deal_write", "deal_park",
          "release"}

(* What a handler keeps between two awaits: its next step, the _id of the  *)
(* lead it works on, and those fields of the document it read that it uses *)
(* later: booked_slot_id, status, reassignment_count and pro_id.           *)
Handler == [at: Steps, job: Leads \cup {NoLead}, ref: Slots \cup {NoSlot},
            claim: Slots \cup {NoSlot},    \* the slot it asks for, then holds
            seen: Status,
            count: Nat, from: Pros \cup {NoPro},
            pick: Pros \cup {NoPro}]

Idle == [at |-> "idle", job |-> NoLead, ref |-> NoSlot, claim |-> NoSlot,
         seen |-> "absent", count |-> 0, from |-> NoPro, pick |-> NoPro]

Init ==
    /\ \E who \in [Leads -> Customers] :
         lead = [l \in Leads |->
                   [chat |-> who[l], status |-> "absent", pro |-> NoPro,
                    slot |-> NoSlot, count |-> 0, exhausted |-> FALSE,
                    offered |-> FALSE]]
    /\ newer = {}
    /\ taken = [s \in Slots |-> FALSE]
    /\ chat = [c \in Customers |-> "idle"]
    /\ menu = [c \in Customers |-> {}]
    /\ run = [a \in Actors |-> Idle]
    /\ pages = [l \in Leads |-> 0]
    /\ crashes = 0

-----------------------------------------------------------------------------
(* Reads *)

\* find_one(..., sort=[("created_at", -1)]): the latest of the set
Newest(S) == {l \in S : \A m \in S : <<m, l>> \notin newer}

\* find_one(..., sort=[("created_at", 1)])
Oldest(S) == {l \in S : \A m \in S : <<l, m>> \notin newer}

OfChat(c, statuses) == {l \in Leads : lead[l].chat = c /\ lead[l].status \in statuses}
OfPro(p, statuses)  == {l \in Leads : lead[l].pro = p /\ lead[l].status \in statuses}

\* An admin who has picked a lead but not yet a pro is not a running handler.
InFlight == {a \in Actors \ {Admin} : run[a].at # "idle"}

\* a may work on l: nobody else does, or only actors that a may overlap with
MayTake(a, l) ==
    \A b \in Actors : run[b].job = l /\ l # NoLead => {a, b} \subseteq Overlap

\* A handler of step st that has read lead l.
At(st, l) == [Idle EXCEPT !.at = st, !.job = l]

\* Actor a, with nothing in flight, starts handler h.
Begin(a, h) ==
    /\ run[a] = Idle
    /\ Cardinality(InFlight) < MaxInFlight
    /\ MayTake(a, h.job)
    /\ run' = [run EXCEPT ![a] = h]

(* Writes *)

Goto(a, step) == run' = [run EXCEPT ![a].at = step]
Return(a)     == run' = [run EXCEPT ![a] = Idle]

\* Mutant: a spelling of the status that no query looks for.
MisspeltStatus(l, st) ==
    lead' = [lead EXCEPT ![l].status = IF st = "cancelled" THEN "canceled" ELSE st]

\* set_lead_status without expected_status: writes whatever the document holds now
SetStatus(l, st) == lead' = [lead EXCEPT ![l].status = st]

\* "created_at": now
Touch(l) == newer' = {q \in newer : q[1] # l /\ q[2] # l}
                       \cup {<<l, m>> : m \in {k \in Leads \ {l} : lead[k].status # "absent"}}

-----------------------------------------------------------------------------
(* The pro: approve, reject, finish, cancel, search *)

ReadApprove(p) ==
    /\ \E l \in Newest(OfPro(p, {"new"})) : Begin(p, At("approve_book", l))
    /\ UNCHANGED <<lead, newer, taken, chat, menu, pages, crashes>>

\* update_lead_status(lead, BOOKED, pro_id): unconditional, also of pro_id
ApproveBook(p) ==
    /\ run[p].at = "approve_book"
    /\ lead' = [lead EXCEPT ![run[p].job].status = "booked", ![run[p].job].pro = p]
    /\ Goto(p, "approve_claim")
    /\ UNCHANGED <<newer, taken, chat, menu, pages, crashes>>

\* Mutant: find_one, then update_one by _id: the slot may be taken by now.
ClaimWithoutGuard(p) ==
    /\ run[p].at = "approve_claim"
    /\ \E s \in Slots :
         /\ SlotPro[s] = p
         /\ taken' = [taken EXCEPT ![s] = TRUE]
         /\ run' = [run EXCEPT ![p].at = "approve_record", ![p].claim = s]
    /\ UNCHANGED <<lead, newer, chat, menu, pages, crashes>>

\* book_slot_for_lead: one atomic find_one_and_update; none may be in the window
ApproveClaim(p) ==
    /\ run[p].at = "approve_claim"
    /\ \/ \E s \in Slots :
            /\ SlotPro[s] = p /\ ~taken[s]
            /\ taken' = [taken EXCEPT ![s] = TRUE]
            /\ run' = [run EXCEPT ![p].at = "approve_record", ![p].claim = s]
       \/ Goto(p, "release") /\ UNCHANGED taken
    /\ UNCHANGED <<lead, newer, chat, menu, pages, crashes>>

ApproveRecord(p) ==
    /\ run[p].at = "approve_record"
    /\ lead' = [lead EXCEPT ![run[p].job].slot = run[p].claim]
    /\ run' = [run EXCEPT ![p].at = "release", ![p].claim = NoSlot]
    /\ UNCHANGED <<newer, taken, chat, menu, pages, crashes>>

ReadReject(p) ==
    /\ \E l \in Newest(OfPro(p, {"new"})) : Begin(p, At("reject_write", l))
    /\ UNCHANGED <<lead, newer, taken, chat, menu, pages, crashes>>

\* Mutant: the customer's state is not cleared.
RejectAndForget(p) ==
    /\ run[p].at = "reject_write"
    /\ SetStatus(run[p].job, "rejected")
    /\ Return(p)
    /\ UNCHANGED <<newer, taken, chat, menu, pages, crashes>>

RejectWrite(p) ==
    /\ run[p].at = "reject_write"
    /\ SetStatus(run[p].job, "rejected")
    /\ Goto(p, "release")
    /\ UNCHANGED <<newer, taken, chat, menu, pages, crashes>>

\* With several booked jobs the handler only shows a menu and changes no lead.
OnlyBookedJob(p) == {l \in OfPro(p, {"booked"}) : OfPro(p, {"booked"}) = {l}}

ReadFinish(p) ==
    /\ \E l \in OnlyBookedJob(p) : Begin(p, At("finish_write", l))
    /\ UNCHANGED <<lead, newer, taken, chat, menu, pages, crashes>>

ReadProCancel(p) ==
    /\ \E l \in OnlyBookedJob(p) : Begin(p, [At("cancel_write", l) EXCEPT !.ref = lead[l].slot])
    /\ UNCHANGED <<lead, newer, taken, chat, menu, pages, crashes>>

ReadSearch(p) ==
    /\ \E l \in Oldest({k \in Leads : lead[k].status = "pending_admin_review"}) :
         Begin(p, At("search_write", l))
    /\ UNCHANGED <<lead, newer, taken, chat, menu, pages, crashes>>

\* Mutant: the takeover of before PRO-63, without the reset.
TakeOverWithoutReset(l, p) ==
    /\ lead' = [lead EXCEPT ![l].status = "new", ![l].pro = p, ![l].offered = FALSE]
    /\ pages' = [pages EXCEPT ![l] = 0]
    /\ Touch(l)

\* A takeover: the reset that the pro's search and the admin's wizard share.
TakeOver(l, p) ==
    /\ lead' = [lead EXCEPT ![l].status = "new", ![l].pro = p, ![l].count = 0,
                            ![l].exhausted = FALSE, ![l].offered = FALSE]
    /\ pages' = [pages EXCEPT ![l] = 0]
    /\ Touch(l)

SearchWrite(p) ==
    /\ run[p].at = "search_write"
    /\ TakeOver(run[p].job, p)
    /\ Return(p)
    /\ UNCHANGED <<taken, chat, menu, crashes>>

-----------------------------------------------------------------------------
(* The end of a booking, by either side *)

ReadCustomerCancel(c) ==
    /\ chat[c] = "idle"
    /\ \E l \in Newest(OfChat(c, {"booked"})) : Begin(c, [At("cancel_write", l) EXCEPT !.ref = lead[l].slot])
    /\ UNCHANGED <<lead, newer, taken, chat, menu, pages, crashes>>

\* Mutant: the status is written, the slot is never released.
CancelWithoutRelease(a) ==
    /\ run[a].at = "cancel_write"
    /\ SetStatus(run[a].job, "cancelled")
    /\ Goto(a, "release")
    /\ UNCHANGED <<newer, taken, chat, menu, pages, crashes>>

\* The slot named by the document as it was READ is released, if there is one.
CancelWrite(a) ==
    /\ run[a].at = "cancel_write"
    /\ SetStatus(run[a].job, "cancelled")
    /\ Goto(a, IF run[a].ref = NoSlot THEN "release" ELSE "cancel_free")
    /\ UNCHANGED <<newer, taken, chat, menu, pages, crashes>>

\* update_one({"_id": booked_slot_id}, is_taken: False): by id, unconditional
CancelFree(a) ==
    /\ run[a].at = "cancel_free"
    /\ taken' = [taken EXCEPT ![run[a].ref] = FALSE]
    /\ Goto(a, "release")
    /\ UNCHANGED <<lead, newer, chat, menu, pages, crashes>>

ReadCustomerCompletion(c) ==
    /\ chat[c] = "idle"
    /\ \E l \in Newest(OfChat(c, {"booked"})) : Begin(c, At("finish_write", l))
    /\ UNCHANGED <<lead, newer, taken, chat, menu, pages, crashes>>

\* COMPLETED; the slot stays taken and the customer's state is left alone
FinishWrite(a) ==
    /\ run[a].at = "finish_write"
    /\ SetStatus(run[a].job, "completed")
    /\ Return(a)
    /\ UNCHANGED <<newer, taken, chat, menu, pages, crashes>>

\* StateManager.clear_state(lead["chat_id"]): state and metadata
Release(a) ==
    /\ run[a].at = "release"
    /\ chat' = [chat EXCEPT ![lead[run[a].job].chat] = "idle"]
    /\ menu' = [menu EXCEPT ![lead[run[a].job].chat] = {}]
    /\ Return(a)
    /\ UNCHANGED <<lead, newer, taken, pages, crashes>>

-----------------------------------------------------------------------------
(* The customer reschedules: an offer, then a pick *)

ReadReschedule(c) ==
    /\ chat[c] = "idle"
    /\ \E l \in Newest(OfChat(c, {"booked"})) :
         /\ lead[l].pro # NoPro
         /\ Begin(c, [At("resched_offer", l) EXCEPT !.from = lead[l].pro])
    /\ UNCHANGED <<lead, newer, taken, chat, menu, pages, crashes>>

\* The free slots of the pro that was read; the menu names neither lead nor pro.
RescheduleOffer(c) ==
    /\ run[c].at = "resched_offer"
    /\ LET free == {s \in Slots : SlotPro[s] = run[c].from /\ ~taken[s]}
       IN  IF free = {} THEN UNCHANGED <<chat, menu>>
           ELSE /\ chat' = [chat EXCEPT ![c] = "awaiting_reschedule_time"]
                /\ menu' = [menu EXCEPT ![c] = free]
    /\ Return(c)
    /\ UNCHANGED <<lead, newer, taken, pages, crashes>>

\* The customer backs out, or picks when no booked lead is left.
RescheduleLeave(c) ==
    /\ chat[c] = "awaiting_reschedule_time" /\ run[c] = Idle
    /\ chat' = [chat EXCEPT ![c] = "idle"]
    /\ menu' = [menu EXCEPT ![c] = {}]
    /\ UNCHANGED <<lead, newer, taken, run, pages, crashes>>

ReadReschedulePick(c) ==
    /\ chat[c] = "awaiting_reschedule_time"
    /\ \E l \in Newest(OfChat(c, {"booked"})), s \in menu[c] :
         Begin(c, [At("resched_claim", l) EXCEPT !.ref = lead[l].slot, !.claim = s])
    /\ UNCHANGED <<lead, newer, taken, chat, menu, pages, crashes>>

\* Mutant: the old slot is not released.
ClaimAndKeepOld(c) ==
    /\ run[c].at = "resched_claim"
    /\ IF taken[run[c].claim]
         THEN Return(c) /\ UNCHANGED taken
         ELSE /\ taken' = [taken EXCEPT ![run[c].claim] = TRUE]
              /\ Goto(c, "resched_write")
    /\ UNCHANGED <<lead, newer, chat, menu, pages, crashes>>

\* find_one_and_update on the chosen slot; a lost race keeps the menu open
RescheduleClaim(c) ==
    /\ run[c].at = "resched_claim"
    /\ IF taken[run[c].claim]
         THEN Return(c) /\ UNCHANGED taken
         ELSE /\ taken' = [taken EXCEPT ![run[c].claim] = TRUE]
              /\ Goto(c, IF run[c].ref = NoSlot THEN "resched_write" ELSE "resched_free")
    /\ UNCHANGED <<lead, newer, chat, menu, pages, crashes>>

\* Mutant: the new slot is released instead of the old one.
FreeTheWrongSlot(c) ==
    /\ run[c].at = "resched_free"
    /\ taken' = [taken EXCEPT ![run[c].claim] = FALSE]
    /\ Goto(c, "resched_write")
    /\ UNCHANGED <<lead, newer, chat, menu, pages, crashes>>

\* The old slot is released before the lead points at the new one.
RescheduleFree(c) ==
    /\ run[c].at = "resched_free"
    /\ taken' = [taken EXCEPT ![run[c].ref] = FALSE]
    /\ Goto(c, "resched_write")
    /\ UNCHANGED <<lead, newer, chat, menu, pages, crashes>>

RescheduleWrite(c) ==
    /\ run[c].at = "resched_write"
    /\ lead' = [lead EXCEPT ![run[c].job].slot = run[c].claim]
    /\ Goto(c, "release")
    /\ UNCHANGED <<newer, taken, chat, menu, pages, crashes>>

-----------------------------------------------------------------------------
(* reassign_lead: by the Healer's sweep, or by the customer who answers    *)
(* "1" to the approval-SLA offer                                           *)

\* Whether the lead may turn out to have no full_address.  It may as long as it
\* was never passed on; to be passed on it has one, and nothing takes it away.
MayLackLocation(l) == lead[l].count = 0

\* Mutant: one reassignment too many.
EscalateTooLate(l) ==
    IF lead[l].count > MaxReassignments
      THEN {"reassign_escalate"}
      ELSE {"reassign_match"} \cup {st \in {"reassign_no_location"} : MayLackLocation(l)}

\* The branch is decided by the document that was read, before any await.
ReassignStep(l) ==
    IF lead[l].count >= MaxReassignments
      THEN {"reassign_escalate"}
      ELSE {"reassign_match"} \cup {st \in {"reassign_no_location"} : MayLackLocation(l)}

BeginReassign(a, l) ==
    /\ ~(lead[l].count >= MaxReassignments /\ lead[l].exhausted)
    /\ \E st \in ReassignStep(l) :
         Begin(a, [At(st, l) EXCEPT !.seen = lead[l].status, !.count = lead[l].count,
                                    !.from = lead[l].pro])
    /\ UNCHANGED <<lead, newer, taken, chat, menu, pages, crashes>>

\* Mutant: the sweep's query lists BOOKED too.
ReadStaleOrBooked(l) ==
    lead[l].status \in Active \cup {"booked"} /\ BeginReassign(Healer, l)

\* A lead of the query {status in (NEW, CONTACTED), created_at older than the
\* SOS timeout}; how old it is is left open.  The sweep fetches its leads as one
\* list and handles them in turn: here each is fetched when its turn comes, or
\* any time before (nothing bounds the time between this step and the next).
ReadStale(l) == lead[l].status \in Active /\ BeginReassign(Healer, l)

ReadOfferAccepted(c) ==
    /\ chat[c] = "awaiting_pro_approval"
    /\ \E l \in Newest({k \in OfChat(c, {"new"}) : lead[k].offered}) : BeginReassign(c, l)

\* Mutant: the write is not conditional on the status that was read.
EscalateUnguarded(a) ==
    /\ run[a].at = "reassign_escalate"
    /\ LET l == run[a].job
       IN  /\ lead' = [lead EXCEPT ![l].status = "pending_admin_review",
                                    ![l].exhausted = TRUE]
           /\ pages' = [pages EXCEPT ![l] = @ + 1]
    /\ Goto(a, "release")
    /\ UNCHANGED <<newer, taken, chat, menu, crashes>>

\* expected_status = the status that was read; the loser does nothing more
ReassignEscalate(a) ==
    /\ run[a].at = "reassign_escalate"
    /\ LET l == run[a].job
       IN  IF lead[l].status = run[a].seen
             THEN /\ lead' = [lead EXCEPT ![l].status = "pending_admin_review",
                                          ![l].exhausted = TRUE]
                  /\ pages' = [pages EXCEPT ![l] = @ + 1]
                  /\ Goto(a, "release")
             ELSE Return(a) /\ UNCHANGED <<lead, pages>>
    /\ UNCHANGED <<newer, taken, chat, menu, crashes>>

\* escalation_reason becomes "no_usable_location"
ReassignNoLocation(a) ==
    /\ run[a].at = "reassign_no_location"
    /\ lead' = [lead EXCEPT ![run[a].job].status = "pending_admin_review",
                            ![run[a].job].exhausted = FALSE]
    /\ Goto(a, "release")
    /\ UNCHANGED <<newer, taken, chat, menu, pages, crashes>>

\* determine_best_pro(excluded = the pro that was read)
ReassignMatch(a) ==
    /\ run[a].at = "reassign_match"
    /\ \/ \E p \in Pros \ {run[a].from} :
            run' = [run EXCEPT ![a].at = "reassign_give", ![a].pick = p]
       \/ Goto(a, "reassign_give_up")
    /\ UNCHANGED <<lead, newer, taken, chat, menu, pages, crashes>>

\* NEW for the next pro, counted from the count that was READ
ReassignGive(a) ==
    /\ run[a].at = "reassign_give"
    /\ lead' = [lead EXCEPT ![run[a].job].status = "new",
                            ![run[a].job].pro = run[a].pick,
                            ![run[a].job].count = run[a].count + 1,
                            ![run[a].job].offered = FALSE]
    /\ Touch(run[a].job)
    /\ Goto(a, "release")
    /\ UNCHANGED <<taken, chat, menu, pages, crashes>>

ReassignGiveUp(a) ==
    /\ run[a].at = "reassign_give_up"
    /\ SetStatus(run[a].job, "pending_admin_review")
    /\ Goto(a, "release")
    /\ UNCHANGED <<newer, taken, chat, menu, pages, crashes>>

-----------------------------------------------------------------------------
(* The approval SLA's offer, and the customer who prefers to wait *)

ReadUnoffered(l) ==
    /\ lead[l].status = "new" /\ lead[l].pro # NoPro /\ ~lead[l].offered
    /\ chat[lead[l].chat] = "awaiting_pro_approval"
    /\ Begin(Sla, At("offer_claim", l))
    /\ UNCHANGED <<lead, newer, taken, chat, menu, pages, crashes>>

\* update_one({_id, status: NEW, reassign_offered: {$ne: True}})
OfferClaim ==
    /\ run[Sla].at = "offer_claim"
    /\ LET l == run[Sla].job
       IN  lead' = IF lead[l].status = "new"
                     THEN [lead EXCEPT ![l].offered = TRUE] ELSE lead
    /\ Return(Sla)
    /\ UNCHANGED <<newer, taken, chat, menu, pages, crashes>>

ReadOfferDeclined(c) ==
    /\ chat[c] = "awaiting_pro_approval"
    /\ \E l \in Newest({k \in OfChat(c, {"new"}) : lead[k].offered}) :
         Begin(c, At("keep_waiting", l))
    /\ UNCHANGED <<lead, newer, taken, chat, menu, pages, crashes>>

KeepWaiting(c) ==
    /\ run[c].at = "keep_waiting"
    /\ lead' = [lead EXCEPT ![run[c].job].offered = FALSE]
    /\ Return(c)
    /\ UNCHANGED <<newer, taken, chat, menu, pages, crashes>>

-----------------------------------------------------------------------------
(* The admin wizard: list, pick a lead, pick a pro.  The lead picked stays *)
(* in the wizard's metadata over several messages, from the time it was    *)
(* listed as stuck.                                                        *)

ReadWizardLead(l) ==
    /\ lead[l].status = "pending_admin_review"
    /\ Begin(Admin, At("wizard_assign", l))
    /\ UNCHANGED <<lead, newer, taken, chat, menu, pages, crashes>>

\* No expected_status: whatever happened to the lead since, it becomes NEW.
WizardAssign(p) ==
    /\ run[Admin].at = "wizard_assign"
    /\ TakeOver(run[Admin].job, p)
    /\ Return(Admin)
    /\ UNCHANGED <<taken, chat, menu, crashes>>

\* The admin cancels, or the wizard's state expires.
WizardLeave ==
    /\ run[Admin].at = "wizard_assign"
    /\ Return(Admin)
    /\ UNCHANGED <<lead, newer, taken, chat, menu, pages, crashes>>

-----------------------------------------------------------------------------
(* The customer's conversation: from a first message to a deal.  What the  *)
(* models answer is free: they may find a pro or none, close the deal or   *)
(* not.                                                                    *)

ReadIntake(c) ==
    /\ chat[c] = "idle"
    /\ \/ \E l \in Newest(OfChat(c, Active)) :
            \/ Begin(c, At("intake_match", l))           \* the dispatcher
            \/ /\ lead[l].pro # NoPro                    \* fast path: a deal with the
               /\ Begin(c, [At("deal_write", l)          \* pro already assigned
                              EXCEPT !.pick = lead[l].pro])
       \/ /\ OfChat(c, Active) = {}
          /\ OfChat(c, {"absent"}) # {}                \* bound: leads ever inserted
          /\ Begin(c, At("intake_upsert", NoLead))
    /\ UNCHANGED <<lead, newer, taken, chat, menu, pages, crashes>>

\* create_lead_from_dict: an atomic find-or-create of the unassigned CONTACTED lead
IntakeUpsert(c) ==
    /\ run[c].at = "intake_upsert"
    /\ LET found == {l \in OfChat(c, {"contacted"}) : lead[l].pro = NoPro}
       IN  \E l \in IF found # {} THEN found ELSE OfChat(c, {"absent"}) :
             /\ MayTake(c, l)
             /\ IF found # {} THEN UNCHANGED <<lead, newer>>
                ELSE SetStatus(l, "contacted") /\ Touch(l)
             /\ run' = [run EXCEPT ![c].at = "intake_match", ![c].job = l]
    /\ UNCHANGED <<taken, chat, menu, pages, crashes>>

\* determine_best_pro, then a look at whether the lead has a pro by now
IntakeMatch(c) ==
    /\ run[c].at = "intake_match"
    /\ \/ \E p \in Pros : run' = [run EXCEPT ![c].at = "intake_assign", ![c].pick = p]
       \/ lead[run[c].job].pro = NoPro /\ Goto(c, "intake_escalate")
       \/ Return(c)                        \* more to ask: the turn ends here
    /\ UNCHANGED <<lead, newer, taken, chat, menu, pages, crashes>>

IntakeEscalate(c) ==
    /\ run[c].at = "intake_escalate"
    /\ SetStatus(run[c].job, "pending_admin_review")
    /\ Return(c)
    /\ UNCHANGED <<newer, taken, chat, menu, pages, crashes>>

IntakeAssign(c) ==
    /\ run[c].at = "intake_assign"
    /\ lead' = [lead EXCEPT ![run[c].job].pro = run[c].pick]
    /\ Goto(c, "deal_write") \/ Return(c)
    /\ UNCHANGED <<newer, taken, chat, menu, pages, crashes>>

\* _finalize_deal past the address gate
DealWrite(c) ==
    /\ run[c].at = "deal_write"
    /\ lead' = [lead EXCEPT ![run[c].job].status = "new",
                            ![run[c].job].pro = run[c].pick,
                            ![run[c].job].offered = FALSE]
    /\ Goto(c, "deal_park")
    /\ UNCHANGED <<newer, taken, chat, menu, pages, crashes>>

DealPark(c) ==
    /\ run[c].at = "deal_park"
    /\ chat' = [chat EXCEPT ![c] = "awaiting_pro_approval"]
    /\ Return(c)
    /\ UNCHANGED <<lead, newer, taken, menu, pages, crashes>>

-----------------------------------------------------------------------------
(* Time and failure *)

\* The TTL of the customer's state key runs out, or a reset command clears it.
StateExpires(c) ==
    /\ chat[c] # "idle"
    /\ chat' = [chat EXCEPT ![c] = "idle"]
    /\ menu' = [menu EXCEPT ![c] = {}]
    /\ UNCHANGED <<lead, newer, taken, run, pages, crashes>>

\* A handler dies between two awaits: the worker restarts, a job times out, or a
\* database call raises.  What it wrote stays, what it had left to do is lost.
Crash(a) ==
    /\ run[a].at # "idle"
    /\ crashes < MaxCrashes
    /\ crashes' = crashes + 1
    /\ Return(a)
    /\ UNCHANGED <<lead, newer, taken, chat, menu, pages>>

-----------------------------------------------------------------------------

ProReads(p) == ReadApprove(p) \/ ReadReject(p) \/ ReadFinish(p)
                 \/ ReadProCancel(p) \/ ReadSearch(p)

CustomerReads(c) ==
    \/ ReadCustomerCancel(c) \/ ReadCustomerCompletion(c)
    \/ ReadReschedule(c) \/ ReadReschedulePick(c)
    \/ ReadOfferAccepted(c) \/ ReadOfferDeclined(c)
    \/ ReadIntake(c)

ProStep(p) == ApproveBook(p) \/ ApproveClaim(p) \/ ApproveRecord(p)
                \/ RejectWrite(p) \/ SearchWrite(p)

CustomerStep(c) ==
    \/ RescheduleOffer(c) \/ RescheduleClaim(c) \/ RescheduleFree(c) \/ RescheduleWrite(c)
    \/ KeepWaiting(c)
    \/ IntakeUpsert(c) \/ IntakeMatch(c) \/ IntakeEscalate(c) \/ IntakeAssign(c)
    \/ DealWrite(c) \/ DealPark(c)

CloseStep(a) == CancelWrite(a) \/ CancelFree(a) \/ FinishWrite(a) \/ Release(a)

ReassignSteps(a) ==
    \/ ReassignEscalate(a) \/ ReassignNoLocation(a) \/ ReassignMatch(a)
    \/ ReassignGive(a) \/ ReassignGiveUp(a)

Next ==
    \/ \E p \in Pros : ProReads(p) \/ ProStep(p) \/ WizardAssign(p)
    \/ \E c \in Customers :
         CustomerReads(c) \/ CustomerStep(c) \/ RescheduleLeave(c) \/ StateExpires(c)
    \/ \E l \in Leads : ReadStale(l) \/ ReadUnoffered(l) \/ ReadWizardLead(l)
    \/ \E a \in Actors : CloseStep(a) \/ ReassignSteps(a) \/ Crash(a)
    \/ OfferClaim
    \/ WizardLeave

Spec == Init /\ [][Next]_vars

(* A handler that has started goes on, and while the Healer is switched on *)
(* each of its sweeps handles every stale lead.  Nobody has to write a     *)
(* message.                                                                *)
Fairness ==
    /\ \A p \in Pros : WF_vars(ProStep(p))
    /\ \A c \in Customers : WF_vars(CustomerStep(c))
    /\ \A a \in Actors : WF_vars(CloseStep(a)) /\ WF_vars(ReassignSteps(a))
    /\ WF_vars(OfferClaim)
    /\ WF_vars(WizardLeave)
    /\ \A l \in Leads : SF_vars(ReadStale(l))

FairSpec == Spec /\ Fairness

-----------------------------------------------------------------------------
(* Properties *)

(* Every document, state key and handler has the shape the code gives it. *)
TypeOK ==
    /\ lead \in [Leads -> LeadDoc]
    /\ newer \subseteq Leads \X Leads
    /\ taken \in [Slots -> BOOLEAN]
    /\ chat \in [Customers -> ChatState]
    /\ menu \in [Customers -> SUBSET Slots]
    /\ run \in [Actors -> Handler]
    /\ pages \in [Leads -> Nat]
    /\ crashes \in 0..MaxCrashes

(* The slot that a lead has reserved, by its status and booked_slot_id.    *)
(* A COMPLETED lead keeps its hour; a CANCELLED one keeps the reference    *)
(* but not the hour, once the handler that cancels it has released it; a   *)
(* reschedule that has released the old hour no longer counts it.          *)
Reserves(l, s) ==
    /\ lead[l].slot = s
    /\ \/ /\ lead[l].status \in {"booked", "completed"}
          /\ \A a \in Actors : ~(run[a].job = l /\ run[a].at = "resched_write")
       \/ \E a \in Actors : run[a].job = l /\ run[a].at = "cancel_free"

(* ... or that a handler has claimed for it and not written down yet *)
Claiming(l, s) ==
    \E a \in Actors :
      /\ run[a].job = l /\ run[a].claim = s
      /\ run[a].at \in {"approve_record", "resched_free", "resched_write"}

Holds(l, s) == Reserves(l, s) \/ Claiming(l, s)

(* No hour of a pro's calendar is promised to two jobs, counting the hours *)
(* that a handler in flight has claimed for a job or still has to release. *)
NoDoubleBooking ==
    \A s \in Slots : \A l, m \in Leads : Holds(l, s) /\ Holds(m, s) => l = m

(* An hour is off the calendar exactly as long as some job holds it: no    *)
(* held hour is offered again, and none leaks when a job ends.             *)
SlotLedger == \A s \in Slots : taken[s] <=> \E l \in Leads : Holds(l, s)

\* The lead for which s is reserved
Holder == [s \in Slots |->
             IF \E l \in Leads : Holds(l, s) THEN CHOOSE l \in Leads : Holds(l, s)
             ELSE NoLead]

Book == INSTANCE SlotBook WITH holder <- Holder

(* The handlers implement the calendar of SlotBook: every change of an     *)
(* hour is the reservation of a free hour or the release of a reserved one. *)
BookSpec == Book!Spec

(* A customer held in AWAITING_PRO_APPROVAL, whom the bot answers with     *)
(* "still waiting", has a lead that some pro can still answer, or a        *)
(* handler that is about to release the customer.                          *)
ParkedCustomerHasOpenLead ==
    \A c \in Customers : chat[c] = "awaiting_pro_approval" =>
      \E l \in Leads :
        /\ lead[l].chat = c
        /\ \/ lead[l].status = "new"
           \/ \E a \in Actors : run[a].job = l
                                /\ run[a].at \in {"approve_claim", "approve_record", "release"}

(* reassign_lead writes the count it READ plus one: whoever overlaps, no   *)
(* lead is passed on more than MAX_REASSIGNMENTS times.                    *)
ReassignmentBound == \A l \in Leads : lead[l].count <= MaxReassignments

(* The customer is told "a human takes over" and the admin is paged at     *)
(* most once until a pro or the admin really takes the lead over, also     *)
(* when the Healer and the customer's "1" reassign the same lead at once.  *)
OnePagePerTakeover == \A l \in Leads : pages[l] <= 1

(* A release gives back the hour of the job it is about: no slot is put    *)
(* back on the calendar while it is the booked slot of a BOOKED job that   *)
(* no handler is working on.                                               *)
SiblingSlotSafe ==
    [][\A s \in Slots : taken[s] /\ ~taken'[s] =>
         \A l \in Leads : lead[l].status = "booked" /\ lead[l].slot = s =>
           \E a \in Actors : run[a].job = l]_vars

(* A booked slot is one of the calendar of the pro who does the job. *)
SlotOfTheLeadsPro ==
    \A l \in Leads : lead[l].status = "booked" /\ lead[l].slot # NoSlot =>
      SlotPro[lead[l].slot] = lead[l].pro

(* A confirmed job ends COMPLETED or CANCELLED: nothing puts it back to    *)
(* another status behind the customer's and the pro's back.                *)
BookingIsKept ==
    [][\A l \in Leads : lead[l].status = "booked" =>
         lead'[l].status \in {"booked", "completed", "cancelled"}]_vars

(* With the Healer on, no lead stays NEW or CONTACTED for ever: it is      *)
(* answered, closed or handed to a human.                                  *)
LeadIsDealtWith ==
    \A l \in Leads : lead[l].status \in Active ~> lead[l].status \notin Active
=============================================================================
