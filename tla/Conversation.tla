----------------------------- MODULE Conversation -----------------------------
(***************************************************************************)
(* How the orchestrator routes the messages of one chat.                   *)
(*                                                                         *)
(* A message passes the gates of _process_incoming_message_inner in the    *)
(* order of the code; the first gate that catches it handles it.  A chat   *)
(* is a customer's, or a professional's who may order a service as well.   *)
(* A message is routed in one step up to the lookup of its history; while  *)
(* the history is read and the AI thinks, the pro, the Healer, the admin   *)
(* and the clock may act on the same leads and state.  One message of a    *)
(* chat is handled at a time (what an expired chat lock lets through is    *)
(* the subject of Pipeline); whose slot a lead holds and how it is         *)
(* reassigned is the subject of LeadBooking.                               *)
(***************************************************************************)
EXTENDS Naturals, FiniteSets, Sequences, FiniteSetsExt, SequencesExt

CONSTANTS
    Owners,      \* who the chat may belong to: "customer", "pro"
    MaxRequests, \* bound: leads of the chat
    MaxEras      \* bound: times a lead of the chat may end, plus one

ASSUME ConversationAssumption ==
    /\ Owners \subseteq {"customer", "pro"} /\ Owners # {}
    /\ MaxRequests \in Nat \ {0} /\ MaxEras \in Nat \ {0}

VARIABLES
    role,       \* the users document of this phone: none ("customer"), a pro's
                \* ("pro"), one with is_active unset by the pro ("away"), or
                \* one an admin has not approved yet ("pending")
    consent,    \* consent_collection
    state,      \* state:<chat> in Redis
    reprompted, \* intent_reprompted in state_meta:<chat>
    lead,       \* the chat's own lead documents
    order,      \* their ids by created_at
    context,    \* the oldest era in context:<chat>; 0 when the key is absent
    era,        \* 1 + the leads of this chat that have ended: dates messages
    job         \* the message being handled

vars == <<role, consent, state, reprompted, lead, order, context, era, job>>
leadVars == <<lead, order, era>>

-----------------------------------------------------------------------------
(* Messages: one word of each class of texts the gates tell apart *)

Digits    == {"one", "two", "three"}
ProOnly   == {"finish", "report", "away", "back"}   \* סיימתי, היסטוריה, הפסקה, זמין
Business  == Digits \cup ProOnly             \* PRO_BUSINESS_KEYWORDS
Yes       == {"one", "yes"}
Texts     == Business \cup {"yes", "abort", "cancel", "move", "customer",
                            "register", "reset", "thanks", "status", "sos",
                            "text", "urgent"}
Words     == Texts \cup {"media"}            \* media: a picture without a caption

(* FSM states *)
Onboarding == {"onboarding", "onboarding_confirm"}   \* its four questions; "send it?"
Prompts == {"awaiting_reschedule_time", "awaiting_loyalty_confirmation",
            "awaiting_new_or_existing"}      \* CUSTOMER_PROMPT_STATES
States == {"idle", "pro_mode", "customer_mode", "awaiting_intent_confirmation",
           "awaiting_consent", "awaiting_pro_approval", "paused_for_human",
           "awaiting_address", "pro_question"}   \* pro_selecting_job_*, pro_awaiting_final_price
              \cup Prompts \cup Onboarding

(* Leads *)
Requests  == 1..MaxRequests
Active    == {"new", "contacted"}
Rated     == {"rating", "comment", "completed"}  \* COMPLETED: waiting_for_rating,
                                                 \* waiting_for_review_comment, done
Ended     == Rated \cup {"rejected", "cancelled", "filed"}
                                 \* filed: COMPLETED in the panel, no completed_at
OwnOpenUnrated == {"contacted", "new", "booked"}               \* mutant
OwnOpen   == {"contacted", "new", "booked", "rating", "comment"}
Statuses  == {"absent", "booked", "pending_admin_review"} \cup Active \cup Ended
Lead == [status: Statuses,
         pro: BOOLEAN,        \* pro_id is set
         prompted: BOOLEAN,   \* new_request_prompted
         loyal: BOOLEAN,      \* loyalty_offered
         stale: BOOLEAN,      \* pending for PENDING_REVIEW_SHORTCIRCUIT_HOURS
         ended: Nat,          \* the era that ended with it
         dated: Nat,          \* booked or filed: the era that was over at updated_at
         clears: BOOLEAN]     \* clear_context is yet to follow the end
NoRequest == [status |-> "absent", pro |-> FALSE, prompted |-> FALSE,
              loyal |-> FALSE, stale |-> FALSE, ended |-> 0, dated |-> 0,
              clears |-> FALSE]

Having(statuses) == {l \in Requests : lead[l].status \in statuses}
\* find_one(..., sort=[("created_at", -1)])
Newest(S) == order[SelectLastInSeq(order, LAMBDA l : l \in S)]

(* The handler: idle, resting between two gates after it fell through one  *)
(* with its own copy s of the state, reading the history, or waiting for   *)
(* the AI.                                                                 *)
Idle == [at |-> "idle", msg |-> "text", s |-> "idle", lead |-> 0, seen |-> {},
         ask |-> "none", began |-> 0, given |-> 0]
Asks == {"address", "dispatch", "assigned"}    \* the first AI call of a message
Job == [at: {"idle", "gates", "intent", "history", "cache", "facts", "matched", "deal",
             "park"} \cup Asks,
        msg: Words, s: States \cup {"address_left", "fresh"},
        lead: Requests \cup {0},   \* active_lead, then current_lead_id
        seen: SUBSET Requests,     \* of a message without a lead: the jobs booked then
        ask: Asks \cup {"none"},
        began: Nat,                \* the era it came in
        given: Nat]                \* the oldest era of the history the AI is given
Reading == {"history", "cache"}    \* in get_chat_history
Thinking == Asks \cup {"facts", "matched"}

Init ==
    /\ role \in Owners
    /\ consent = "none"
    /\ state = IF role = "pro" THEN "pro_mode" ELSE "idle"
    /\ reprompted = FALSE
    /\ lead = [l \in Requests |-> NoRequest]
    /\ order = <<>>
    /\ context = 0 /\ era = 1
    /\ job = Idle

-----------------------------------------------------------------------------
(* Reads *)

Professional == role # "customer"       \* a users document with role professional
RegisteredPro == role = "pro"           \* _is_registered_pro: and is_active

\* _customer_prompt_pending
PromptPending(s) == s \in Prompts \/ Having({"rating", "comment"}) # {}

\* mutant: only leads that wait for a pro
ActiveLeadOnlyNew == IF Having({"new"}) = {} THEN 0 ELSE Newest(Having({"new"}))

\* the lead that step 4 of the intake continues
ActiveLead == IF Having(Active) = {} THEN 0 ELSE Newest(Having(Active))

Unprompted == {l \in Having({"booked"}) : ~lead[l].prompted}
Reviewed   == {l \in Having({"pending_admin_review"}) : ~lead[l].stale}

Dated(l) == IF lead[l].status = "filed" THEN lead[l].dated ELSE lead[l].ended

\* mutant: of the lead that was created last
CutoffByCreation ==
    IF Having(Ended) # {} THEN Dated(Newest(Having(Ended))) ELSE 0

\* get_chat_history's cutoff: completed_at sorts first, then created_at; a lead
\* without completed_at is dated by its updated_at
Cutoff ==
    IF Having(Rated) # {} THEN Max({lead[l].ended : l \in Having(Rated)})
    ELSE IF Having(Ended) # {} THEN Dated(Newest(Having(Ended))) ELSE 0

\* the oldest era in Redis after log_message
Logged(ctx) == IF ctx # 0 THEN ctx ELSE era

-----------------------------------------------------------------------------
(* The gates, in the order of the code *)

\* mutant: only a customer who was never asked is asked
MustConsentOnce(s) == s = "awaiting_consent" \/ consent = "none"

\* has_consent: a customer who declined is asked again
MustConsent(s) == s = "awaiting_consent" \/ consent # "accepted"

\* mutant: a bare digit is taken for the answer to another question
AboutAJobUnlessDigit(w) == w \notin {"media", "urgent"} \cup Digits

\* A text that is no emergency may be about the booked job.
AboutAJob(w) == w \notin {"media", "urgent"}

\* A business keyword takes a pro to the menu from any state, but for a digit a
\* customer's question may expect.
ProGate(w, s) ==
    \/ s = "pro_mode"
    \/ /\ w \in Business /\ RegisteredPro
       /\ ~(w \in Digits /\ PromptPending(s))

Gates(w, s) ==
    << <<"reset",   w = "reset" /\ s # "pro_mode">>,
       <<"intent",  s = "awaiting_intent_confirmation">>,
       <<"consent", s # "pro_mode" /\ ~Professional /\ MustConsent(s)>>,
       <<"thanks",  w = "thanks" /\ s # "pro_mode">>,
       <<"status",  w = "status" /\ s # "pro_mode">>,
       <<"sos",     w = "sos" /\ s # "pro_mode">>,
       <<"hold",    s = "awaiting_pro_approval" /\ ~(w \in ProOnly /\ RegisteredPro)>>,
       <<"paused",  s = "paused_for_human">>,
       <<"reschedule", s = "awaiting_reschedule_time">>,
       <<"loyalty", s = "awaiting_loyalty_confirmation">>,
       <<"new_or_existing", s = "awaiting_new_or_existing">>,
       <<"intercept", w \in {"cancel", "move"} /\ s # "pro_mode"
                      /\ Having({"booked"}) # {}>>,
       <<"switch",  w = "customer" /\ s \in {"pro_mode", "idle"} /\ RegisteredPro>>,
       <<"pro",     ProGate(w, s)>>,
       <<"onboarding", s \in Onboarding>>,
       <<"address", s = "awaiting_address">>,
       <<"register", w = "register" /\ s = "idle">>,
       <<"detect",  s = "idle" /\ RegisteredPro>>,
       <<"review",  Reviewed # {}>>,
       <<"completion", w \in Yes /\ Having({"booked"}) # {}>>,
       <<"rating",  w \in Digits /\ Having({"rating"}) # {}>>,
       <<"comment", w # "media" /\ Having({"comment"}) # {}>>,
       <<"second",  AboutAJob(w) /\ ActiveLead = 0 /\ Unprompted # {}>>,
       <<"intake",  TRUE>> >>

Gate(w, s) == LET gates == Gates(w, s) IN gates[SelectInSeq(gates, LAMBDA g : g[2])][1]

\* A new message, or the one that goes on, and the handler's copy of the state.
Open(w) == job.at = "idle" \/ (job.at = "gates" /\ w = job.msg)
Local == IF job.at = "idle" \/ job.s = "fresh" THEN state ELSE job.s

\* The message goes on to the gates below with its own copy s of the state; they
\* do not tell the other words apart.
Below(w) == IF w \in Yes \cup Digits \cup {"media", "urgent"} THEN w ELSE "text"
GoOn(w, s) == job' = [Idle EXCEPT !.at = "gates", !.s = s,
                                  !.msg = IF s = "fresh" THEN w ELSE Below(w)]
Done == job' = Idle

(* Writes *)
\* set_lead_status: updated_at is now
Set(l, status) ==
    lead' = [lead EXCEPT ![l].status = status, ![l].stale = FALSE] /\ era' = era
EndsDated(l, status, dated, clears) ==
    /\ era < MaxEras
    /\ lead' = [lead EXCEPT ![l] = [NoRequest EXCEPT !.status = status, !.pro = lead[l].pro,
                                       !.ended = era, !.dated = dated, !.clears = clears]]
    /\ era' = era + 1
Ends(l, status) == EndsDated(l, status, 0, FALSE)
Redated(l) == Append(RemoveFirst(order, l), l)   \* created_at: now
Park(s) == state' = s /\ UNCHANGED reprompted
ClearState == state' = "idle" /\ reprompted' = FALSE
Log == context' = Logged(context)
KeepWho == UNCHANGED <<role, consent>>
KeepChat == UNCHANGED <<state, reprompted>>

-----------------------------------------------------------------------------
(* Gates that need no AI *)

\* check_sliding_window refuses a customer's message; a reset is heard before it.
Limited == job.at = "idle" /\ ~Professional /\ UNCHANGED vars

Reset(w) ==
    /\ ClearState /\ context' = 0 /\ Done
    /\ KeepWho /\ UNCHANGED leadVars

\* The answer to "do you need a service yourself?": anything but 1 or 2 is
\* asked again once, then dropped.
ConfirmIntent(w) ==
    /\ \/ /\ w \in Yes
          /\ state' = "customer_mode" /\ reprompted' = FALSE /\ context' = 0 /\ Done
       \/ /\ w = "two"
          /\ ClearState /\ Done /\ UNCHANGED context
       \/ /\ w \notin Yes \cup {"two", "sos"} /\ ~reprompted
          /\ reprompted' = TRUE /\ Done /\ UNCHANGED <<state, context>>
       \/ /\ w \notin Yes \cup {"two"} /\ (w = "sos" \/ reprompted)
          /\ ClearState /\ GoOn(w, "fresh") /\ UNCHANGED context
    /\ KeepWho /\ UNCHANGED leadVars

\* The privacy question of a chat whose owner has not accepted it.
AskConsent(w) ==
    /\ IF state = "awaiting_consent" /\ w \in {"yes", "abort"}
       THEN consent' = (IF w = "yes" THEN "accepted" ELSE "declined") /\ ClearState
       ELSE Park("awaiting_consent") /\ UNCHANGED consent
    /\ Done /\ UNCHANGED <<role, leadVars, context>>

Thanked(w) ==
    /\ Done /\ KeepWho /\ KeepChat /\ UNCHANGED <<leadVars, context>>

\* The status query answers from the database and logs what it said.
Told(w) ==
    /\ Log /\ Done /\ KeepWho /\ KeepChat /\ UNCHANGED leadVars

\* A "not yet" to a completion check, if one was sent, is acknowledged.
Declined(w) ==
    /\ w = "two" /\ Having({"booked"}) # {}
    /\ Log /\ Done /\ KeepWho /\ KeepChat /\ UNCHANGED leadVars

CallHuman(w) ==
    /\ Park("paused_for_human") /\ Done
    /\ KeepWho /\ UNCHANGED <<leadVars, context>>

\* reassign_lead: another pro, or a human when there is none left
Reassign(l) ==
    /\ \/ /\ lead' = [lead EXCEPT ![l].status = "new", ![l].pro = TRUE, ![l].stale = FALSE]
          /\ order' = Redated(l) /\ UNCHANGED context
       \/ /\ lead' = [lead EXCEPT ![l].status = "pending_admin_review", ![l].stale = FALSE]
          /\ context' \in {0, context} /\ UNCHANGED order
    /\ ClearState /\ UNCHANGED era

\* A customer who waits for the pro is told to wait; one whom the SLA job has
\* offered another pro may take the offer.
Hold(w) ==
    /\ \/ /\ w = "one" /\ Having({"new"}) # {} /\ Reassign(Newest(Having({"new"})))
       \/ KeepChat /\ UNCHANGED <<leadVars, context>>
    /\ Done /\ KeepWho

KeepSilent(w) ==
    /\ Log /\ Done /\ KeepWho /\ KeepChat /\ UNCHANGED leadVars

\* handle_reschedule_selection: cancelled, moved or out of date; or an invalid
\* or lost slot, and the menu stays.
PickSlot(w) ==
    /\ \/ w \in {"cancel"} \cup Digits /\ ClearState
       \/ w # "cancel" /\ KeepChat
    /\ Done /\ KeepWho /\ UNCHANGED <<leadVars, context>>

AnswerLoyalty(w) ==
    /\ IF w \in Yes \cup {"two"}
       THEN /\ lead' = IF w \in Yes /\ ActiveLead # 0
                       THEN [lead EXCEPT ![ActiveLead].pro = TRUE] ELSE lead
            /\ Park("idle") /\ Log
       ELSE KeepChat /\ UNCHANGED <<lead, context>>
    /\ Done /\ KeepWho /\ UNCHANGED <<order, era>>

\* "Something new or the job you have booked?"
AnswerNewOrExisting(w) ==
    /\ IF w \in Yes \cup {"two"}
       THEN Park(IF w = "two" THEN "paused_for_human" ELSE "idle") /\ Log
       ELSE KeepChat /\ UNCHANGED context
    /\ Done /\ KeepWho /\ UNCHANGED leadVars

\* A cancel or reschedule keyword of a customer with a booked job.
Intercept(w) ==
    /\ \/ /\ w = "cancel"
          /\ Ends(Newest(Having({"booked"})), "cancelled")
          /\ ClearState /\ context' = 0
       \/ /\ w = "move"      \* no slots, or a menu
          /\ KeepChat \/ Park("awaiting_reschedule_time")
          /\ UNCHANGED <<lead, era, context>>
    /\ Done /\ KeepWho /\ UNCHANGED <<order>>

SwitchToCustomer(w) ==
    /\ Park("customer_mode") /\ context' = 0 /\ Done
    /\ KeepWho /\ UNCHANGED leadVars

(* The pro's menu, read with state PRO_MODE: what it changes in this chat   *)
(* (what it does to the pro's own jobs is LeadBooking's).                  *)

\* Words that approve, reject or pause act on a customer's lead and chat.
ActOnLead(w) == w \in {"one", "two"} /\ Park("pro_mode") /\ Done /\ UNCHANGED role

\* Vacation mode: is_active.
Toggle(w) ==
    /\ w \in {"away", "back"} /\ role' = (IF w = "away" THEN "away" ELSE "pro")
    /\ Park("pro_mode") /\ Done

\* No job, or a job to choose or to price.
FinishJob(w) ==
    /\ w \in {"finish", "three"} /\ Done /\ UNCHANGED role
    /\ Park("pro_mode") \/ Park("pro_question")

\* No job or one, or several to choose from.
CancelJob(w) ==
    /\ w = "abort" /\ Done /\ UNCHANGED role
    /\ Park("pro_mode") \/ Park("pro_question")

\* The active jobs and their details; history, ratings and reports: reads.
ListJobs(w) == w \in {"report", "text"} /\ Park("pro_mode") /\ Done /\ UNCHANGED role
ShowReport(w) == w \in {"report", "text"} /\ Park("pro_mode") /\ Done /\ UNCHANGED role

\* A free text: does the pro need a service?  The AI is asked ...
AskIntent(w) ==
    /\ w \in Texts \ (Business \cup {"yes", "abort"})
    /\ Park("pro_mode") /\ job' = [Idle EXCEPT !.at = "intent"] /\ UNCHANGED role

\* ... and anything else shows the dashboard.
ShowDashboard(w) ==
    /\ w \in {"yes", "media"} /\ Park("pro_mode") /\ Done /\ UNCHANGED role

\* It handles the messages of PRO_MODE, and a business keyword, which brings a
\* pro back to PRO_MODE.
ProCommand(w) ==
    /\ \/ ActOnLead(w) \/ Toggle(w) \/ FinishJob(w) \/ CancelJob(w)
       \/ ListJobs(w) \/ ShowReport(w) \/ AskIntent(w) \/ ShowDashboard(w)
    /\ UNCHANGED <<consent, leadVars, context>>

\* The next question, the same one after an invalid answer, or the confirmation.
Onboard(w) ==
    /\ \/ w \in {"abort", "cancel"} /\ ClearState /\ UNCHANGED role
       \/ /\ w \notin {"abort", "cancel"}
          /\ KeepChat \/ (state = "onboarding" /\ Park("onboarding_confirm"))
          /\ UNCHANGED role
       \/ /\ w = "yes" /\ state = "onboarding_confirm"
          /\ role' = "pending" /\ ClearState
    /\ Done /\ UNCHANGED <<consent, leadVars, context>>

Register(w) ==
    /\ IF Professional THEN KeepChat ELSE Park("onboarding")
    /\ Done /\ KeepWho /\ UNCHANGED <<leadVars, context>>

\* A registered pro whose chat is idle: served as a customer while the pro's
\* own request is open, otherwise back in PRO_MODE.
Detect(w) ==
    /\ IF Having(OwnOpen) # {}
       THEN /\ Park("customer_mode") /\ GoOn(w, "customer_mode")
            /\ KeepWho /\ UNCHANGED <<leadVars, context>>
       ELSE ProCommand(w)

\* A human owns the request: the message is logged and acknowledged.
UnderReview(w) ==
    /\ Log /\ Done /\ KeepWho /\ KeepChat /\ UNCHANGED leadVars

\* A yes of a customer with a booked job completes it.
Complete(w) ==
    /\ Ends(Newest(Having({"booked"})), "rating")
    /\ context' = era' /\ Done       \* cleared, then the answer is logged
    /\ KeepWho /\ KeepChat /\ UNCHANGED <<order>>

Rate(w) ==
    /\ \E l \in Having({"rating"}) : Set(l, "comment")
    /\ Log /\ Done /\ KeepWho /\ KeepChat /\ UNCHANGED <<order>>

Comment(w) ==
    /\ \E l \in Having({"comment"}) : Set(l, "completed")
    /\ context' = era /\ Done
    /\ KeepWho /\ KeepChat /\ UNCHANGED <<order>>

\* A customer with a booked job who writes about something is asked, once per
\* job, whether it is something new.
AskNewOrExisting(w) ==
    /\ lead' = [lead EXCEPT ![Newest(Unprompted)].prompted = TRUE]
    /\ Park("awaiting_new_or_existing") /\ Log /\ Done
    /\ KeepWho /\ UNCHANGED <<order, era>>

-----------------------------------------------------------------------------
(* Messages for the AI *)

\* The message goes to the AI, once the history of the chat has been read.
AskAI(ask, w, l) ==
    job' = [Idle EXCEPT !.at = "history", !.ask = ask, !.lead = l, !.began = era,
               !.msg = IF ask = "dispatch" /\ w \in {"media", "urgent"} THEN "media" ELSE "text",
               !.seen = IF l = 0 THEN Having({"booked"}) ELSE {}]

\* The customer completes an address the deal's gate has refused.
Address(w) ==
    /\ \/ /\ w = "cancel"
          /\ IF ActiveLead = 0 THEN UNCHANGED <<lead, era>>
             ELSE Ends(ActiveLead, "cancelled")
          /\ ClearState /\ context' = 0 /\ Done
       \/ /\ w \in Digits \cup {"yes", "media"}      \* too short
          /\ Done /\ KeepChat /\ UNCHANGED <<lead, era, context>>
       \/ /\ w \notin Digits \cup {"yes", "media", "cancel"} /\ ActiveLead = 0
          /\ ClearState /\ GoOn(w, "address_left")
          /\ UNCHANGED <<lead, era, context>>
       \/ /\ w \notin Digits \cup {"yes", "media", "cancel"} /\ ActiveLead # 0
          /\ Log
          /\ AskAI("address", w, ActiveLead) \/ (~Professional /\ Done)
          /\ KeepChat /\ UNCHANGED <<lead, era>>
    /\ KeepWho /\ UNCHANGED order

\* Steps 4 and 5 of the intake.  With no active lead the cached history is
\* dropped, to be read again from the database.  A lead with an active pro is
\* answered in the pro's voice, any other by the dispatcher.
Intake(w) ==
    /\ context' = IF ActiveLead = 0 THEN 0 ELSE Logged(context)
    /\ \/ AskAI("dispatch", w, ActiveLead)
       \/ ActiveLead # 0 /\ lead[ActiveLead].pro /\ AskAI("assigned", w, ActiveLead)
    /\ KeepWho /\ KeepChat /\ UNCHANGED leadVars

-----------------------------------------------------------------------------
(* get_chat_history *)

\* The first AI call of the message, unless check_and_increment_daily_ai_cap
\* refuses it; professionals are exempt from the cap, and the address gate has
\* asked it before the lookup.
Prompt(given) ==
    \/ job' = [job EXCEPT !.at = job.ask, !.ask = "none", !.began = 0, !.given = given]
    \/ ~Professional /\ job.ask # "address" /\ Done

\* From the cache; or the messages after the cutoff are read from the database,
LookUp ==
    /\ job.at = "history"
    /\ IF context # 0 THEN Prompt(context)
       ELSE job' = [job EXCEPT !.at = "cache", !.given = Cutoff + 1]
    /\ KeepWho /\ KeepChat /\ UNCHANGED <<leadVars, context>>

\* and set_history replaces the cache with them, whatever was cleared meanwhile.
Cache ==
    /\ job.at = "cache"
    /\ context' = IF job.given <= job.began THEN job.given ELSE 0   \* no messages: DEL
    /\ Prompt(job.given)
    /\ KeepWho /\ KeepChat /\ UNCHANGED leadVars

-----------------------------------------------------------------------------
(* The AI answers, or fails: AI_OVERLOAD *)

\* detect_service_intent: the pro is asked, or shown the dashboard.
IntentAnswered ==
    /\ job.at = "intent"
    /\ \/ state' = "awaiting_intent_confirmation" /\ reprompted' = FALSE
       \/ KeepChat
    /\ Done /\ KeepWho /\ UNCHANGED <<leadVars, context>>

Overload ==
    /\ job.at \in Asks
    /\ Done /\ KeepWho /\ KeepChat /\ UNCHANGED <<leadVars, context>>

\* complete: the five parts of the address are there
AddressAnswered(complete) ==
    /\ job.at = "address"
    /\ IF complete THEN ClearState ELSE KeepChat
    /\ Done /\ KeepWho /\ UNCHANGED <<leadVars, context>>

\* create_lead_from_dict for a CONTACTED lead: found, or inserted
Upsert(l) ==
    LET open == {m \in Having({"contacted"}) : ~lead[m].pro} IN
    IF open # {} THEN l \in open /\ UNCHANGED <<lead, order>>
    ELSE /\ lead[l].status = "absent" /\ \A m \in 1..(l - 1) : lead[m].status # "absent"
         /\ lead' = [lead EXCEPT ![l].status = "contacted"]
         /\ order' = Append(order, l)

\* The dispatcher found an issue, a city, a picture or an emergency: it is
\* kept in the active lead or in a new one.
SaveFacts(l) ==
    /\ job.at = "dispatch"
    /\ IF job.lead = 0 THEN Upsert(l) ELSE l = job.lead /\ UNCHANGED <<lead, order>>
    /\ job' = [Idle EXCEPT !.at = "facts", !.lead = l]
    /\ KeepWho /\ KeepChat /\ UNCHANGED <<era, context>>

\* It asks for more: the issue or the city is missing, or nobody new was found
\* for a lead that has a pro.
Reply ==
    /\ job.at \in {"dispatch", "facts"}
    /\ job.at = "dispatch" => job.msg = "text"
    /\ Log /\ Done /\ KeepWho /\ KeepChat /\ UNCHANGED leadVars

\* Issue and city are known.  A returning customer is offered the earlier pro.
OfferLoyalty ==
    /\ job.at = "facts" /\ ~lead[job.lead].loyal /\ Having(Rated \cup {"filed"}) # {}
    /\ lead' = [lead EXCEPT ![job.lead].loyal = TRUE]
    /\ Park("awaiting_loyalty_confirmation")
    /\ Log /\ Done /\ KeepWho /\ UNCHANGED <<order, era>>

\* determine_best_pro finds nobody.
Escalate ==
    /\ job.at = "facts" /\ ~lead[job.lead].pro
    /\ Set(job.lead, "pending_admin_review")
    /\ Log /\ Done /\ KeepWho /\ KeepChat /\ UNCHANGED <<order>>

\* A pro is assigned, and the AI is asked again in the pro's voice.
Match ==
    /\ job.at = "facts"
    /\ lead' = [lead EXCEPT ![job.lead].pro = TRUE]
    /\ job' = [job EXCEPT !.at = "matched"]
    /\ KeepWho /\ KeepChat /\ UNCHANGED <<order, era, context>>

\* The pro's voice answers, and may close the deal.
ProVoice ==
    /\ job.at \in {"assigned", "matched"}
    /\ Done \/ job' = [Idle EXCEPT !.at = "deal", !.lead = job.lead]
    /\ Log /\ KeepWho /\ KeepChat /\ UNCHANGED leadVars

\* Without the full address the customer is asked for the rest of it; else the
\* lead waits for the pro's approval, whatever became of it meanwhile ...
FinalizeDeal ==
    /\ job.at = "deal"
    /\ \/ Park("awaiting_address") /\ Done /\ UNCHANGED lead
       \/ /\ lead' = [lead EXCEPT ![job.lead].status = "new", ![job.lead].pro = TRUE,
                                 ![job.lead].stale = FALSE]
          /\ job' = [job EXCEPT !.at = "park"] /\ KeepChat
    /\ KeepWho /\ UNCHANGED <<order, era, context>>

\* ... and the customer is parked.
ParkDeal ==
    /\ job.at = "park"
    /\ Park("awaiting_pro_approval")
    /\ Done /\ KeepWho /\ UNCHANGED <<leadVars, context>>

-----------------------------------------------------------------------------
(* The rest of the system, at any time *)

\* The pro approves a lead.
ProApproves(l) ==
    /\ lead[l].status = "new" /\ lead[l].pro
    /\ lead' = [lead EXCEPT ![l].status = "booked", ![l].stale = FALSE, ![l].dated = era - 1]
    /\ ClearState
    /\ KeepWho /\ UNCHANGED <<order, era, context, job>>

\* The pro rejects a lead or cancels a booked job, or finishes it ...
ProDrops(l) ==
    /\ \/ lead[l].status = "new" /\ lead[l].pro /\ EndsDated(l, "rejected", 0, TRUE)
       \/ lead[l].status = "booked" /\ EndsDated(l, "cancelled", 0, TRUE)
    /\ KeepWho /\ KeepChat /\ UNCHANGED <<order, context, job>>

ProFinishes(l) ==
    /\ lead[l].status = "booked"
    /\ EndsDated(l, "rating", 0, TRUE)
    /\ KeepWho /\ KeepChat /\ UNCHANGED <<order, context, job>>

\* mutant: the customer's cached history survives the job
ProClearsKeeping(l) ==
    /\ lead[l].clears
    /\ lead' = [lead EXCEPT ![l].clears = FALSE]
    /\ IF lead[l].status \in Rated THEN KeepChat ELSE ClearState
    /\ KeepWho /\ UNCHANGED <<order, era, context, job>>

\* ... and then clears the customer's cached history, and with a job that was
\* dropped the state.  A history that was looked up before the job ended is
\* cached all the same.
ProClears(l) ==
    /\ lead[l].clears
    /\ context' = 0
    /\ lead' = [lead EXCEPT ![l].clears = FALSE]
    /\ IF lead[l].status \in Rated THEN KeepChat ELSE ClearState
    /\ KeepWho /\ UNCHANGED <<order, era, job>>

\* The operator sets the status of a booked job to COMPLETED in the panel, which
\* writes no completed_at or updated_at and clears nothing.
PanelCompletes(l) ==
    /\ lead[l].status = "booked"
    /\ EndsDated(l, "filed", lead[l].dated, FALSE)
    /\ KeepWho /\ KeepChat /\ UNCHANGED <<order, context, job>>

\* The pro of a lead stops the bot in this chat, or starts it again.
ProPauses(l) ==
    /\ lead[l].status \in {"new", "booked"} /\ lead[l].pro
    /\ \/ Park("paused_for_human")
       \/ state = "paused_for_human" /\ ClearState
    /\ KeepWho /\ UNCHANGED <<leadVars, context, job>>

Heal(l) ==
    /\ lead[l].status \in Active
    /\ Reassign(l)
    /\ KeepWho /\ UNCHANGED <<job>>

\* The admin, or a pro who searches, takes a lead nobody works on.
TakeOver(l) ==
    /\ lead[l].status = "pending_admin_review"
    /\ lead' = [lead EXCEPT ![l].status = "new", ![l].pro = TRUE, ![l].stale = FALSE]
    /\ order' = Redated(l)
    /\ KeepWho /\ KeepChat /\ UNCHANGED <<era, context, job>>

\* PENDING_REVIEW_SHORTCIRCUIT_HOURS have passed.
ReviewAges(l) ==
    /\ lead[l].status = "pending_admin_review"
    /\ lead' = [lead EXCEPT ![l].stale = TRUE]
    /\ KeepWho /\ KeepChat /\ UNCHANGED <<order, era, context, job>>

\* The admin approves a pro who has signed up.
AdmitPro ==
    /\ role = "pending" /\ role' = "pro"
    /\ KeepChat /\ UNCHANGED <<consent, leadVars, context, job>>

\* The TTLs of state:<chat> and of context:<chat>
\* mutant: the intent's metadata is forgotten and with it its type
StateExpiresUnset ==
    /\ state # "idle" /\ Park("expired")
    /\ KeepWho /\ UNCHANGED <<leadVars, context, job>>

StateExpires ==
    /\ state # "idle" /\ Park("idle")
    /\ KeepWho /\ UNCHANGED <<leadVars, context, job>>

ContextExpires ==
    /\ context # 0 /\ context' = 0
    /\ KeepWho /\ KeepChat /\ UNCHANGED <<leadVars, job>>

-----------------------------------------------------------------------------
Handle(w) ==
    /\ Open(w)
    /\ \E gate \in {Gate(w, Local)} :
       \/ gate = "reset" /\ Reset(w)
       \/ gate = "intent" /\ ConfirmIntent(w)
       \/ gate = "consent" /\ AskConsent(w)
       \/ gate = "thanks" /\ Thanked(w)
       \/ gate = "status" /\ Told(w)
       \/ gate = "sos" /\ CallHuman(w)
       \/ gate = "hold" /\ Hold(w)
       \/ gate = "paused" /\ KeepSilent(w)
       \/ gate = "reschedule" /\ PickSlot(w)
       \/ gate = "loyalty" /\ AnswerLoyalty(w)
       \/ gate = "new_or_existing" /\ AnswerNewOrExisting(w)
       \/ gate = "intercept" /\ Intercept(w)
       \/ gate = "switch" /\ SwitchToCustomer(w)
       \/ gate = "pro" /\ ProCommand(w)
       \/ gate = "onboarding" /\ Onboard(w)
       \/ gate = "address" /\ Address(w)
       \/ gate = "register" /\ Register(w)
       \/ gate = "detect" /\ Detect(w)
       \/ gate = "review" /\ UnderReview(w)
       \/ gate = "completion" /\ Complete(w)
       \/ gate \in {"rating", "comment", "second", "intake"} /\ Declined(w)
       \/ gate = "rating" /\ Rate(w)
       \/ gate = "comment" /\ Comment(w)
       \/ gate = "second" /\ AskNewOrExisting(w)
       \/ gate = "intake" /\ Intake(w)

Answer ==
    \/ LookUp \/ Cache
    \/ IntentAnswered \/ Overload \/ (\E complete \in BOOLEAN : AddressAnswered(complete))
    \/ (\E l \in Requests : SaveFacts(l))
    \/ Reply \/ OfferLoyalty \/ Escalate \/ Match \/ ProVoice \/ FinalizeDeal \/ ParkDeal

World ==
    \/ \E l \in Requests :
         \/ ProApproves(l) \/ ProDrops(l) \/ ProFinishes(l) \/ ProClears(l)
         \/ PanelCompletes(l) \/ ProPauses(l) \/ Heal(l) \/ TakeOver(l) \/ ReviewAges(l)
    \/ AdmitPro \/ StateExpires \/ ContextExpires

Next == Limited \/ (\E w \in Words : Handle(w)) \/ Answer \/ World

Spec == Init /\ [][Next]_vars

-----------------------------------------------------------------------------
\* Every variable keeps its type; order lists exactly the leads there are.
TypeOK ==
    /\ role \in {"customer", "pro", "away", "pending"}
    /\ consent \in {"none", "accepted", "declined"}
    /\ state \in States /\ reprompted \in BOOLEAN
    /\ lead \in [Requests -> Lead]
    /\ order \in Seq(Requests) /\ Range(order) = Having(Statuses \ {"absent"}) /\ IsInjective(order)
    /\ era \in 1..MaxEras /\ context \in 0..era
    /\ job \in Job

\* Nothing of a customer reaches the AI, and no lead is written, before the
\* customer has accepted the privacy terms: through every gate, prompt and
\* expiry (workflow_service.py, "Consent Gate").
ConsentFirst ==
    (job.at \in Thinking \/ Having(Statuses \ {"absent"}) # {})
        => (role # "customer" \/ consent = "accepted")

\* The cached history reaches back before a job that was completed and whose
\* clear_context is done.
OlderThan(l) == lead[l].status \in Rated /\ ~lead[l].clears /\ context \in 1..lead[l].ended

\* No step makes the cached history of a chat reach back before a job that the
\* customer or the pro has completed, in whatever order its writes meet the chat's
\* messages; unless the job ended while a message of the chat was reading the
\* history, which set_history then caches over the clear (_execute_finish,
\* get_chat_history: such messages "MUST NOT leak into the new AI prompt").
NothingOfAFinishedJob ==
    [][\A l \in Requests : OlderThan(l)' =>
          OlderThan(l) \/ (Cache /\ job.began <= lead[l].ended)]_vars

\* A new request starts afresh, with no exception: what the AI is given for a
\* message that finds no active lead is younger than every job that the customer or
\* a pro had completed before it came (workflow_service.py, "Fresh-start
\* guard", and get_chat_history's cutoff).
FreshStart ==
    [][job.at \in Reading /\ job'.at = "dispatch" /\ job.lead = 0
       => \A l \in Having(Rated) : lead[l].ended < job.began => lead[l].ended < job'.given]_vars

\* A chat has one request being taken in: messages about it continue the same
\* lead and never open a twin (create_lead_from_dict, step 4 of the intake).
OneRequestTakenIn == Cardinality(Having({"contacted"})) <= 1

\* A text opens another lead beside a booked job only after the customer was
\* asked "something new, or about this job?" for every job that was booked when
\* it was read (PRO-116 Q3: "must not silently spawn a second parallel lead";
\* an emergency bypasses the question).
AskedBeforeSecond ==
    [][\A l \in Requests :
         (/\ lead[l].status = "absent" /\ lead'[l].status = "contacted"
          /\ job.msg = "text")
         => \A b \in job.seen : lead[b].status = "booked" => lead[b].prompted]_vars

\* A pro who has a request of their own open, or has not yet rated it, is taken
\* back to the dashboard only by a word of the pro's menu; no expiry of the
\* state does it (_get_active_customer_lead).
ServedAsCustomer ==
    [][(/\ state # "pro_mode" /\ state' = "pro_mode"
        /\ Having({"contacted", "new", "booked", "rating", "comment"}) # {})
       => \E w \in Business : Handle(w)]_vars

\* What the pro is told when the pause begins (messages.py STATUS_PAUSED: no
\* offers "until you write 'available'"): a pro who paused the work and writes
\* "available" while no question is open is back.
ComesBack ==
    [][(role = "away" /\ state = "idle" /\ job.at = "idle" /\ Handle("back"))
       => role' = "pro"]_vars

=============================================================================
