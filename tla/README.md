# TLA+ models of Proli

Proli connects customers on WhatsApp with professionals ("pros"). Several
kinds of asynchronous code change the same few documents: a *lead* (a
customer's request), a *slot* (an hour of a pro's calendar) and a chat's
*state* in Redis. These models say what must hold of those documents however
the code interleaves, check it on small instances with TLC, and prove part of it
for every instance with TLAPS.

Paths below are relative to `src/app/` unless they start with `docs/` or
`README.md`.

## 1. Inventory

| Component | State it keeps | Operations | Hard behaviour |
|---|---|---|---|
| Lead status store (`services/lead_manager_service.py`) | `leads_collection` | `set_lead_status` (the single writer of `status`), `create_lead_from_dict`, `update_lead_status` | writes are by `_id`; only callers that pass `expected_status` are safe against a stale read |
| Booking and slots (`services/matching_service.py`, `scheduling_service.py`) | `slots_collection.is_taken`, `lead.booked_slot_id` | `book_slot_for_lead`, `determine_best_pro`, slot generation | booking spans three documents' writes; releases are unconditional |
| Pro commands (`services/pro_flow.py`) | leads, slots, the pro's state | approve, reject, finish, cancel, search, pause, resume, price question | reads the lead, awaits, writes |
| Customer conversation (`services/workflow_service.py`) | leads, chat state and metadata | intake, matching, deal, cancel, reschedule offer, pause, loyalty, new-or-existing | seconds of AI calls between read and write; order of the gates |
| Completion, rating, reschedule pick (`services/customer_flow.py`) | leads, slots, pro's rating | completion text, rating, review, reschedule pick, completion check | claim with cap and cooldown; read-modify-write of the average |
| Sweeps (`services/monitor_service.py`) | leads, chat state | Healer, `reassign_lead`, janitor, approval SLA, deflection, account watchdog | run in parallel with every chat; work on lists read earlier |
| Admin wizard (`services/admin_flow.py`) | wizard metadata, leads | list, pick a lead, pick a pro | a selection held over several messages |
| Chat state store (`services/state_manager_service.py`) | `state:`, `state_meta:` keys with TTL | get, set, clear | expiry at any time; errors are swallowed |
| Scheduler and locks (`scheduler.py`, `core/redis_client.py`) | `lock:` keys with TTL | thirteen periodic jobs | TTL against length of job, unconditional release, open without Redis |
| Message pipeline (`api/routes/*webhook.py`, `core/arq_worker.py`) | idempotency keys, ARQ queue, chat lock | receive, claim, enqueue, retry, drop | crash between claim and enqueue, reordering by retry, lock that expires under its job |
| WhatsApp providers (`providers/whatsapp/`) | breaker keys, delivery records, window keys | guarded send, status events, template fallback | expiring keys that must agree, out-of-order events |
| Security and limits (`services/security_service.py`) | counters | fixed and sliding windows, daily cap | increment and expiry are two calls |
| Admin panel (`src/admin_panel/`) | the same collections, from another process | edit a lead, edit and generate slots, ask the customer about a job | writes what a form showed; sends first and stamps later; takes no lock |
| AI engine, geocoding, media, analytics, privacy, health, configuration | caches, reports | | remote calls or reads; see `PROJECT.json` |

How they interact: a webhook enqueues one ARQ job per message; the job takes
the chat's lock and runs the orchestrator, which calls the pro's, customer's or
admin's flow. The scheduler runs in the same worker process and calls the
sweeps; the admin panel is a process of its own. All of them share the collections and the Redis keys, with no
transaction and no lock per lead: **the chat lock serialises the messages of one
chat, but a lead is worked on from at least four chats and jobs** (its customer,
its pro, the admin, the sweeps).

What makes the core correct: an hour is never promised to two jobs and never
lost; a confirmed job stays confirmed until somebody ends it; no lead is
forgotten; a customer told to wait has something to wait for; nobody is paged or
passed on without end; no message is lost or handled twice for a failure the
code handles; nothing is sent to an account that is down; a customer reaches the
AI only with consent, one request at a time. The hazards, each at its line, are
in `PROJECT.json`.

## 2. Modules

| Module | What it is |
|---|---|
| `LeadBooking` | The life of leads and slots: every handler and sweep that changes a lead's status, pro, slot, count or flags, one action per database call. |
| `SlotBook` | The abstract calendar: an hour is free or reserved for one lead. |
| `Pipeline` | From the provider's POST to the orchestrator: claims, rate limit, queue, ARQ's starts, the chat lock. |
| `Conversation` | One chat's messages through the gates of the orchestrator, with the AI, the pro, the Healer, the admin, the operator's panel and the clock acting meanwhile. |
| `Breaker` | The account watchdog, the keys it keeps, the operator's switch and restarts of the worker. |
| `Outbound` | Extends `Breaker` with a message on its way out: the guard, the service window, the pieces POSTed, delivery records and status events. |
| `Clock` | The scheduler's jobs on several workers, with locks that can be lost, and the operator who asks customers past them. |
| `MC...` | Values of the constants for TLC. |
| `LeadBooking_proofs` | Theorems about `LeadBooking`, whoever overlaps. |
| `LeadCalendar_proofs` | The calendar without overlap: it is exact, and `LeadBooking` implements `SlotBook`. |
| `LeadParking_proofs` | Without overlap: a customer who waits has a lead that can be answered. |
| `LeadSweeps_proofs` | With the sweeps and the customers overlapping: one page per takeover, bookings are kept. |
| `Outbound_proofs` | The breaker fails closed, for every life of its keys; pages, statuses, the service window; what the split makes of any text. |
| `Pipeline_proofs` | One job per message, one running job per chat, nothing acknowledged is lost, for any number of messages, copies and failures. |
| `Conversation_proofs` | Consent, history and the questions of the intake, for any number of leads and messages. |
| `Clock_proofs` | What claims, counts and locks keep, for any number of workers, times and failures. |

`Pipeline` ends where `Conversation` and `LeadBooking` begin: it says when two
messages of a chat can be handled at once, the other two take one at a time.
`Conversation` has one chat with all its states and leads reduced to what the
gates look at; `LeadBooking` has many chats with the states that booking depends
on and every call on leads and slots. `Clock` has the sweeps that `LeadBooking`
runs one at a time and shows what overlapping runs may do. `Outbound` is what
stands behind a "send" that the other modules leave out.

### LeadBooking and the code

*Documents.* `lead[l]` is the part of a lead document the properties tell
apart: `chat` (chat_id), `status`, `pro` (pro_id), `slot` (booked_slot_id),
`count` (reassignment_count), `exhausted` (escalation_reason is
"max_reassignments_exhausted"), `offered` (reassign_offered). `newer` is the
order of `created_at`, which queries sort by and reassignment rewrites.
`taken[s]` is `is_taken`. `chat[c]` and `menu[c]` are the customer's Redis state
and `reschedule_slots_context`. `pages` is a history variable.

*Handlers.* A coroutine can be interrupted at each `await`, so a handler is a
sequence of actions. `run[a]` holds its next step and the fields of the lead it
read and will use later; every later write goes to `run[a].job`, whatever the
document has become. Actors are customers, pros, the Healer, the approval-SLA
sweep and the admin wizard (which holds a lead over several messages); each runs
one handler at a time, which is what the chat lock and the scheduler lock intend.

| Code | Actions |
|---|---|
| `_handle_approve` + `book_slot_for_lead` | `ReadApprove`, `ApproveBook`, `ApproveClaim`, `ApproveRecord`, `Release` |
| `_handle_reject` | `ReadReject`, `RejectWrite`, `Release` |
| `_handle_cancel` / customer's cancel keyword | `ReadProCancel` / `ReadCustomerCancel`, `CancelWrite`, `CancelFree`, `Release` |
| `_handle_finish` / completion text | `ReadFinish` / `ReadCustomerCompletion`, `FinishWrite` |
| `_handle_search` | `ReadSearch`, `SearchWrite` (`TakeOver`) |
| reschedule keyword, `handle_reschedule_selection` | `ReadReschedule`, `RescheduleOffer`; `ReadReschedulePick`, `RescheduleClaim`, `RescheduleFree`, `RescheduleWrite`, `Release`; `RescheduleLeave` |
| `check_and_reassign_stale_leads`, the customer's "1" | `ReadStale`, `ReadOfferAccepted` |
| `reassign_lead` | `ReassignEscalate`, `ReassignNoLocation`, `ReassignMatch`, `ReassignGive`, `ReassignGiveUp`, `Release` |
| `check_pro_approval_sla` (offer), the customer's "2" | `ReadUnoffered`, `OfferClaim`, `ReadOfferDeclined`, `KeepWaiting` |
| admin wizard | `ReadWizardLead`, `WizardAssign`, `WizardLeave` |
| orchestrator, intake to deal | `ReadIntake`, `IntakeUpsert`, `IntakeMatch`, `IntakeEscalate`, `IntakeAssign`, `DealWrite`, `DealPark` |
| state TTL, reset command, a worker that dies | `StateExpires`, `Crash` |

*Left free.* Times are not counted: a lead may be stale, a state may expire and
an offer may be due at any moment. What the AI answers, whether a match exists
and whether a slot lies in the booking window are free choices. Gates that only
keep a message from starting a handler (the pending-review short-circuit, the
new-or-existing and loyalty questions, the address gate, the pause) are left out
of the guards, so the model allows more starts than the code: what holds of it
holds with the gates. A handler step also includes what follows it up to the
next database call that changes modelled state (messages, logging, AI context).

*Left out.* Selection menus for a pro with several booked jobs, the janitor's
CLOSED, the admin panel's forms; all other modules of the plan below.

*Overlap.* `Overlap` is the set of actors whose handlers may meet on one lead.
The program as it is has `Overlap = Actors`. Smaller sets describe the
executions in which those meetings do not happen; each run states which, and
therefore each passing run says *which meetings are harmless* and each
violation run which one is not.

### Pipeline and the code

`route[r]` is a coroutine serving a POST, between two Redis or queue calls;
`claimed` the keys `webhook:<id>`, `hits` and `expiring` the rate counter and
whether it has an expiry, `jobs` the ARQ queue, `lock` the keys
`lock:chat:<chat>`.

| Code | Actions |
|---|---|
| `meta_webhook_endpoint` | `Receive`, `Claim` or `ClaimFails`, `CountHit`, `StartWindow`, `Enqueue`, or `EnqueueFails` and `Unclaim` |
| `check_rate_limit`, which swallows its errors | `CountHit`, `StartWindow`, or `LimitFails` at either |
| legacy `webhook_endpoint` | `Receive`, `ClaimLegacy`, the same, `EnqueueFailsLegacy` |
| ARQ, `process_message_task` | `Pick`, `FetchMedia`, `StoreMedia`, `AcquireLock` (or a deferral), `Finish` |
| keys that expire, processes that die | `WindowEnds`, `LockExpires`, `RouteDies`, `WorkerDies` |

Each kind of failure happens at most once and is remembered in `faults`, so that
a property can say which failures it survives. A Redis call that raises may have
been carried out: a claim may be written though its reply is lost
(`claim_unheard`), a hit counted though the route never learns it. A provider that gets no answer in
time repeats a POST that is still being served (`answer_slow`, up to `Copies`
at once). The 24 h life of a claim is not modelled; a handler that raises ends
its job like one that returns.

### Breaker, Outbound and the code

Time is counted in ticks of the watchdog's two minutes; a key is its ticks to
live. `send` is the one message on its way, `mail` what Meta has accepted with
the row of `wa_delivery`, `window` the recipient's 24 hours as Meta and Redis
know them.

| Code | Actions |
|---|---|
| `check_whatsapp_instance_state` | `Skip`, `Probe`, `Record`, `Recover`, `Halt`, `TimeOutage`, `Page`, `MonitorFails` |
| kill switch, shutdown and restart | `KillSwitch`, `WorkerStops`, `Deploy` |
| facade `_guard` | `Ask`, `ReadPause`, `ReadState`, `GuardFailsOpen`, `Suppress` |
| `cloud_api`, `window` | `WindowOpen`, `WindowClosed`, `Post`, `PostFails`, `OpenWindow`, `KeyExpires` |
| `DryRunProvider` | `DryRun` |
| `delivery` | `RecordOutbound`, `ApplyStatus` |
| `sync` (panel) | `PanelGivesUp` |

A send ends within a tick: its HTTP calls time out. All templates in the
registry are drafts, so the branches that send one are never taken; nobody calls
`send_template` or `send_interactive`; typing signals change nothing. The panel
transmits while the worker may be under dry-run. A text may be empty (a voice note
without a caption; an AI answer that was nothing but its marker), though not the
panel's. That the page for a closed
window goes out once a day is not modelled.

### Conversation and the code

`Gates(w, s)` lists the conditions of `_process_incoming_message_inner` in the
order of the code; `Gate` is the first that holds for a message of class `w` and
the state `s` that the handler has read. Each gate has an action of its own
(`AskConsent`, `Hold`, `Intercept`, `ProCommand`, ...), named in `Handle`. A
message that falls through a gate after it has changed something goes on with
its own copy of the state (`GoOn`), which others may have changed by then. A
gate that asks the AI leaves the handler waiting (`job.at`); the answer is an
action of its own: `IntentAnswered`, `AddressAnswered`, `SaveFacts`, `Reply`,
`OfferLoyalty`, `Escalate`, `Match`, `ProVoice`, `FinalizeDeal`, `ParkDeal`,
`Overload`. What the rest of the system does to this chat is `World`.

A text is one word of a class of texts the gates tell apart. The history is
dated by *eras*, the ended leads of the chat: `context` is the oldest era in the
cached history, `job.began` the era in which the message being handled came.
`get_chat_history` is two steps: `LookUp` takes the cache, or finds the cutoff and
reads the messages after it; `Cache` (`set_history`) replaces the cache with what
was read, whatever happened in between. The cutoff and the messages are read
in one step, for a job that ends between the two queries is like one that ends
after both: the older cutoff stands. A clear inside `set_history` is like one
before it. Redis and Mongo are taken to answer there. A pro's finish, rejection or
cancellation is the write of the status (`ProFinishes`, `ProDrops`) and, later,
`clear_context` (`ProClears`); a customer's own "yes" or cancellation does both in
one step, as one message of the chat is handled at a time and the reads above
are only made by such messages. A job the operator completes in the panel's form
(`PanelCompletes`) has the status "filed" here: it has no completion date, and
its cutoff is the `updated_at` of its last write by the program, the approval.

The chat may turn from a customer's into a pro's (`Register`, `AdmitPro`). Not
modelled: media other than "a picture without text", the four onboarding
questions (one state), the pro's selection and price questions (one state, whose
handlers the orchestrator never reaches), the texts.

### Clock and the code

One lead and one pro stand for all; a worker runs one job at a time; the times
since creation, since the pro was told and since the last check are counted in
ticks up to the threshold that matters.

| Code | Actions |
|---|---|
| `with_scheduler_lock` | `TryLock`, `RunUnlocked`, `Finish` (part of a job's last step), `LockExpires`, `WorkerDies` |
| `check_pro_approval_sla` | `SlaQuery`, `SlaState`, `SlaClaim` |
| `monitor_unfinished_jobs` | `UnfinishedQuery`, `ChecksQuery`, `Flag` |
| `send_pro_reminder` | `Remind`, `RemindSend`, `RemindCount` |
| `send_customer_completion_check`, for the sweep | `Check` (the claim), `Ask` (the send) |
| the same with `triggered_by != "auto"` | `OperatorChecks` |
| the panel's `send_completion_check_sync` | `PanelAsks`, `PanelStamps`, or `PanelFails` |
| `remind_stale_booked_leads` | `StaleQuery`, `StaleSend`, `StaleCount` |
| `daily_reminders_job`, slot generation | `DailyClaim`, `Greet`; `SlotsCount`, `SlotsInsert` |
| toggles and business hours | `GivesUp` |
| customers, pros, midnight | `WaitAnew`, `WaitExpires`, `Approved`, `Ended`, `NotYet`, `Midnight`, `Tick` |

A send and the write that counts or stamps it are two steps wherever they are two
awaits. `sent` is what has really gone out, whatever the fields of the lead say:
`quiet` is the time since the customer was last asked, by anybody, or has
declined, and `unstamped` says that the panel asked last and the lead does not
know it. The panel's stamp follows the send even when the send was suppressed
(`send_text_sync` never raises and blocks for 30 s at most); it is lost only with
the panel or its database call (`PanelFails`). `OperatorChecks` is a branch that
nothing in the repository calls yet. `faults` counts lost locks, dead workers,
lost counts and lost stamps apart, so that a property can say what each costs. Backup, report, janitor,
deflection and the counter of Mongo authentication failures are not modelled.

## 3. Runs

`CHECK_DEADLOCK FALSE` where the program may be idle for good: leads, POSTs and
sends are finite supplies.

| Run | Instance | Expected | Shows |
|---|---|---|---|
| `booking_isolated` | 2 customers, 2 pros, 2 leads, 2 hours of one pro; no two handlers on one lead, 2 in flight | pass | `TypeOK`, `NoDoubleBooking`, `SlotLedger`, `ParkedCustomerHasOpenLead`; `BookSpec`: the handlers implement `SlotBook` |
| `booking_sweeps` | 1 customer, 2 leads; the customer, Healer and SLA sweep may meet, 2 in flight; two reassignments | pass | `SlotLedger`, `OnePagePerTakeover`, `BookingIsKept` |
| `booking_answered` | 1 lead; pros, sweeps and admin may meet; one handler dies; fair | pass | `ReassignmentBound`, `LeadIsDealtWith` |
| `sibling_slot` | everybody may meet, one handler in flight beside the wizard | violation | a stale wizard selection revives a cancelled lead with its old slot; its next cancellation frees another job's hour, against `docs/OPERATIONS_GUIDE.md:325` |
| `reschedule_other_pro` | no overlap at all | violation | a reschedule pick moves the wrong pro's job (`README.md:23`) |
| `booking_lost` | pros and the Healer may meet | violation | the Healer undoes an approval (`docs/ARCHITECTURE.md:269`) |
| `escalation_undone` | customer and sweeps may meet; fair | violation | a deal written over an escalation leaves a lead NEW for ever (`docs/DOCUMENTATION_FLOW.md:112`) |
| `pipeline` | one chat; a batch of a picture and a reaction, and a text by the legacy route; any two kinds of failure, a POST served twice at once among them; fair | pass | `Accounted`, `HandledOnce`, `OneJobPerChat`, `DroppedBehindAnother`; `BacklogDrains`, `ShieldLifts` |
| `outbound` | one send of a text that is cut, one message of the recipient, two failures, one restart; fair | pass | `SparesDownAccount`, `BreakerReopens`, `OutageIsPaged`, `NoticeAfterPage`; `PanelTruth`, `BlockedOnlyIfClosed`, `StatusStands`, `RejectionIsPaged` |
| `conversation` | a customer's chat with two leads, both of which may end; the customer may sign up as a pro | pass | `TypeOK`, `ConsentFirst`, `NothingOfAFinishedJob`, `FreshStart`, `OneRequestTakenIn`, `AskedBeforeSecond`, `ServedAsCustomer` |
| `clock` | two workers, an operator who asks as well; two lost locks, dead workers, lost counts or stamps | pass | `OncePerWait`, `OneGreetingADay`, `ChecksCapped`, `ChecksSpaced` whatever happens to the lock; `HoursMadeOnce` as far as the lock keeps it; `RemindersCapped` with what each failure costs |
| `vacation` | a pro's chat | violation | the word that ends a vacation is not heard once PRO_MODE has expired (`docs/OPERATIONS_GUIDE.md:137`) |

*Bounds of the booking runs.* `Leads` bounds the leads ever inserted,
`MaxInFlight` the handlers in flight (the wizard's held selection is not
counted), `MaxCrashes` the handlers that die, `MaxReassignments` is 1 or 2 instead
of 3. Two leads and two hours of one calendar are the least with which hours can be
swapped, leaked or promised twice; two pros the least for a reassignment and for
a foreign calendar; two handlers in flight the least for a race, and every race
found needs no more. One reassignment is enough for all three positions of the
count (below, at the limit, reset by a takeover); `booking_sweeps` has two, so
that a lead can be passed on again after it was. The theorems below hold for
every value. The symmetry sets permute
leads (created alike), the two hours (both of one pro) and, where there are two,
the customers: no definition tells them apart. Runs with liveness use none.

*Bounds of the others.* `pipeline`: two messages of one chat are the least for
one to overtake or hold up the other, a third is skipped unread; three tries, so
that a message can be deferred twice and then dropped; a rate limit of two, so
that it can be reached; two kinds of failure, so that a compensation can fail as
well; two copies of a POST, of which one can answer for the other. Messages of
different chats share nothing but the queue, in which no order is promised.
`outbound`: lives of three ticks and a threshold of two, so that each key may
outlive each other and the outage; one send, since sends share only the keys
(the theorems hold for any number); an empty text and texts of three characters
with a limit of two (the theorem is about every text and limit). `conversation`: two leads, the least for a second request; both may end
(`MaxEras` = 3), so that the cutoff has two ended requests to choose from, but
only one in a chat that becomes a pro's (`OneEndOfAPro`), whose properties need
no more. `clock`: two workers, thresholds in the order of the configured ones,
caps of one and two, and an operator who asks up to the third question, one past
the sweep's cap (`MaxAsked`). The jobs of a waiting lead and of the day on the one
hand, those of a booked lead and the operator on the other do not act in the
same execution (`OneGroup`): neither reads what the other writes, and the
theorems have them together.

*Fairness of the booking runs.* Weak fairness of a started handler's steps: a
coroutine that is running goes on (the event loop is fair, each await returns or
raises, and a handler that dies is `Crash`). Strong fairness of `ReadStale(l)`:
the Healer runs every ten minutes and each sweep handles every stale lead; a
lead may be held by another handler when it comes and free again later. This
presumes that the Healer is switched on (`sos_healer_active` is off by default)
and running in business hours. Nobody is obliged to write a message: no fairness
on any pro's or customer's first step. `WizardLeave` is fair because the
wizard's state has a TTL. Time to expiry of a customer's state is not used.

*Fairness of the others.* `Pipeline`: something goes on while something can, the
weakest assumption there is; the bounded supplies end the rest. It stands for the
event loop, the provider's repetitions, ARQ's polling and keys that expire; no
failure is ever obliged to happen. `Outbound`: time passes, the watchdog's runs
and the send go on (one weak fairness for all three, as their order within a tick
is free), and Meta repeats a report until it is answered; nobody is obliged to
send, to restore the account or to restart the worker, so the liveness properties
speak of a live worker.

*Learnt while checking.* With everybody overlapping, `NoDoubleBooking`,
`SlotLedger`, `OnePagePerTakeover`, `SiblingSlotSafe` and `BookingIsKept` all
have counterexamples; the four violation runs keep those that contradict a
sentence of the documentation. With one crash and no overlap, `NoDoubleBooking`
fails between the release of the old hour and the write of the new one
(`services/customer_flow.py:349-359`). That the admin is paged once per takeover
rests on something no line of `reassign_lead` mentions: an escalation for want
of a location overwrites the reason "max_reassignments_exhausted" by which the
Healer skips a lead, so a lead that was passed on must never lose its
`full_address`. An earlier version of `ReassignStep` allowed it, and TLC paged
twice; the code removes an address nowhere (`MayLackLocation`). `ParkedCustomerHasOpenLead` fails when
the Healer releases the customer between `_finalize_deal`'s write of the lead
and its write of the state (`services/workflow_service.py:1740`).

*Learnt about the pipeline.* A process that dies between claim and job loses the
message, and so does a release of the claim that fails with the enqueueing,
against the comment at `api/routes/meta_webhook.py:178`; the legacy route
answers 200 to every failure. A slow answer loses one, too: Meta repeats the POST, the
copy finds the claim, skips the message and is answered 200; when the first copy
then fails to enqueue and releases its claim, its 503 comes too late and the
redelivery that the comment at `api/routes/meta_webhook.py:190` counts on never
comes (drop the second line of `Lossy` and TLC shows it). A retry gives the
order of messages up, and so does a picture, which is fetched before the lock is
asked for. `services/security_service.py:31`: a crash between count and expiry
blocks the chat until the key is deleted by hand, and so does an expiry that
raises: `check_rate_limit` swallows the error and lets the message pass, the
counter goes on to the limit. A claim that is written while its reply is lost is
released by nobody: the redelivery is skipped as a duplicate.

*Learnt about sends.* The worker takes a suppressed send (`None`) for a delivered
one: reminders and pages that were held back are counted as sent. The comments
at `core/constants.py:176` and `services/monitor_service.py:478` say a dead
watchdog never halts sends for ever; since the guard fails closed on a missing
confirmation, it does. A status "sent" that comes late overwrites "read". The
panel may be told "not sent" of a message that still goes out.

*Learnt about conversations.* `get_chat_history` fills the cache after two
queries; a pro's finish that falls in between clears the cache too early
(drop the second disjunct of `NothingOfAFinishedJob` and TLC shows it). If the
message found no active lead, its own prompt is clean all the
same (`FreshStart`): what was read is cut at the jobs that had ended when it came.
The panel's completion is undated, so what was written between approval and
completion is in the next request's prompt; the properties speak of jobs that
the customer or the pro completed. The history's
cutoff looks at completed leads first, so what belonged to a later rejected or cancelled request comes back
(`services/lead_manager_service.py:243`). A "yes" completes the newest booked
job whether or not the bot had asked. A deal that is being closed writes NEW
over a lead that a pro has booked meanwhile, and parks the customer over a
pause. The answer "2" to "something new?" pauses the chat without marking the
lead paused. A picture without a caption, or an emergency, opens a second lead
unasked (the code intends it). The pro's "resume" acts on the newest lead,
perhaps another customer's (`services/pro_flow.py:387`). No gate hands the pro's
answer to the selection or price question over (the repository's own expected
failures). A pro's finishing of a job leaves the customer's pause standing.

*Learnt about the scheduler.* A job and a nudge count their reminders in two
fields, so a pro gets up to twice `MAX_PRO_REMINDERS`. A reminder whose count is
lost goes out again: each dead worker or failed `$inc` costs one more. The
panel's question may be followed by the sweep's within the half minute before its
stamp, and by the sweep's next run when the stamp is lost; the panel asks about a
lead in any status, and its questions count towards the sweep's cap. A reassigned lead is
neither nudged nor offered again, for its customer's state was cleared. The
approval sweep's claim asks for the flags, not for the wait its query saw, so it
may nudge at the beginning of the next wait. The deflection (`README.md:29`)
waits as long as the state it looks for lives. One lost lock lets two runs
overlap, and their releases free each other's locks.

## 4. Proofs

Every theorem holds for every value of the constants that satisfies the named
assumptions of its module; for leads these are `SlotProAssumption`,
`BoundsAssumption` and `NullsAssumption`: any sets of customers, pros, leads and
slots, any number of handlers in flight. Every property of a passing run is a
theorem, but for the liveness properties and for `SlotLedger` with the sweeps
overlapping.

**Whoever overlaps, whatever dies** (`LeadBooking_proofs`):

* `TypeCorrect`: `Spec => []TypeOK`.
* `ReassignmentBounded`: `Spec => []ReassignmentBound`. The bound is not
  inductive: `ReassignGive` writes the count that was *read* plus one, awaits
  after the limit was tested. The invariant `WellFormed` adds that a handler
  past its first read has a lead in hand, and that one about to pass it on has
  read a count below the limit (`MayPassOn`). One lemma per group of actions
  (`ReadsKeep`, `ProStepsKeep`, `CustomerStepsKeep`, ...) shows that a step
  keeps it; `DataKeeps` is what is left to show of a step once its handler has
  moved on.

**While no two handlers work on one lead and none dies** (`Isolated`, in
`LeadCalendar_proofs`; both conditions are needed, see "Learnt while checking"):

* `CalendarIsExclusive`: `Isolated /\ Spec => []NoDoubleBooking`
* `CalendarIsExact`: `Isolated /\ Spec => []SlotLedger`
* `ImplementsSlotBook`: `Isolated /\ Spec => BookSpec`

Neither property is inductive: a release is by the slot id that was *read*, a
record writes the slot that was *claimed* steps earlier. The invariant
`Calendar` adds what makes those writes right: one handler per lead
(`Exclusive`), each handler's reads still true of the document (`ReadsStillTrue`,
step by step in `StillTrue`), and no hour on a lead that was never confirmed
(`NoHourYet`). The argument: what a lead holds depends only on its document and
the one handler on it (`HeldIn`, `HoldsIsLocal`); a step moves one handler and
one document, so it changes the hours of one lead, in one of three ways
(`HeldChange`: nothing, one free hour more, one own hour less); each way keeps
the ledger and is a step of `SlotBook` (`BookStaysExact`, `BookSteps`,
`StepKeepsCalendar`). What remains of each action is which of the three it is.

* `NobodyWaitsForNothing` (`LeadParking_proofs`):
  `Isolated /\ Spec => []ParkedCustomerHasOpenLead`

The customer is parked steps after the deal was written and released steps after
the lead was answered. `Parking` adds to `Calendar` that a conversation on its
way to a deal belongs to a customer who is not parked yet, and that at the last
step its lead is still NEW (`TalkersAreFree`); a lead that leaves NEW is in the
hands of a handler that ends in a release (`Open`).

**While no pro and no admin meets another handler on a lead, whatever dies**
(`SweepsOnly`, in `LeadSweeps_proofs`: the Healer, the approval SLA and the
customers overlap freely; with pros, the run `booking_lost` and a page about a
lead that was taken over in between show why not):

* `PagedOncePerTakeover`: `SweepsOnly /\ Spec => []OnePagePerTakeover`
* `BookingKept`: `SweepsOnly /\ Spec => BookingIsKept`

Two handlers may hold the same stale lead, so neither property follows from what
a handler has read. The invariant `Swept` says that only two can: the lead's
customer and the Healer (`OwnedByTwo`). Once the admin was paged, a second page
would need a handler that still has the lead in hand or a reason that was
overwritten; both find it at rest, out of the Healer's sight and with nobody
about to revive it (`PagedIsGuarded`, `PagedHasLocation`). A booked lead has no
handler left that read it before (`ConfirmedIsSettled`), since the approval that
booked it met nobody.

**The breaker, whatever fails** (`Outbound_proofs`, from `BreakerAssumption` and
`OutboundAssumption`):

* `FailsClosed`: `Spec => SparesDownAccount`
* `NoticesFollowPages`: `Spec => []NoticeAfterPage`
* `StatusesStand`: `Spec => []StatusStands`
* `WindowRespected`: `Spec => BlockedOnlyIfClosed`
* `PanelToldTheTruth`: `Spec => PanelTruth`
* `TypeCorrect`: `Spec => []TypeOK`

`SparesDownAccount` compares a POST with `bad`, how long the account has been
down, but the code knows neither: it read a key some steps before. The invariant
`IInv` says why that is enough: a confirmation is written in the tick in which
the probe looked (`ProbeIsFresh`) and loses a tick of life with every tick of
the outage, so it never outlives `ConfirmTtl` ticks of it
(`ConfirmationIsYoung`); a send that has read it is over before the next tick
(`SendIsYoung`). One lemma per group of actions shows that a step keeps the
watchdog's part (`WatchdogStep`, `WorldStep`, `TickStep`), one that a send keeps
its own (`SendingStep`); `FaultElsewhere`, `SendStands` and `MailStands` say
what a step that leaves the variables alone leaves true. An outage that was not
paged leaves no key `alerted` (`MarkedByPage`), which is what a recovery notice
needs. For the window, an open one is in Redis, on its way, or was missed
(`WindowIsKnown`).

`PanelTruth` says of every text that its pieces are stretches of it, in order,
within the limit, with only line breaks between and after them (`Tells`). A send
moves the pieces from `left` to `out` one by one (`PiecesInOrder`), so at the end
`out` is the split of the text. What `SplitText` makes of a text is recursive; the
induction rests on the least-number principle (`LeastNumber`, from the
library's well-foundedness of finite subsets): the recursion has one solution
(`SolutionsExist`, `SolutionsAgree`, `SplitOfText`), the rest after a cut is a
shorter stretch of the text (`RestIsShorter`, `RestOfText`), so a shortest text
that is cut wrongly would leave a shorter one (`SplitWhole`).

**Claims and the chat lock, whatever fails** (`Pipeline_proofs`, from
`MessagesAssumption` and `PipelineBounds`, for any messages, batches, copies and
limits):

* `Once`: `Spec => []HandledOnce`
* `OneJob`: `Spec => []OneJobPerChat`
* `TypeCorrect`: `Spec => []TypeOK`

`HandledOnce` counts jobs, which says nothing of the routes that are about to
make one. The invariant adds that a claim has one owner (`ClaimsOwned`): the
route that set it and has no job yet, or the job, or the shield's verdict; that
is why the release after a failed enqueueing cannot take back somebody else's
claim. A message was handled only by a job past the lock (`HandledByJob`), a
running job's chat is locked and by it alone (`LocksHeld`), until a lock is
lost. `HoldStep` and `LetGoStep` do the steps of a route, `QuietStep` and
`EnterStep` those of a job.

* `NoMutualStarvation`: `Spec => []DroppedBehindAnother`
* `NothingIsLost`: `EachInOneBatch /\ Spec => []Accounted`

A job goes back to the queue only when it found its chat's lock, and a lock was
set with another message of the chat (`LockByMessage`): so a job that was ever
deferred was overtaken (`DeferredBehind`), which a drop after the last try
inherits. For `Accounted`, a claim is not left behind: its message has a job, was
shed, or is in the hands of a route (`ClaimedKept`); what a route has passed is
kept or in the hands of *another* route (`PassedKept`), and only copies of the
same POST can share a message. `EachInOneBatch` says that no message comes in two
POSTs or by both routes, which is how the provider repeats them: TLC finds a
message lost without it (one POST's route answers 200 because the claim of the
other is there, whose enqueueing then fails).

**The gates of a conversation** (`Conversation_proofs`, any number of leads and
eras):

* `ConsentComesFirst`: `Spec => []ConsentFirst`
* `HistoryStaysApart`: `Spec => NothingOfAFinishedJob`
* `NewRequestStartsFresh`: `Spec => FreshStart`
* `OneIntake`: `Spec => []OneRequestTakenIn`
* `SecondRequestAsked`: `Spec => AskedBeforeSecond`
* `OpenRequestServed`: `Spec => ServedAsCustomer`
* `TypeCorrect`: `Spec => []TypeOK`

A handler goes on with copies of the state and of a lead that were read before an
AI call. The invariant says what is left of those reads: the copy is of a state
that a gate falls through with, the lead is there (`JobWhole`); consent, once
needed, is given up to the handler's last step (`ConsentGiven`), also for a
customer who is asked again (`Consenting`); a lead has ended in an era that is over (`Past`);
a history that is read from the database is younger than the jobs that were
completed when its message came, and a message without a lead reads it there
(`ReadsPast`), which is `FreshStart`; a handler that found no active lead still finds none
being taken in (`OneContacted`), and what was booked when its text was read has
been asked about or has ended (`SeenAsked`). `NothingOfAFinishedJob`
is no invariant: once a history was cached over a clear it stays. So every step is
shown to keep the invariant and to make nothing older (`Well`), with the one
exception the property names. The gates are a sequence of
conditions; which one acts is a fact about its first element, proved from the
least-number principle as well.

**The scheduler's jobs** (`Clock_proofs`, any number of workers, thresholds, caps
and failures; `IsFiniteSet(Workers)` because worker processes are finitely many):

* `NudgedOnce`: `Spec => []OncePerWait`
* `RemindersBounded`: `Spec => []RemindersCapped`
* `HoursOnce`: `Spec => []HoursMadeOnce`
* `GreetedOnce`: `Spec => []OneGreetingADay`
* `ChecksBounded`: `Spec => []ChecksCapped`
* `ChecksApart`: `Spec => ChecksSpaced`
* `TypeCorrect`: `Spec => []TypeOK`

The caps are read before a send and counted after it. The invariant counts the
workers between two steps (`About`): what was counted, and what the workers on
their way will count, leaves room under the cap, and what has gone out was
counted, will be, or is one of the failures (`RemindersLeft`, `StaleLeft`); so do
`HoursLeft` and `GreetingsLeft`. The sweep's questions are counted before they go
out, so they need no failure and no lock (`ChecksLeft`). The date on the lead is
as young as the last question, unless that was the panel's and is not stamped
(`Stamped`): this carries the cooldown over to the operator's questions. While no lock was lost a worker that runs a job
holds its lock (`LockHeld`), so at most one is about to; after a loss all may be,
one reminder more for each other worker. Nudge and offer need no lock: each is
sent by who sets the flag (`OncePerFlag`).

Only model-checked: liveness (`LeadIsDealtWith`, `BacklogDrains`, `ShieldLifts`,
`BreakerReopens`, `OutageIsPaged`, `RejectionIsPaged`), which is out of TLAPS's
reach, and `SlotLedger` with the sweeps overlapping. The violation runs are
counterexamples and need no proof.

## 5. Not modelled, and what is left

* **Which pro is found** (`determine_best_pro`: distance, rating, load): a free
  choice. Its limit of load is read before the assignment and is not kept by it.
* **A pro's average rating**: a read-modify-write that may lose a rating.
* **SLA deflection, janitor, report, backup**: the first two never find what they
  look for, the others read.
* **Templates**: every registered one is a draft.
* **Export and deletion of a user's data**: implemented, without a caller.
* **The account watchdog's toggle** (`whatsapp_monitor_active`, `scheduler.py:450`):
  with it off no run begins; the liveness properties of `outbound` speak of a
  watchdog that is on, which it is by default.
* **Most of the admin panel's forms** (a status set by hand other than the
  completion of a booked job, the slot editor, the bulk slot generation, which
  takes no lock) **and the wizard's menus**; analytics, health,
  configuration, logging, geocoding: no state the other parts depend on, or a
  separate process whose hazard is listed.
* **AI answers, prices, addresses, texts**: free choices or left out.

Worth proving next: `SlotLedger` and `BookSpec` with the sweeps overlapping (as
`SweepsOnly`); `SlotOfTheLeadsPro` and `NoDoubleBooking` for the handlers other than
the reschedule pick.
