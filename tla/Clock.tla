-------------------------------- MODULE Clock --------------------------------
(***************************************************************************)
(* The jobs of the scheduler, on several worker processes.                 *)
(*                                                                         *)
(* Every worker process starts the same jobs; a lock in Redis lets one of  *)
(* them run a job at a time.  The lock can be lost: it expires under a     *)
(* long run, its release deletes whoever's lock it finds, and a worker     *)
(* that does not reach Redis runs without it.  What may not happen twice   *)
(* is claimed in the document itself as well.                              *)
(*                                                                         *)
(* One lead and one pro stand for all: the jobs handle each on its own.    *)
(* The jobs that change who works on a lead are the subject of             *)
(* LeadBooking, the account watchdog of Breaker.                           *)
(***************************************************************************)
EXTENDS Naturals, FiniteSets, FiniteSetsExt

CONSTANTS
    Workers,      \* worker processes
    NoOne,        \* a lock nobody holds
    NudgeAfter,   \* APPROVAL_NUDGE_MINUTES
    OfferAfter,   \* APPROVAL_REASSIGN_OFFER_MINUTES
    Tier1, Tier2, Tier3,  \* ages at which the stale job monitor changes its mind
    Cooldown,     \* CUSTOMER_COMPLETION_CHECK_COOLDOWN_HOURS
    MaxChecks,    \* MAX_CUSTOMER_COMPLETION_CHECKS
    MaxReminders, \* MAX_PRO_REMINDERS
    MaxAsked,     \* bound: questions on the lead's count when an operator asks
    MaxFaults     \* bound: locks lost, failed writes and crashes

Jobs == {"approval", "unfinished", "nudger", "daily", "slots"}

ASSUME ClockAssumption ==
    /\ IsFiniteSet(Workers) /\ NoOne \notin Workers
    /\ {NudgeAfter, OfferAfter} \subseteq Nat \ {0} /\ NudgeAfter < OfferAfter
    /\ {Tier1, Tier2, Tier3} \subseteq Nat \ {0} /\ Tier1 < Tier2 /\ Tier2 < Tier3
    /\ Cooldown \in Nat \ {0} /\ MaxChecks \in Nat \ {0}
    /\ MaxReminders \in Nat \ {0} /\ MaxAsked \in Nat /\ MaxFaults \in Nat

VARIABLES
    lead,    \* the fields of the lead the jobs read or write
    day,     \* the day's good-morning: claimed (last_run_date), and the hours
             \* generated for the coming day
    lock,    \* lock:scheduler:<job>
    run,     \* what each worker is doing: a job, its next step, what it read
    panel,   \* the admin panel has asked the customer and not yet stamped the lead
    sent,    \* what has really gone out: history variable
    faults   \* faults so far, by kind: history variable

vars == <<lead, day, lock, run, panel, sent, faults>>

Lead == [status: {"new", "booked", "done"},
         waiting: BOOLEAN,        \* the customer's state is AWAITING_PRO_APPROVAL
         waited: 0..OfferAfter,   \* since pro_notified_at
         nudged: BOOLEAN,         \* approval_nudged
         offered: BOOLEAN,        \* reassign_offered
         age: 0..Tier3,           \* since created_at
         checks: Nat,             \* completion_check_sent_count
         since: 0..Cooldown,      \* since completion_check_sent_at, if there is one
         reminders: Nat,          \* reminder_sent_count
         stale: Nat,              \* reminders_sent
         flagged: BOOLEAN]        \* flag = "requires_admin"

Day == [claimed: BOOLEAN, hours: Nat]

Sent == [nudges: Nat, offers: Nat,   \* in this wait
         greetings: Nat,             \* on this day
         reminders: Nat, stale: Nat, \* to the pro, of either kind
         checks: Nat,                \* questions of the sweep to the customer
         quiet: 0..Cooldown,         \* since the customer was asked or declined
         unstamped: BOOLEAN]         \* ... by the panel, which has not stamped it

Faults == [lock: Nat,    \* a lock expired under its job, or Redis did not answer
           death: Nat,   \* a worker died
           count: Nat,   \* a reminder went out, and its $inc failed
           stamp: Nat]   \* the panel asked, and its stamp failed

Unread == <<>>    \* a run that keeps nothing of what it has read
Idle == [job |-> "none", at |-> "idle", seen |-> Unread]
Run == {Idle}
       \cup [job: Jobs, at: {"query"}, seen: {Unread}]
       \cup [job: {"approval"}, at: {"sla", "claim"},
             seen: [waited: 0..OfferAfter, nudged: BOOLEAN, offered: BOOLEAN]]
       \cup [job: {"unfinished"}, seen: {Unread},
             at: {"remind", "remind_send", "remind_count", "checks", "check", "ask", "flag"}]
       \cup [job: {"nudger", "daily", "slots"}, at: {"act"}, seen: {Unread}]
       \cup [job: {"nudger"}, at: {"count"}, seen: {Unread}]

NewLead == [status |-> "new", waiting |-> TRUE, waited |-> 0, nudged |-> FALSE,
            offered |-> FALSE, age |-> 0, checks |-> 0, since |-> Cooldown,
            reminders |-> 0, stale |-> 0, flagged |-> FALSE]

Init ==
    /\ lead = NewLead
    /\ day = [claimed |-> FALSE, hours |-> 0]
    /\ lock = [j \in Jobs |-> NoOne]
    /\ run = [w \in Workers |-> Idle]
    /\ panel = FALSE
    /\ sent = [nudges |-> 0, offers |-> 0, greetings |-> 0, reminders |-> 0, stale |-> 0,
               checks |-> 0, quiet |-> Cooldown, unstamped |-> FALSE]
    /\ faults = [lock |-> 0, death |-> 0, count |-> 0, stamp |-> 0]

-----------------------------------------------------------------------------
(* The lock: with_scheduler_lock *)

AllFaults == faults.lock + faults.death + faults.count + faults.stamp
Fault(kind) == AllFaults < MaxFaults /\ faults' = [faults EXCEPT ![kind] = @ + 1]
Begin(w, j) == run' = [run EXCEPT ![w] = [job |-> j, at |-> "query", seen |-> Unread]]
GoTo(w, step) == run' = [run EXCEPT ![w].at = step, ![w].seen = Unread]

\* mutant: the run that is skipped releases the lock as well
TryLockReleasing(w, j) ==
    /\ run[w] = Idle
    /\ IF lock[j] = NoOne
       THEN lock' = [lock EXCEPT ![j] = w] /\ Begin(w, j)
       ELSE lock' = [lock EXCEPT ![j] = NoOne] /\ UNCHANGED run
    /\ UNCHANGED <<lead, day, panel, sent, faults>>

\* mutant: SET EX, without NX
TryLockWithoutNX(w, j) ==
    /\ run[w] = Idle
    /\ lock' = [lock EXCEPT ![j] = w] /\ Begin(w, j)
    /\ UNCHANGED <<lead, day, panel, sent, faults>>

\* A timer fires: SET NX EX.  A worker that finds the lock held skips the run.
TryLock(w, j) ==
    /\ run[w] = Idle
    /\ IF lock[j] = NoOne
       THEN lock' = [lock EXCEPT ![j] = w] /\ Begin(w, j)
       ELSE UNCHANGED <<lock, run>>
    /\ UNCHANGED <<lead, day, panel, sent, faults>>

\* Redis does not answer: the job runs all the same.
RunUnlocked(w, j) ==
    /\ run[w] = Idle /\ Fault("lock")
    /\ Begin(w, j)
    /\ UNCHANGED <<lead, day, lock, panel, sent>>

\* The end of a run, in its finally block: DEL, whoever holds the lock.
Finish(w) ==
    /\ run' = [run EXCEPT ![w] = Idle]
    /\ lock' = [lock EXCEPT ![run[w].job] = NoOne]

\* The TTL: of a worker that died, or of one that takes longer.
LockExpires(j) ==
    /\ lock[j] # NoOne
    /\ IF run[lock[j]].job = j THEN Fault("lock") ELSE UNCHANGED faults
    /\ lock' = [lock EXCEPT ![j] = NoOne]
    /\ UNCHANGED <<lead, day, run, panel, sent>>

WorkerDies(w) ==
    /\ run[w] # Idle /\ Fault("death")
    /\ run' = [run EXCEPT ![w] = Idle]
    /\ UNCHANGED <<lead, day, lock, panel, sent>>

\* The toggle is off, it is night, or an error reaches the wrapper.
GivesUp(w) ==
    /\ run[w].at = "query"
    /\ Finish(w)
    /\ UNCHANGED <<lead, day, panel, sent, faults>>

-----------------------------------------------------------------------------
(* check_pro_approval_sla *)

SlaQuery(w) ==
    /\ run[w].job = "approval" /\ run[w].at = "query"
    /\ IF lead.status = "new" /\ ~(lead.nudged /\ lead.offered)
       THEN /\ run' = [run EXCEPT ![w].at = "sla",
                          ![w].seen = [waited |-> lead.waited, nudged |-> lead.nudged,
                                       offered |-> lead.offered]]
            /\ UNCHANGED lock
       ELSE Finish(w)
    /\ UNCHANGED <<lead, day, panel, sent, faults>>

\* mutant: the lead is read again
SlaStateForgetting(w) ==
    /\ run[w].at = "sla"
    /\ IF lead.waiting THEN GoTo(w, "claim") /\ UNCHANGED lock
       ELSE Finish(w)
    /\ UNCHANGED <<lead, day, panel, sent, faults>>

\* Only while the customer waits.
SlaState(w) ==
    /\ run[w].at = "sla"
    /\ IF lead.waiting THEN run' = [run EXCEPT ![w].at = "claim"] /\ UNCHANGED lock
       ELSE Finish(w)
    /\ UNCHANGED <<lead, day, panel, sent, faults>>

\* mutant: the claim trusts what the sweep read
SlaClaimOnSnapshot(w) ==
    LET seen == run[w].seen IN
    /\ run[w].at = "claim"
    /\ Finish(w)
    /\ \/ /\ seen.waited >= OfferAfter /\ ~seen.offered
          /\ lead' = [lead EXCEPT !.offered = TRUE]
          /\ sent' = [sent EXCEPT !.offers = @ + 1]
       \/ /\ seen.waited < OfferAfter \/ seen.offered
          /\ UNCHANGED <<lead, sent>>
    /\ UNCHANGED <<day, panel, faults>>

\* The customer is offered another pro, in business hours; or the pro is nudged.
SlaClaim(w) ==
    LET seen == run[w].seen IN
    /\ run[w].at = "claim"
    /\ Finish(w)
    /\ \/ /\ seen.waited >= OfferAfter /\ ~seen.offered
          /\ IF lead.status = "new" /\ ~lead.offered
             THEN /\ lead' = [lead EXCEPT !.offered = TRUE]
                  /\ sent' = [sent EXCEPT !.offers = @ + 1]
             ELSE UNCHANGED <<lead, sent>>
       \/ /\ seen.waited >= NudgeAfter /\ ~seen.nudged
          /\ IF lead.status = "new" /\ ~lead.nudged
             THEN /\ lead' = [lead EXCEPT !.nudged = TRUE]
                  /\ sent' = [sent EXCEPT !.nudges = @ + 1]
             ELSE UNCHANGED <<lead, sent>>
       \/ (seen.waited < NudgeAfter \/ seen.nudged) /\ UNCHANGED <<lead, sent>>
    /\ UNCHANGED <<day, panel, faults>>

-----------------------------------------------------------------------------
(* monitor_unfinished_jobs: three tiers by age *)

SweepOnly == UNCHANGED <<day, panel>>

\* Tier 1
UnfinishedQuery(w) ==
    /\ run[w].job = "unfinished" /\ run[w].at = "query"
    /\ GoTo(w, IF lead.status = "booked" /\ lead.age \in Tier1..(Tier2 - 1)
               THEN "remind" ELSE "checks")
    /\ SweepOnly /\ UNCHANGED <<lead, lock, sent, faults>>

\* send_pro_reminder reads the lead again.
Remind(w) ==
    /\ run[w].at = "remind"
    /\ GoTo(w, IF lead.status = "booked" /\ lead.reminders < MaxReminders
               THEN "remind_send" ELSE "checks")
    /\ SweepOnly /\ UNCHANGED <<lead, lock, sent, faults>>

\* _send_best_effort: a message that does not go out is counted all the same.
RemindSend(w) ==
    /\ run[w].at = "remind_send"
    /\ \/ sent' = [sent EXCEPT !.reminders = @ + 1]
       \/ UNCHANGED sent
    /\ GoTo(w, "remind_count")
    /\ SweepOnly /\ UNCHANGED <<lead, lock, faults>>

\* $inc, or an error that send_pro_reminder swallows
RemindCount(w) ==
    /\ run[w].at = "remind_count"
    /\ \/ lead' = [lead EXCEPT !.reminders = @ + 1] /\ UNCHANGED faults
       \/ Fault("count") /\ UNCHANGED lead
    /\ GoTo(w, "checks")
    /\ SweepOnly /\ UNCHANGED <<lock, sent>>

\* mutant: the cooldown without the cap
DueUncapped == lead.since >= Cooldown

\* completion_check_due_filter
Due == lead.checks < MaxChecks /\ lead.since >= Cooldown

\* Tier 2
ChecksQuery(w) ==
    /\ run[w].at = "checks"
    /\ GoTo(w, IF lead.status = "booked" /\ lead.age \in Tier2..(Tier3 - 1) /\ Due
               THEN "check" ELSE "flag")
    /\ SweepOnly /\ UNCHANGED <<lead, lock, sent, faults>>

\* the count and the date of a question, whoever asks it
Stamp == lead' = [lead EXCEPT !.checks = @ + 1, !.since = 0]
Noted == sent' = [sent EXCEPT !.quiet = 0, !.unstamped = FALSE]

\* send_customer_completion_check: the filter holds when the question is claimed,
Check(w) ==
    /\ run[w].at = "check"
    /\ IF lead.status = "booked" /\ Due
       THEN Stamp /\ Noted /\ GoTo(w, "ask") ELSE GoTo(w, "flag") /\ UNCHANGED <<lead, sent>>
    /\ SweepOnly /\ UNCHANGED <<lock, faults>>

\* which goes out then, or is lost with the error that is swallowed.
Ask(w) ==
    /\ run[w].at = "ask"
    /\ \/ sent' = [sent EXCEPT !.checks = @ + 1]
       \/ UNCHANGED sent
    /\ GoTo(w, "flag")
    /\ SweepOnly /\ UNCHANGED <<lead, lock, faults>>

\* Tier 3
Flag(w) ==
    /\ run[w].at = "flag"
    /\ lead' = IF lead.status = "booked" /\ lead.age >= Tier3
               THEN [lead EXCEPT !.flagged = TRUE] ELSE lead
    /\ Finish(w)
    /\ SweepOnly /\ UNCHANGED <<sent, faults>>

-----------------------------------------------------------------------------
(* remind_stale_booked_leads, with a counter of its own *)

StaleQuery(w) ==
    /\ run[w].job = "nudger" /\ run[w].at = "query"
    /\ IF lead.status = "booked" /\ lead.age >= Tier3 /\ lead.stale < MaxReminders
       THEN GoTo(w, "act") /\ UNCHANGED lock ELSE Finish(w)
    /\ UNCHANGED <<lead, day, panel, sent, faults>>

\* A message that does not go out is not counted.
StaleSend(w) ==
    /\ run[w].job = "nudger" /\ run[w].at = "act"
    /\ \/ sent' = [sent EXCEPT !.stale = @ + 1] /\ GoTo(w, "count") /\ UNCHANGED lock
       \/ Finish(w) /\ UNCHANGED sent
    /\ UNCHANGED <<lead, day, panel, faults>>

\* $inc, or an error: of the $inc, or of a send whose message went out
StaleCount(w) ==
    /\ run[w].at = "count"
    /\ \/ lead' = [lead EXCEPT !.stale = @ + 1] /\ UNCHANGED faults
       \/ Fault("count") /\ UNCHANGED lead
    /\ Finish(w)
    /\ UNCHANGED <<day, panel, sent>>

-----------------------------------------------------------------------------
(* daily_reminders_job and run_slot_regeneration *)

\* mutant: the date is read but not recorded
DailyUnclaimed(w) ==
    /\ run[w].job = "daily" /\ run[w].at = "query"
    /\ GoTo(w, "act")
    /\ UNCHANGED <<lead, day, lock, panel, sent, faults>>

\* find_one_and_update claims the date.
DailyClaim(w) ==
    /\ run[w].job = "daily" /\ run[w].at = "query"
    /\ IF day.claimed THEN Finish(w) /\ UNCHANGED day
       ELSE GoTo(w, "act") /\ day' = [day EXCEPT !.claimed = TRUE] /\ UNCHANGED lock
    /\ UNCHANGED <<lead, panel, sent, faults>>

\* send_daily_reminders: the pro's booked jobs of the day, if any
Greet(w) ==
    /\ run[w].job = "daily" /\ run[w].at = "act"
    /\ sent' = IF lead.status = "booked" THEN [sent EXCEPT !.greetings = @ + 1] ELSE sent
    /\ Finish(w)
    /\ UNCHANGED <<lead, day, panel, faults>>

\* generate_slots_from_template counts the day's hours and later inserts them.
SlotsCount(w) ==
    /\ run[w].job = "slots" /\ run[w].at = "query"
    /\ IF day.hours = 0 THEN GoTo(w, "act") /\ UNCHANGED lock ELSE Finish(w)
    /\ UNCHANGED <<lead, day, panel, sent, faults>>

SlotsInsert(w) ==
    /\ run[w].job = "slots" /\ run[w].at = "act"
    /\ day' = [day EXCEPT !.hours = @ + 1]
    /\ Finish(w)
    /\ UNCHANGED <<lead, panel, sent, faults>>

-----------------------------------------------------------------------------
(* Time, the pro and the customer *)

\* One unit of time: minutes while the lead waits, hours once it is booked.
Tick ==
    /\ lead.status # "done"
    /\ lead' = [lead EXCEPT
                  !.waited = IF lead.status = "new" THEN Min({@ + 1, OfferAfter}) ELSE @,
                  !.age = IF lead.status = "booked" THEN Min({@ + 1, Tier3}) ELSE @,
                  !.since = Min({@ + 1, Cooldown})]
    /\ sent' = [sent EXCEPT !.quiet = Min({@ + 1, Cooldown})]
    /\ UNCHANGED <<day, lock, run, panel, faults>>

Midnight ==
    /\ \A w \in Workers : ~(run[w].job \in {"daily", "slots"} /\ run[w].at = "act")
    /\ day' = [claimed |-> FALSE, hours |-> 0]
    /\ sent' = [sent EXCEPT !.greetings = 0]
    /\ UNCHANGED <<lead, lock, run, panel, faults>>

\* The lead as it is when a wait begins or ends; the rest of it stays.
Restarted(waiting) ==
    [lead EXCEPT !.waiting = waiting, !.waited = 0, !.nudged = FALSE, !.offered = FALSE]

\* The wait starts anew: a reassignment, or a customer who keeps waiting.
WaitAnew ==
    /\ lead.status = "new"
    /\ \/ lead' = Restarted(FALSE)
       \/ lead.waiting /\ lead.offered /\ lead' = Restarted(TRUE)
    /\ sent' = [sent EXCEPT !.nudges = 0, !.offers = 0]
    /\ UNCHANGED <<day, lock, run, panel, faults>>

\* PRO_APPROVAL_TTL_SECONDS
WaitExpires ==
    /\ lead.status = "new" /\ lead.waiting
    /\ lead' = [lead EXCEPT !.waiting = FALSE]
    /\ UNCHANGED <<day, lock, run, panel, sent, faults>>

\* The flags of the wait mean nothing once it is over.
WaitEnds(status, age) ==
    /\ lead' = [Restarted(FALSE) EXCEPT !.status = status, !.age = age]
    /\ sent' = [sent EXCEPT !.nudges = 0, !.offers = 0]
    /\ UNCHANGED <<day, lock, run, panel, faults>>

\* A job may be booked long after the lead was created.
Approved == lead.status = "new" /\ \E age \in 0..Tier3 : WaitEnds("booked", age)
Ended == lead.status # "done" /\ WaitEnds("done", 0)

\* _handle_completion_check_decline: the customer answers "not yet".
NotYet ==
    /\ lead.status = "booked" /\ lead.checks > 0
    /\ lead' = [lead EXCEPT !.since = 0]
    /\ Noted
    /\ UNCHANGED <<day, lock, run, panel, faults>>

-----------------------------------------------------------------------------
(* The operator, who asks past the cap and the cooldown *)

\* The panel's button: the question goes out, about a lead in any status,
PanelAsks ==
    /\ ~panel /\ lead.checks < MaxAsked
    /\ panel' = TRUE
    /\ sent' = [sent EXCEPT !.quiet = 0, !.unstamped = TRUE]
    /\ UNCHANGED <<lead, day, lock, run, faults>>

\* mutant: the stamp counts the question and leaves the date
PanelStampsUndated ==
    /\ panel /\ panel' = FALSE
    /\ lead' = [lead EXCEPT !.checks = @ + 1]
    /\ sent' = [sent EXCEPT !.unstamped = FALSE]
    /\ UNCHANGED <<day, lock, run, faults>>

\* and the lead is stamped once the send has returned (send_text_sync never
\* raises, and blocks for 30 s at most);
PanelStamps ==
    /\ panel /\ panel' = FALSE
    /\ Stamp /\ sent' = [sent EXCEPT !.unstamped = FALSE]
    /\ UNCHANGED <<day, lock, run, faults>>

\* but for a panel that dies or does not reach the database.
PanelFails ==
    /\ panel /\ panel' = FALSE
    /\ Fault("stamp")
    /\ UNCHANGED <<lead, day, lock, run, sent>>

\* send_customer_completion_check with triggered_by # "auto", which claims a
\* booked lead without the due filter; nothing in the code calls it so yet.
OperatorChecks ==
    /\ lead.status = "booked" /\ lead.checks < MaxAsked
    /\ Stamp /\ Noted
    /\ UNCHANGED <<day, lock, run, panel, faults>>

-----------------------------------------------------------------------------
Step(w) ==
    \/ SlaQuery(w) \/ SlaState(w) \/ SlaClaim(w)
    \/ UnfinishedQuery(w) \/ Remind(w) \/ RemindSend(w) \/ RemindCount(w)
    \/ ChecksQuery(w) \/ Check(w) \/ Ask(w) \/ Flag(w)
    \/ StaleQuery(w) \/ StaleSend(w) \/ StaleCount(w)
    \/ DailyClaim(w) \/ Greet(w) \/ SlotsCount(w) \/ SlotsInsert(w)

Next ==
    \/ \E w \in Workers :
         \/ Step(w) \/ GivesUp(w) \/ WorkerDies(w)
         \/ \E j \in Jobs : TryLock(w, j) \/ RunUnlocked(w, j)
    \/ \E j \in Jobs : LockExpires(j)
    \/ Tick \/ Midnight \/ WaitAnew \/ WaitExpires \/ Approved \/ Ended \/ NotYet
    \/ PanelAsks \/ PanelStamps \/ PanelFails \/ OperatorChecks

Spec == Init /\ [][Next]_vars

-----------------------------------------------------------------------------
\* Every variable keeps its type; in particular a claim of the approval SLA has
\* the document its sweep has read.
TypeOK ==
    /\ lead \in Lead /\ day \in Day /\ sent \in Sent
    /\ lock \in [Jobs -> Workers \cup {NoOne}]
    /\ run \in [Workers -> Run]
    /\ panel \in BOOLEAN
    /\ faults \in Faults /\ AllFaults <= MaxFaults

\* Neither reminder to the pro goes out more than MaxReminders times, but for
\* what these failures cost: one for every reminder whose count was lost, with its
\* worker or with its $inc, and one for every other worker when a lock was lost,
\* for the cap is read before the send (send_pro_reminder,
\* remind_stale_booked_leads).
RemindersCapped ==
    LET cap == MaxReminders + faults.death + faults.count
                 + IF faults.lock = 0 THEN 0 ELSE Cardinality(Workers) - 1
    IN sent.reminders <= cap /\ sent.stale <= cap

\* No hour of a pro's day is generated twice while no lock is lost: two copies
\* of an hour could be booked for two jobs (generate_slots_from_template counts
\* the day's slots and inserts them later).
HoursMadeOnce == faults.lock = 0 => day.hours <= 1

\* In one wait for the pro's approval the pro is nudged once at most and the
\* customer is offered another pro once at most, however the sweeps overlap
\* (check_pro_approval_sla: "overlapping ticks can't double-send").
OncePerWait == sent.nudges <= 1 /\ sent.offers <= 1

\* A pro gets one good-morning message a day, however many workers send it and
\* whatever becomes of the lock (daily_reminders_job).
OneGreetingADay == sent.greetings <= 1

\* The sweep asks a customer MaxChecks times at most whether the job is done,
\* however many workers sweep at once, with a lock or without, and whatever an
\* operator asks in between (completion_check_due_filter).
ChecksCapped == sent.checks <= MaxChecks

\* The sweep claims a question only about a job that is booked, and a full
\* cooldown after the customer was last asked, by whomever, or has declined; but
\* for a question of the panel that the panel has not stamped on the lead
\* (send_customer_completion_check: "two worker replicas ticking at the same
\* moment can never both win the claim", "the scheduler waits a full cooldown
\* before piling on top of" an operator's question).
ChecksSpaced ==
    [][\A w \in Workers : run[w].at = "check" /\ run'[w].at = "ask"
          => lead.status = "booked" /\ (sent.quiet = Cooldown \/ sent.unstamped)]_vars

=============================================================================
