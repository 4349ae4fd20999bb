-------------------------------- MODULE Breaker --------------------------------
(***************************************************************************)
(* The outbound circuit breaker: the account watchdog of monitor_service,  *)
(* which probes the WhatsApp account once per tick (2 minutes) and writes  *)
(* three Redis keys, and the two Redis reads by which the facade decides   *)
(* whether a message may leave.  The confirmation key must be there and    *)
(* the pause keys must not; the watchdog's keys expire by themselves.      *)
(*                                                                         *)
(* Time is counted in ticks.  A probe and the writes after it take seconds *)
(* (HTTP times out after 30), so Tick waits for them; a worker that is     *)
(* down does not probe and the keys age.                                   *)
(***************************************************************************)
EXTENDS Naturals, FiniteSets

CONSTANTS
    ConfirmTtl,    \* WA_STATE_CONFIRM_TTL_SECONDS, in ticks (3)
    PauseTtl,      \* WA_STATE_PAUSE_TTL_SECONDS, in ticks (3)
    Threshold,     \* WA_STATE_ALERT_THRESHOLD_MINUTES, in ticks
    Realert,       \* WA_STATE_REALERT_MINUTES, in ticks
    MaxFaults,     \* bound: failures in an execution
    MaxDeploys     \* bound: restarts of the worker

ASSUME BreakerAssumption ==
    /\ ConfirmTtl \in Nat \ {0} /\ PauseTtl \in Nat \ {0}
    /\ Threshold \in Nat /\ Realert \in Nat \ {0}
    /\ MaxFaults \in Nat /\ MaxDeploys \in Nat

VARIABLES
    account,     \* what WhatsApp thinks of the account
    bad,         \* history: ticks since the account was last authorized
    paused,      \* wa:instance:paused: ticks to live, 0 when absent
    manual,      \* wa:instance:paused:manual, the operator's kill switch
    confirmed,   \* wa:instance:state = "authorized": ticks to live
    downFor,     \* ticks since wa:instance:down_since, NoClock when absent
    alerted,     \* wa:instance:alerted
    lastAlert,   \* wa:instance:last_alert: ticks to live
    monitor,     \* the watchdog's run: its next step and what its probe saw
    due,         \* this tick's run of the watchdog is still to come
    up,          \* the worker process runs
    mute,        \* WHATSAPP_DRY_RUN: the process cannot transmit
    paged,       \* history: the operator was paged since the account was last seen well
    notices,     \* history: the sorts of recovery notices sent
    faults, deploys

watchVars == <<account, bad, paused, manual, confirmed, downFor, alerted,
               lastAlert, monitor, due, up, mute, paged, notices, deploys>>
breakerVars == <<watchVars, faults>>

NoClock == Threshold + 1
Cap(n, top) == IF n < top THEN n ELSE top
Less(n) == IF n = 0 THEN 0 ELSE n - 1

Watch == [at: {"idle", "record", "decide", "clock", "page"}, saw: {"authorized", "other"}]
Resting == [at |-> "idle", saw |-> "other"]

BreakerInit ==
    /\ account \in {"authorized", "other"} /\ bad = 0
    /\ paused = 0 /\ manual = FALSE /\ confirmed = 0
    /\ downFor = NoClock /\ alerted = FALSE /\ lastAlert = 0
    /\ monitor = Resting /\ due = TRUE /\ up = TRUE /\ mute \in BOOLEAN
    /\ paged = FALSE /\ notices = {} /\ faults = 0 /\ deploys = 0

Fault == faults < MaxFaults /\ faults' = faults + 1

-----------------------------------------------------------------------------
(* The world: the account, the operator, the process, the clock.           *)

AccountChanges ==
    /\ account' = IF account = "authorized" THEN "other" ELSE "authorized"
    /\ bad' = 0
    /\ Fault
    /\ UNCHANGED <<paused, manual, confirmed, downFor, alerted, lastAlert, monitor,
                   due, up, mute, paged, notices, deploys>>

KillSwitch ==
    /\ manual' = ~manual
    /\ Fault
    /\ UNCHANGED <<account, bad, paused, confirmed, downFor, alerted, lastAlert,
                   monitor, due, up, mute, paged, notices, deploys>>

WorkerStops ==
    /\ up /\ Fault
    /\ up' = FALSE /\ monitor' = Resting
    /\ UNCHANGED <<account, bad, paused, manual, confirmed, downFor, alerted,
                   lastAlert, due, mute, paged, notices, deploys>>

\* a deployment starts the worker again, with the dry-run switch set or not
Deploy ==
    /\ ~up /\ deploys < MaxDeploys
    /\ up' = TRUE /\ mute' \in BOOLEAN /\ deploys' = deploys + 1
    /\ UNCHANGED <<account, bad, paused, manual, confirmed, downFor, alerted,
                   lastAlert, monitor, due, paged, notices, faults>>

\* two minutes pass: keys age, and the next run of the watchdog is due
Tick ==
    /\ monitor = Resting /\ (up => ~due)
    /\ due' = TRUE
    /\ bad' = IF account = "authorized" THEN 0 ELSE Cap(bad + 1, ConfirmTtl + 1)
    /\ paused' = Less(paused) /\ confirmed' = Less(confirmed)
    /\ lastAlert' = Less(lastAlert)
    /\ downFor' = IF downFor = NoClock THEN NoClock ELSE Cap(downFor + 1, Threshold)
    /\ UNCHANGED <<account, manual, alerted, monitor, up, mute, paged, notices,
                   faults, deploys>>

-----------------------------------------------------------------------------
(* check_whatsapp_instance_state                                           *)

\* a provider that cannot transmit has no account to watch
Skip ==
    /\ up /\ mute /\ due
    /\ due' = FALSE
    /\ UNCHANGED <<account, bad, paused, manual, confirmed, downFor, alerted,
                   lastAlert, monitor, up, mute, paged, notices, faults, deploys>>

\* get_state: "CONNECTED" is authorized; a probe that fails sees None
Probe ==
    /\ up /\ ~mute /\ due /\ monitor = Resting
    /\ due' = FALSE
    /\ \/ monitor' = [at |-> "record", saw |-> account] /\ UNCHANGED faults
       \/ monitor' = [at |-> "record", saw |-> "other"] /\ Fault
    /\ UNCHANGED <<account, bad, paused, manual, confirmed, downFor, alerted,
                   lastAlert, up, mute, paged, notices, deploys>>

\* mutant: the confirmation is published on a change only
RecordOnChange ==
    /\ monitor.at = "record"
    /\ confirmed' = IF monitor.saw # "authorized" THEN 0
                    ELSE IF downFor # NoClock THEN ConfirmTtl ELSE confirmed
    /\ monitor' = [monitor EXCEPT !.at = "decide"]
    /\ UNCHANGED <<account, bad, paused, manual, downFor, alerted, lastAlert, due,
                   up, mute, paged, notices, faults, deploys>>

\* record_account_state: any other answer deletes the confirmation at once
Record ==
    /\ monitor.at = "record"
    /\ \/ /\ confirmed' = IF monitor.saw = "authorized" THEN ConfirmTtl ELSE 0
          /\ UNCHANGED faults
       \/ Fault /\ UNCHANGED confirmed
    /\ monitor' = [monitor EXCEPT !.at = "decide"]
    /\ UNCHANGED <<account, bad, paused, manual, downFor, alerted, lastAlert, due,
                   up, mute, paged, notices, deploys>>

\* authorized: release the breaker, forget the outage, and say so if it was paged
Recover ==
    /\ monitor.at = "decide" /\ monitor.saw = "authorized"
    /\ paused' = 0 /\ downFor' = NoClock /\ alerted' = FALSE /\ lastAlert' = 0
    /\ notices' = IF downFor # NoClock /\ alerted
                  THEN notices \cup {IF paged THEN "after_page" ELSE "without_page"}
                  ELSE notices
    /\ paged' = FALSE
    /\ monitor' = Resting
    /\ UNCHANGED <<account, bad, manual, confirmed, due, up, mute, faults, deploys>>

\* mutant: the new pause is added to what is left of the old one
HaltLonger ==
    /\ monitor.at = "decide" /\ monitor.saw # "authorized"
    /\ paused' = paused + PauseTtl
    /\ monitor' = [monitor EXCEPT !.at = "clock"]
    /\ UNCHANGED <<account, bad, manual, confirmed, downFor, alerted, lastAlert, due,
                   up, mute, paged, notices, faults, deploys>>

\* not authorized: pause at once, before looking at the clock of the outage
Halt ==
    /\ monitor.at = "decide" /\ monitor.saw # "authorized"
    /\ paused' = PauseTtl
    /\ monitor' = [monitor EXCEPT !.at = "clock"]
    /\ UNCHANGED <<account, bad, manual, confirmed, downFor, alerted, lastAlert, due,
                   up, mute, paged, notices, faults, deploys>>

\* mutants: every bad probe restarts the clock; the page is noted before it is due
TimeOutageAnew ==
    /\ monitor.at = "clock"
    /\ downFor' = 0
    /\ IF downFor = Threshold /\ lastAlert = 0
       THEN lastAlert' = Realert /\ monitor' = [monitor EXCEPT !.at = "page"]
       ELSE UNCHANGED lastAlert /\ monitor' = Resting
    /\ UNCHANGED <<account, bad, paused, manual, confirmed, alerted, due, up, mute,
                   paged, notices, faults, deploys>>
TimeOutageNoting ==
    /\ monitor.at = "clock"
    /\ downFor' = IF downFor = NoClock THEN 0 ELSE downFor
    /\ IF downFor = Threshold /\ lastAlert = 0
       THEN /\ lastAlert' = Realert /\ alerted' = TRUE
            /\ monitor' = [monitor EXCEPT !.at = "page"]
       ELSE UNCHANGED <<lastAlert, alerted>> /\ monitor' = Resting
    /\ UNCHANGED <<account, bad, paused, manual, confirmed, due, up, mute,
                   paged, notices, faults, deploys>>

\* the first bad probe starts the clock; from Threshold on, one page per Realert
TimeOutage ==
    /\ monitor.at = "clock"
    /\ downFor' = IF downFor = NoClock THEN 0 ELSE downFor
    /\ IF downFor = Threshold /\ lastAlert = 0
       THEN lastAlert' = Realert /\ monitor' = [monitor EXCEPT !.at = "page"]
       ELSE UNCHANGED lastAlert /\ monitor' = Resting
    /\ UNCHANGED <<account, bad, paused, manual, confirmed, alerted, due, up, mute,
                   paged, notices, faults, deploys>>

Page ==
    /\ monitor.at = "page"
    /\ alerted' = TRUE /\ paged' = TRUE
    /\ monitor' = Resting
    /\ UNCHANGED <<account, bad, paused, manual, confirmed, downFor, lastAlert, due,
                   up, mute, notices, faults, deploys>>

\* a Redis error ends the run with a line in the log
MonitorFails ==
    /\ monitor.at \in {"decide", "clock", "page"} /\ Fault
    /\ monitor' = Resting
    /\ UNCHANGED <<account, bad, paused, manual, confirmed, downFor, alerted,
                   lastAlert, due, up, mute, paged, notices, deploys>>

-----------------------------------------------------------------------------
Watchdog == Skip \/ Probe \/ Record \/ Recover \/ Halt \/ TimeOutage \/ Page
World == AccountChanges \/ KillSwitch \/ WorkerStops \/ Deploy \/ MonitorFails

\* _outbound_blocked_reason finds nothing against a send
Clear == paused = 0 /\ ~manual
Permitted == Clear /\ confirmed > 0

BreakerTypeOK ==
    /\ account \in {"authorized", "other"} /\ bad \in 0..(ConfirmTtl + 1)
    /\ paused \in 0..PauseTtl /\ manual \in BOOLEAN /\ confirmed \in 0..ConfirmTtl
    /\ downFor \in 0..NoClock /\ alerted \in BOOLEAN /\ lastAlert \in 0..Realert
    /\ monitor \in Watch /\ due \in BOOLEAN /\ up \in BOOLEAN /\ mute \in BOOLEAN
    /\ paged \in BOOLEAN /\ notices \subseteq {"after_page", "without_page"}
    /\ faults \in 0..MaxFaults /\ deploys \in 0..MaxDeploys

=============================================================================
