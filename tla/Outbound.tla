-------------------------------- MODULE Outbound --------------------------------
(***************************************************************************)
(* One message on its way out, under the circuit breaker.                  *)
(*                                                                         *)
(* A coroutine of the worker, or the admin panel's blocking bridge, sends  *)
(* through the facade: two Redis reads decide whether the breaker lets it  *)
(* pass, a third whether the recipient's 24-hour window is open; the text  *)
(* is POSTed to Meta in pieces and each accepted piece is recorded.  Meta  *)
(* judges by its own window and reports the fate of a piece to the webhook *)
(* later, in any order and until it is answered 200.                       *)
(*                                                                         *)
(* The template registry approves no template at this commit, so a closed  *)
(* window and a rejected message have no fallback but the operator's page. *)
(***************************************************************************)
EXTENDS Breaker, Sequences, SequencesExt

CONSTANTS
    Bodies,        \* the texts that are sent, sequences of "x" and "n" (newline)
    TextLimit,     \* _TEXT_BODY_LIMIT (4096)
    MaxSends,      \* bound: messages sent
    MaxWrites      \* bound: messages the recipient writes

Text == Seq({"x", "n"})

ASSUME OutboundAssumption ==
    /\ Bodies \subseteq Text /\ TextLimit \in Nat \ {0, 1}
    /\ MaxSends \in Nat /\ MaxWrites \in Nat

VARIABLES
    send,       \* the coroutine that sends, and what it has left to POST
    told,       \* what the caller was told of it
    mail,       \* the accepted messages, by WhatsApp message id
    window,     \* the 24-hour window, as Meta and as Redis know it
    sends, writes

sendVars == <<send, told, mail, window, sends, writes>>
vars == <<breakerVars, sendVars>>

Steps == {"idle", "guard", "confirm", "window", "post", "record"}
Kinds == {"text", "file", "audio", "caption"}
NoSend == [at |-> "idle", by |-> "worker", kind |-> "text", body |-> <<>>, left |-> <<>>,
           out |-> <<>>, unread |-> FALSE]

\* a row of wa_delivery: its status, what Meta has still to report of the message,
\* and what was reported last
Message == [row: {"absent", "accepted", "delivered", "failed"},
            report: {"none", "delivered", "failed"}, seen: {"none", "delivered", "failed"},
            paged: BOOLEAN]

Window == [meta: BOOLEAN, key: BOOLEAN,
           pending: {"none", "text", "sticker"},   \* an inbound POST not handled yet
           missed: BOOLEAN]     \* history: the last open_service_window failed

Init ==
    /\ BreakerInit
    /\ send = NoSend
    /\ told = "nothing" /\ mail = <<>>
    /\ window = [meta |-> FALSE, key |-> FALSE, pending |-> "none", missed |-> FALSE]
    /\ sends = 0 /\ writes = 0

-----------------------------------------------------------------------------
(* _split_text                                                             *)

\* as many characters as come before the last newline that leaves a piece
Cut(text) ==
    LET breaks == {i \in 1..(TextLimit - 1) : text[i + 1] = "n"}
    IN  IF breaks = {} THEN TextLimit ELSE Max(breaks)

\* mutant: the character at the cut is taken for a newline
StrippedOfOne(text) == SubSeq(text, 2, Len(text))

\* lstrip("\n")
Stripped(text) ==
    LET kept == {i \in DOMAIN text : text[i] # "n"}
    IN  IF kept = {} THEN <<>> ELSE SubSeq(text, Min(kept), Len(text))

\* what is left to cut after the first piece
Rest(text) == Stripped(SubSeq(text, Cut(text) + 1, Len(text)))

SplitText[text \in Text] ==
    IF Len(text) <= TextLimit THEN <<text>>
    ELSE <<SubSeq(text, 1, Cut(text))>> \o
         (IF Rest(text) = <<>> THEN <<>> ELSE SplitText[Rest(text)])

-----------------------------------------------------------------------------
(* The facade and the provider.                                            *)

Goto(step) == send' = [send EXCEPT !.at = step]
Watching == UNCHANGED watchVars
Queues == UNCHANGED <<mail, window, sends, writes>>

\* the caller gets its answer, unless the panel has stopped waiting for it
Return(answer) ==
    /\ send' = NoSend
    /\ told' = IF told = "nothing" THEN answer ELSE told

\* The worker sends text, pictures and voice notes; a file may have no caption, and
\* of the AI's answer nothing may be left without its marker.  The panel sends texts
\* of its own.  A worker under dry-run hands the message to the provider that logs it: nothing leaves.
Ask(by, kind, body) ==
    /\ send = NoSend /\ sends < MaxSends
    /\ by = "worker" => up /\ ~mute
    /\ by = "panel" => kind = "text" /\ body # <<>>
    /\ sends' = sends + 1 /\ told' = "nothing"
    /\ send' = [at |-> "guard", by |-> by, kind |-> kind, body |-> body,
                out |-> <<>>, unread |-> FALSE,
                left |-> CASE kind = "text" -> SplitText[body]
                          [] kind = "file" -> <<body>>
                          [] OTHER -> <<<<>>>>]
    /\ UNCHANGED <<mail, window, writes, breakerVars>>

\* The dry-run provider writes the message to a log and reports an id.
DryRun ==
    /\ send = NoSend /\ sends < MaxSends /\ up /\ mute
    /\ sends' = sends + 1 /\ told' = "sent"
    /\ UNCHANGED <<send, mail, window, writes, breakerVars>>

\* the facade returns None: the panel calls that "not sent", the callers in the
\* worker only look for an exception
Suppress == Return(IF send.by = "panel" THEN "not_sent" ELSE "sent")

\* Redis cannot be read: send anyway
GuardFailsOpen ==
    /\ send.at \in {"guard", "confirm"} /\ Fault
    /\ send' = [send EXCEPT !.at = "window", !.unread = TRUE]
    /\ UNCHANGED told /\ Queues /\ Watching

ReadPause ==
    /\ send.at = "guard"
    /\ IF Clear THEN Goto("confirm") /\ UNCHANGED told ELSE Suppress
    /\ UNCHANGED breakerVars /\ Queues

\* mutant: an absent confirmation lets the message pass
ReadStateFailingOpen ==
    /\ send.at = "confirm"
    /\ Goto("window")
    /\ UNCHANGED <<told, breakerVars>> /\ Queues

ReadState ==
    /\ send.at = "confirm"
    /\ IF confirmed > 0 THEN Goto("window") /\ UNCHANGED told ELSE Suppress
    /\ UNCHANGED breakerVars /\ Queues

\* is_service_window_open, which takes an unreadable Redis for an open window
WindowOpen ==
    /\ send.at = "window"
    /\ \/ window.key /\ UNCHANGED breakerVars
       \/ Fault /\ Watching
    /\ Goto("post")
    /\ UNCHANGED told /\ Queues

\* _window_fallback: page and raise; a lost caption is swallowed
WindowClosed ==
    /\ send.at = "window" /\ ~window.key
    /\ Return(IF send.kind = "caption" THEN "sent" ELSE "not_sent")
    /\ UNCHANGED breakerVars /\ Queues

\* Meta accepts the next piece, whatever becomes of it later
Accepted == Append(mail, [row |-> "absent", seen |-> "none", paged |-> FALSE,
                          report |-> IF window.meta THEN "delivered" ELSE "failed"])

\* _post_message
Post ==
    /\ send.at = "post"
    /\ mail' = Accepted
    /\ send' = [send EXCEPT !.at = "record", !.out = Append(@, send.left[1])]
    /\ UNCHANGED <<told, window, sends, writes, breakerVars>>

\* Meta answers 4xx, or accepts and the answer is lost: the caller gets an
\* exception (a caption's is swallowed), what is left of the message is not sent
PostFails ==
    /\ send.at = "post" /\ Fault
    /\ mail' \in {mail, Accepted}
    /\ Return(IF send.kind = "caption" THEN "sent" ELSE "not_sent")
    /\ UNCHANGED <<window, sends, writes>> /\ Watching

\* what follows an accepted piece: the next one, or the caption of a voice note
AfterPiece ==
    IF Len(send.left) > 1
    THEN send' = [send EXCEPT !.left = Tail(@), !.at = "post"] /\ UNCHANGED told
    ELSE IF send.kind = "audio" /\ send.body # <<>>
    THEN /\ send' = [send EXCEPT !.at = "window", !.kind = "caption",
                                 !.left = SplitText[send.body]]
         /\ UNCHANGED told
    ELSE Return("sent")

\* mutant: recording a send sets its status as well
RecordOutboundOver ==
    /\ send.at = "record"
    /\ mail' = [mail EXCEPT ![Len(mail)].row = "accepted"]
    /\ AfterPiece
    /\ UNCHANGED <<window, sends, writes, breakerVars>>

\* record_outbound: "accepted" only when no status came first; an error is ignored
RecordOutbound ==
    /\ send.at = "record"
    /\ \/ /\ mail' = [mail EXCEPT ![Len(mail)].row = IF @ = "absent" THEN "accepted" ELSE @]
          /\ UNCHANGED breakerVars
       \/ UNCHANGED mail /\ Fault /\ Watching
    /\ AfterPiece
    /\ UNCHANGED <<window, sends, writes>>

\* send_text_sync stops waiting after 30 s; the coroutine goes on
PanelGivesUp ==
    /\ send # NoSend /\ send.by = "panel" /\ told = "nothing"
    /\ told' = "not_sent"
    /\ UNCHANGED <<send, breakerVars>> /\ Queues

-----------------------------------------------------------------------------
(* The recipient, Meta and the webhook.                                    *)

Elsewhere == UNCHANGED <<send, told, sends>>

CustomerWrites(sort) ==
    /\ window.pending = "none" /\ writes < MaxWrites
    /\ window' = [window EXCEPT !.meta = TRUE, !.pending = sort]
    /\ writes' = writes + 1
    /\ UNCHANGED <<mail, breakerVars>> /\ Elsewhere

\* mutant: only a message that can be processed opens the window
OpenWindowForText ==
    /\ window.pending # "none"
    /\ window' = [window EXCEPT !.key = @ \/ window.pending = "text", !.pending = "none",
                                !.missed = FALSE]
    /\ UNCHANGED <<mail, writes, breakerVars>> /\ Elsewhere

\* open_service_window, before anything is looked at; its errors are ignored, and
\* the POST may be repeated (a 503 for another reason)
OpenWindow ==
    /\ window.pending # "none"
    /\ \/ /\ window' = [window EXCEPT !.key = TRUE, !.pending = "none", !.missed = FALSE]
          /\ UNCHANGED breakerVars
       \/ /\ window' = [window EXCEPT !.missed = TRUE, !.pending = "none"]
          /\ Fault /\ Watching
       \/ window' = [window EXCEPT !.key = TRUE] /\ Fault /\ Watching
    /\ UNCHANGED <<mail, writes>> /\ Elsewhere

\* Meta counts 24 hours from the message, the key from its later handling
WindowEnds ==
    /\ window.pending = "none" /\ window.meta
    /\ window' = [window EXCEPT !.meta = FALSE]
    /\ UNCHANGED <<mail, writes, breakerVars>> /\ Elsewhere
KeyExpires ==
    /\ window.key /\ (window.meta => window.missed \/ window.pending # "none")
    /\ window' = [window EXCEPT !.key = FALSE]
    /\ UNCHANGED <<mail, writes, breakerVars>> /\ Elsewhere

\* mutant: an error after the row is written is answered 200
ApplyStatusOnce(i) ==
    /\ mail[i].report # "none"
    /\ \/ /\ mail' = [mail EXCEPT ![i] = [@ EXCEPT !.row = mail[i].report, !.report = "none",
                         !.seen = mail[i].report, !.paged = mail[i].report = "failed"]]
          /\ UNCHANGED breakerVars
       \/ /\ mail' = [mail EXCEPT ![i] = [@ EXCEPT !.row = mail[i].report, !.report = "none",
                                                   !.seen = mail[i].report]]
          /\ Fault /\ Watching
    /\ UNCHANGED <<window, writes>> /\ Elsewhere

\* apply_status_event: the row is written, and with no template to retry with
\* (_retry_as_template) a rejected message is paged as lost.  A failing step is
\* answered 503, after the row was written or before, and Meta reports again.
ApplyStatus(i) ==
    /\ mail[i].report # "none"
    /\ \/ /\ mail' = [mail EXCEPT ![i] = [@ EXCEPT !.row = mail[i].report, !.report = "none",
                         !.seen = mail[i].report, !.paged = mail[i].report = "failed"]]
          /\ UNCHANGED breakerVars
       \/ /\ mail' = [mail EXCEPT ![i] = [@ EXCEPT !.row = mail[i].report,
                                                   !.seen = mail[i].report]]
          /\ Fault /\ Watching
    /\ UNCHANGED <<window, writes>> /\ Elsewhere

-----------------------------------------------------------------------------
\* a coroutine of the worker ends with the worker
Breaking ==
    /\ AccountChanges \/ KillSwitch \/ Deploy \/ MonitorFails \/ WorkerStops
    /\ send' = IF up /\ ~up' /\ send.by = "worker" THEN NoSend ELSE send
    /\ UNCHANGED <<told, mail, window, sends, writes>>

Sending == \/ ReadPause \/ ReadState \/ GuardFailsOpen \/ WindowOpen \/ WindowClosed
           \/ Post \/ PostFails \/ RecordOutbound \/ PanelGivesUp

Reporting == \E i \in DOMAIN mail : ApplyStatus(i)

\* a send is over within a tick: its HTTP calls time out
Time == send = NoSend /\ Tick /\ UNCHANGED sendVars

Next ==
    \/ Watchdog /\ UNCHANGED sendVars
    \/ Time \/ Breaking \/ Sending \/ Reporting
    \/ \E by \in {"worker", "panel"}, kind \in Kinds \ {"caption"}, body \in Bodies :
          Ask(by, kind, body)
    \/ DryRun \/ \E sort \in {"text", "sticker"} : CustomerWrites(sort)
    \/ OpenWindow \/ WindowEnds \/ KeyExpires

Spec == Init /\ [][Next]_vars

(* Time passes, the scheduler runs the watchdog, a coroutine is resumed,   *)
(* and Meta repeats a report until it is answered 200.  Nobody has to send *)
(* or write anything.                                                      *)
FairSpec == Spec /\ WF_vars((Watchdog /\ UNCHANGED sendVars) \/ Time \/ Sending)
                 /\ WF_vars(Reporting)

-----------------------------------------------------------------------------
(* Properties                                                              *)

TypeOK ==
    /\ BreakerTypeOK
    /\ send \in [at: Steps, by: {"worker", "panel"}, kind: Kinds, body: Bodies \cup {<<>>},
                left: Seq(Text), out: Seq(Text), unread: BOOLEAN]
    /\ told \in {"nothing", "sent", "not_sent"}
    /\ mail \in Seq(Message) /\ window \in Window
    /\ sends \in 0..MaxSends /\ writes \in 0..MaxWrites

\* The breaker fails closed: nothing is handed to Meta once the account has been
\* out of service for the life of one confirmation, whatever stopped the watchdog
\* (a dead worker, a worker under dry-run, failing writes), unless Redis could not
\* be read by the send itself.
SparesDownAccount ==
    [][Len(mail') > Len(mail) => bad < ConfirmTtl \/ send.unread]_vars

\* The breaker does not stay shut: with a healthy account and a live worker that
\* transmits, and unless the operator halts, there is always a moment to come when
\* a message passes, however the watchdog failed before.
BreakerReopens ==
    []<>(account = "authorized" /\ up /\ ~mute /\ ~manual => Permitted)

\* An outage is paged sooner or later, also when the run that should have paged
\* failed after it had taken the once-per-hour key.
OutageIsPaged == []<>(account # "authorized" /\ up /\ ~mute => paged)

\* The operator is told of a recovery only after a page told of the outage.
NoticeAfterPage == notices \subseteq {"after_page"}

\* The pieces are stretches of the text, in its order; only line breaks lie between
\* them and after them.
Tells(pieces, text) ==
    \E from \in [DOMAIN pieces -> DOMAIN text] :
        LET to == [i \in DOMAIN pieces |-> from[i] + Len(pieces[i]) - 1]
        IN  /\ \A i \in DOMAIN pieces :
                 to[i] <= Len(text) /\ pieces[i] = SubSeq(text, from[i], to[i])
            /\ \A i, j \in DOMAIN pieces : i < j => to[i] < from[j]
            /\ \A k \in DOMAIN text :
                 text[k] = "n" \/ \E i \in DOMAIN pieces : k \in from[i]..to[i]

\* When the panel is told "sent", the whole text went out, in order, in pieces that
\* Meta accepts: nothing but line breaks at the cuts is dropped.
PanelTruth ==
    [][send.by = "panel" /\ told # "sent" /\ told' = "sent" =>
         /\ Tells(send.out, send.body)
         /\ \A i \in DOMAIN send.out : Len(send.out[i]) \in 1..TextLimit]_vars

\* A message is blocked for a closed window only when the window is closed, or its
\* opening has not been handled yet or could not be recorded.
BlockedOnlyIfClosed ==
    [][WindowClosed => ~window.meta \/ window.pending # "none" \/ window.missed]_vars

\* What the status webhook reported of a message stands, also when it came before
\* the sender recorded the message.
StatusStands == \A i \in DOMAIN mail : mail[i].seen # "none" => mail[i].row = mail[i].seen

\* A message that Meta accepted and then rejected for a closed window is never lost
\* in silence: the operator is paged, whatever failed while the report was handled.
RejectionIsPaged == []<>(\A i \in DOMAIN mail : mail[i].report = "failed" \/ mail[i].row = "failed" => mail[i].paged)

=============================================================================
