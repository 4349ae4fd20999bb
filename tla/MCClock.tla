------------------------------- MODULE MCClock -------------------------------
(* A small instance of Clock for TLC. *)
EXTENDS Clock, TLC

WorkerSymmetry == Permutations(Workers)

\* The jobs of a waiting lead and of the day, those of a booked lead, and what
\* they leave behind.
Daily == {"approval", "daily", "slots"}
Idles(jobs) == /\ \A w \in Workers : run[w].job \notin jobs
               /\ \A j \in jobs : lock[j] = NoOne
NothingDaily == /\ Idles(Daily) /\ ~day.claimed /\ day.hours = 0
                /\ ~lead.nudged /\ ~lead.offered
NothingBooked == /\ Idles(Jobs \ Daily) /\ ~panel
                 /\ lead.checks = 0 /\ lead.reminders = 0 /\ lead.stale = 0
                 /\ sent.reminders = 0 /\ sent.stale = 0

\* bound: only one of the two groups of jobs acts in an execution; neither reads
\* what the other writes
OneGroup == NothingDaily \/ NothingBooked
=============================================================================
