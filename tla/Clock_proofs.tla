----------------------------- MODULE Clock_proofs -----------------------------
(***************************************************************************)
(* What the claims and the scheduler's locks promise for any number of     *)
(* worker processes and any times, caps and failures.                      *)
(***************************************************************************)
EXTENDS Clock, FiniteSetTheorems, TLAPS

-----------------------------------------------------------------------------
(* The inductive invariant.                                                *)

\* while no lock was lost, who runs a job holds its lock
LockHeld == faults.lock = 0 => \A w \in Workers : run[w] # Idle => lock[run[w].job] = w

\* the workers that are at one of these steps of a job, and how many they are
About(job, steps) == {w \in Workers : run[w].job = job /\ run[w].at \in steps}
N(job, steps) == Cardinality(About(job, steps))

Reminding == {"remind_send", "remind_count"}
Staling == {"act", "count"}

(* What was counted or made leaves room for every worker that is about to  *)
(* send or make another, and what has gone out was counted, will be, or    *)
(* lost its count.                                                         *)
Cap == MaxReminders + IF faults.lock = 0 THEN 0 ELSE Cardinality(Workers) - 1
Uncounted == faults.death + faults.count

RemindersLeft == /\ lead.reminders + N("unfinished", Reminding) <= Cap
                 /\ sent.reminders <= lead.reminders + N("unfinished", {"remind_count"}) + Uncounted
StaleLeft == /\ lead.stale + N("nudger", Staling) <= Cap
             /\ sent.stale <= lead.stale + N("nudger", {"count"}) + Uncounted
HoursLeft == faults.lock = 0 => day.hours + N("slots", {"act"}) <= 1
GreetingsLeft == sent.greetings + N("daily", {"act"}) <= IF day.claimed THEN 1 ELSE 0
ChecksLeft == /\ sent.checks + N("unfinished", {"ask"}) <= lead.checks
              /\ sent.checks + N("unfinished", {"ask"}) <= MaxChecks
AllLeft == RemindersLeft /\ StaleLeft /\ HoursLeft /\ GreetingsLeft /\ ChecksLeft

OncePerFlag == /\ sent.nudges <= IF lead.nudged THEN 1 ELSE 0
               /\ sent.offers <= IF lead.offered THEN 1 ELSE 0

\* the date on the lead is not older than the last question, but for one of the panel
Stamped == ~sent.unstamped => lead.since <= sent.quiet

IInv == TypeOK /\ LockHeld /\ AllLeft /\ OncePerFlag /\ Stamped

-----------------------------------------------------------------------------
(* The workers at a step.                                                  *)

\* a worker's run becomes r
Moves(w, r) == r \in Run /\ run' = [run EXCEPT ![w] = r]

\* a run at one of the steps that are counted
Busy(r) == \/ r.job = "unfinished" /\ r.at \in {"remind_send", "remind_count", "ask"}
           \/ r.job = "nudger" /\ r.at \in Staling
           \/ r.job \in {"slots", "daily"} /\ r.at = "act"

LEMMA Finite ==
    ASSUME NEW job, NEW steps
    PROVE  /\ IsFiniteSet(About(job, steps)) /\ IsFiniteSet(About(job, steps)')
           /\ N(job, steps) \in Nat /\ N(job, steps) <= Cardinality(Workers)
           /\ N(job, steps)' \in Nat /\ N(job, steps)' <= Cardinality(Workers)
           /\ Cardinality(Workers) \in Nat
<1>1. About(job, steps) \in SUBSET Workers /\ About(job, steps)' \in SUBSET Workers
  BY DEF About
<1>2. IsFiniteSet(Workers)
  BY ClockAssumption
<1> QED
  BY <1>1, <1>2, FS_Subset, FS_CardinalityType DEF N

LEMMA MovedTypes ==
    ASSUME TypeOK, NEW w \in Workers, NEW r, Moves(w, r)
    PROVE  /\ run' \in [Workers -> Run]
           /\ run'[w] = r /\ \A u \in Workers : u # w => run'[u] = run[u]
  BY DEF Moves, TypeOK

\* one worker more or less at the steps, or as many as before
LEMMA Shift ==
    ASSUME TypeOK, NEW w \in Workers, NEW r, Moves(w, r), NEW job, NEW steps
    PROVE  /\ run[w].job = job /\ run[w].at \in steps /\ ~(r.job = job /\ r.at \in steps)
              => N(job, steps)' = N(job, steps) - 1
           /\ ~(run[w].job = job /\ run[w].at \in steps) /\ r.job = job /\ r.at \in steps
              => N(job, steps)' = N(job, steps) + 1
           /\ (run[w].job = job /\ run[w].at \in steps <=> r.job = job /\ r.at \in steps)
              => N(job, steps)' = N(job, steps)
<1> DEFINE before == run[w].job = job /\ run[w].at \in steps
           after == r.job = job /\ r.at \in steps
<1>1. /\ run'[w] = r /\ \A u \in Workers : u # w => run'[u] = run[u]
  BY MovedTypes
<1>2. \A u \in Workers \ {w} : u \in About(job, steps)' <=> u \in About(job, steps)
  BY <1>1 DEF About
<1>3. (w \in About(job, steps) <=> before) /\ (w \in About(job, steps)' <=> after)
  BY <1>1 DEF About
<1>4. About(job, steps) \subseteq Workers /\ About(job, steps)' \subseteq Workers
  BY DEF About
<1> HIDE DEF before, after
<1>5. ASSUME before, ~after
      PROVE  N(job, steps)' = N(job, steps) - 1
  <2>1. About(job, steps)' = About(job, steps) \ {w} /\ w \in About(job, steps)
    BY <1>2, <1>3, <1>4, <1>5
  <2> QED
    BY <1>5, <2>1, Finite, FS_RemoveElement DEF N
<1>6. ASSUME ~before, after
      PROVE  N(job, steps)' = N(job, steps) + 1
  <2>1. About(job, steps)' = About(job, steps) \cup {w} /\ w \notin About(job, steps)
    BY <1>2, <1>3, <1>4, <1>6
  <2> QED
    BY <1>6, <2>1, Finite, FS_AddElement DEF N
<1>7. ASSUME before <=> after
      PROVE  N(job, steps)' = N(job, steps)
  <2>1. About(job, steps)' = About(job, steps)
    BY <1>2, <1>3, <1>4, <1>7
  <2> QED
    BY <1>7, <2>1 DEF N
<1> QED
  BY <1>5, <1>6, <1>7 DEF before, after

\* nobody else is at a step of a job that a worker runs under its lock
LEMMA Alone ==
    ASSUME TypeOK, LockHeld, faults.lock = 0, NEW w \in Workers, NEW job, NEW steps,
           run[w] # Idle, run[w].job = job, run[w].at \notin steps, "idle" \notin steps
    PROVE  N(job, steps) = 0
<1>1. ASSUME NEW u \in About(job, steps)
      PROVE  FALSE
  <2>1. u \in Workers /\ run[u].job = job /\ run[u].at \in steps
    BY DEF About
  <2>2. run[u] # Idle
    BY <2>1 DEF Idle
  <2> QED
    BY <2>1, <2>2 DEF LockHeld
<1> QED
  BY <1>1, FS_EmptySet DEF N

-----------------------------------------------------------------------------
(* What stays when its counts do.                                          *)

FaultsGrow == /\ faults \in Faults /\ faults' \in Faults
              /\ faults.lock <= faults'.lock /\ faults.death <= faults'.death
              /\ faults.count <= faults'.count

LEMMA CapGrows ==
    ASSUME FaultsGrow, UNCHANGED faults \/ \E w : w \in Workers
    PROVE  /\ Cap \in Int /\ Cap' \in Int /\ Cap <= Cap'
           /\ Uncounted \in Nat /\ Uncounted' \in Nat /\ Uncounted <= Uncounted'
           /\ (faults'.lock = 0 => faults.lock = 0)
<1>1. Cardinality(Workers) \in Nat /\ IsFiniteSet(Workers)
  BY Finite, ClockAssumption
<1>2. (\E w : w \in Workers) => Cardinality(Workers) >= 1
  BY <1>1, FS_EmptySet
<1>3. /\ faults.lock \in Nat /\ faults.death \in Nat /\ faults.count \in Nat
      /\ faults'.lock \in Nat /\ faults'.death \in Nat /\ faults'.count \in Nat
  BY DEF FaultsGrow, Faults
<1>4. Cap \in Int /\ Cap' \in Int /\ Cap <= Cap'
  BY <1>1, <1>2, <1>3, ClockAssumption DEF Cap, FaultsGrow
<1>5. Uncounted \in Nat /\ Uncounted' \in Nat /\ Uncounted <= Uncounted'
  BY <1>3 DEF Uncounted, FaultsGrow
<1> QED
  BY <1>3, <1>4, <1>5 DEF FaultsGrow

\* the types that the counts are compared under
Typed == lead \in Lead /\ lead' \in Lead /\ sent \in Sent /\ sent' \in Sent /\ day \in Day /\ day' \in Day

LEMMA RemindersStand ==
    ASSUME RemindersLeft, Typed, FaultsGrow, UNCHANGED faults \/ \E w : w \in Workers,
           lead'.reminders = lead.reminders, sent'.reminders = sent.reminders,
           N("unfinished", Reminding)' = N("unfinished", Reminding),
           N("unfinished", {"remind_count"})' = N("unfinished", {"remind_count"})
    PROVE  RemindersLeft'
<1>1. lead.reminders \in Nat /\ sent.reminders \in Nat
  BY DEF Typed, Lead, Sent
<1>2. N("unfinished", Reminding) \in Nat /\ N("unfinished", {"remind_count"}) \in Nat
  BY Finite
<1> QED
  BY <1>1, <1>2, CapGrows DEF RemindersLeft

LEMMA StaleStand ==
    ASSUME StaleLeft, Typed, FaultsGrow, UNCHANGED faults \/ \E w : w \in Workers,
           lead'.stale = lead.stale, sent'.stale = sent.stale,
           N("nudger", Staling)' = N("nudger", Staling),
           N("nudger", {"count"})' = N("nudger", {"count"})
    PROVE  StaleLeft'
<1>1. lead.stale \in Nat /\ sent.stale \in Nat
  BY DEF Typed, Lead, Sent
<1>2. N("nudger", Staling) \in Nat /\ N("nudger", {"count"}) \in Nat
  BY Finite
<1> QED
  BY <1>1, <1>2, CapGrows DEF StaleLeft

LEMMA HoursStand ==
    ASSUME HoursLeft, faults'.lock = 0 => faults.lock = 0, day'.hours = day.hours,
           N("slots", {"act"})' = N("slots", {"act"})
    PROVE  HoursLeft'
  BY DEF HoursLeft

LEMMA GreetingsStand ==
    ASSUME GreetingsLeft, day'.claimed = day.claimed, sent'.greetings = sent.greetings,
           N("daily", {"act"})' = N("daily", {"act"})
    PROVE  GreetingsLeft'
  BY DEF GreetingsLeft

LEMMA ChecksStand ==
    ASSUME ChecksLeft, Typed, lead.checks <= lead'.checks, sent'.checks = sent.checks,
           N("unfinished", {"ask"})' = N("unfinished", {"ask"})
    PROVE  ChecksLeft'
<1>1. lead.checks \in Nat /\ lead'.checks \in Nat /\ sent.checks \in Nat
  BY DEF Typed, Lead, Sent
<1>2. N("unfinished", {"ask"}) \in Nat
  BY Finite
<1> QED
  BY <1>1, <1>2 DEF ChecksLeft

\* what the counts compare is left as it is
CountsSame == /\ lead'.reminders = lead.reminders /\ lead'.stale = lead.stale
              /\ lead.checks <= lead'.checks
OutSame == /\ sent'.reminders = sent.reminders /\ sent'.stale = sent.stale
           /\ sent'.checks = sent.checks /\ sent'.greetings = sent.greetings
FlagsSame == lead'.nudged = lead.nudged /\ lead'.offered = lead.offered
WaitSame == sent'.nudges = sent.nudges /\ sent'.offers = sent.offers
DateSame == lead'.since = lead.since /\ sent'.quiet = sent.quiet /\ sent'.unstamped = sent.unstamped

LEMMA Steady ==
    ASSUME AllLeft, Typed, FaultsGrow, UNCHANGED faults \/ \E w : w \in Workers,
           CountsSame, OutSame, UNCHANGED day,
           \A c \in {<<"unfinished", Reminding>>, <<"unfinished", {"remind_count"}>>,
                     <<"unfinished", {"ask"}>>, <<"nudger", Staling>>, <<"nudger", {"count"}>>,
                     <<"slots", {"act"}>>, <<"daily", {"act"}>>} :
              N(c[1], c[2])' = N(c[1], c[2])
    PROVE  AllLeft'
<1>1. /\ N("unfinished", Reminding)' = N("unfinished", Reminding)
      /\ N("unfinished", {"remind_count"})' = N("unfinished", {"remind_count"})
      /\ N("unfinished", {"ask"})' = N("unfinished", {"ask"})
      /\ N("nudger", Staling)' = N("nudger", Staling)
      /\ N("nudger", {"count"})' = N("nudger", {"count"})
      /\ N("slots", {"act"})' = N("slots", {"act"})
      /\ N("daily", {"act"})' = N("daily", {"act"})
  OBVIOUS
<1>2. RemindersLeft' /\ StaleLeft'
  BY <1>1, RemindersStand, StaleStand DEF AllLeft, CountsSame, OutSame
<1>3. HoursLeft' /\ GreetingsLeft'
  BY <1>1, CapGrows, HoursStand, GreetingsStand DEF AllLeft, OutSame
<1>4. ChecksLeft'
  BY <1>1, ChecksStand DEF AllLeft, CountsSame, OutSame
<1> QED
  BY <1>2, <1>3, <1>4 DEF AllLeft

\* a worker moves between steps that are not counted
LEMMA QuietMove ==
    ASSUME TypeOK, AllLeft, Typed, FaultsGrow, CountsSame, OutSame, UNCHANGED day,
           NEW w \in Workers, NEW r, Moves(w, r), ~Busy(run[w]), ~Busy(r)
    PROVE  AllLeft'
<1>1. ASSUME NEW job, NEW steps,
             <<job, steps>> \in {<<"unfinished", Reminding>>, <<"unfinished", {"remind_count"}>>,
                     <<"unfinished", {"ask"}>>, <<"nudger", Staling>>, <<"nudger", {"count"}>>,
                     <<"slots", {"act"}>>, <<"daily", {"act"}>>}
      PROVE  N(job, steps)' = N(job, steps)
  <2>1. ~(run[w].job = job /\ run[w].at \in steps) /\ ~(r.job = job /\ r.at \in steps)
    BY <1>1 DEF Busy, Reminding, Staling
  <2> QED
    BY <2>1, Shift
<1>2. \A c \in {<<"unfinished", Reminding>>, <<"unfinished", {"remind_count"}>>,
                     <<"unfinished", {"ask"}>>, <<"nudger", Staling>>, <<"nudger", {"count"}>>,
                     <<"slots", {"act"}>>, <<"daily", {"act"}>>} :
        N(c[1], c[2])' = N(c[1], c[2])
  BY <1>1
<1> QED
  BY <1>2, Steady

\* a worker that has nothing to do with the job
LEMMA Elsewhere ==
    ASSUME TypeOK, NEW w \in Workers, NEW r, Moves(w, r), NEW job, NEW steps,
           run[w].job # job, r.job # job
    PROVE  N(job, steps)' = N(job, steps)
  BY Shift

-----------------------------------------------------------------------------
(* A worker's moves.                                                       *)

LEMMA Gone ==
    ASSUME TypeOK, NEW w \in Workers, NEW step, GoTo(w, step),
           [job |-> run[w].job, at |-> step, seen |-> Unread] \in Run
    PROVE  Moves(w, [job |-> run[w].job, at |-> step, seen |-> Unread])
<1> DEFINE r == [job |-> run[w].job, at |-> step, seen |-> Unread]
           there == [job |-> run[w].job, at |-> step, seen |-> run[w].seen]
<1>1. run[w] \in Run
  BY DEF TypeOK
<1>2. [run[w] EXCEPT !.at = step] = there
  BY <1>1 DEF Run, Idle
<1>3. [there EXCEPT !.seen = Unread] = r
  OBVIOUS
<1>4. run' = [run EXCEPT ![w] = r]
  BY <1>2, <1>3 DEF GoTo, TypeOK
<1> QED
  BY <1>4 DEF Moves

\* the job of a run at a step
LEMMA AtJob ==
    ASSUME TypeOK, NEW w \in Workers
    PROVE  /\ run[w].at \in {"remind", "remind_send", "remind_count", "checks", "check", "ask", "flag"}
              => run[w].job = "unfinished"
           /\ run[w].at \in {"sla", "claim"} => run[w].job = "approval"
           /\ run[w].at = "count" => run[w].job = "nudger"
           /\ run[w].at # "idle" => run[w] # Idle
           /\ run[w] # Idle => run[w].job \in Jobs
<1>1. run[w] \in Run
  BY DEF TypeOK
<1> QED
  BY <1>1 DEF Run, Idle, Jobs

LEMMA UnfinishedGoes ==
    ASSUME TypeOK, NEW w \in Workers, run[w].job = "unfinished",
           NEW step \in {"remind", "remind_send", "remind_count", "checks", "check", "ask", "flag"},
           GoTo(w, step)
    PROVE  Moves(w, [job |-> "unfinished", at |-> step, seen |-> Unread])
<1>1. [job |-> run[w].job, at |-> step, seen |-> Unread] \in Run
  BY DEF Run
<1> QED
  BY <1>1, Gone

LEMMA Ends ==
    ASSUME TypeOK, NEW w \in Workers, Finish(w), run[w] # Idle
    PROVE  Moves(w, Idle) /\ lock' \in [Jobs -> Workers \cup {NoOne}]
  BY DEF Finish, Moves, Run, TypeOK

\* a worker that goes on with its job keeps the lock
LEMMA GoesOn ==
    ASSUME TypeOK, LockHeld, NEW w \in Workers, NEW r, Moves(w, r),
           run[w] # Idle, r = Idle \/ r.job = run[w].job,
           UNCHANGED lock, faults'.lock = 0 => faults.lock = 0
    PROVE  LockHeld'
  BY MovedTypes DEF LockHeld

\* a worker that ends lets go of its own lock only
LEMMA EndsHeld ==
    ASSUME TypeOK, LockHeld, NEW w \in Workers, Finish(w), run[w] # Idle,
           faults'.lock = 0 => faults.lock = 0
    PROVE  LockHeld'
<1> SUFFICES ASSUME faults.lock = 0, NEW u \in Workers, run'[u] # Idle
             PROVE  lock'[run'[u].job] = u
  BY DEF LockHeld
<1>1. u # w /\ run'[u] = run[u]
  BY Ends, MovedTypes
<1>2. lock[run[u].job] = u /\ lock[run[w].job] = w
  BY <1>1 DEF LockHeld
<1>3. run[u].job \in Jobs
  BY <1>1, AtJob
<1> QED
  BY <1>1, <1>2, <1>3 DEF Finish, TypeOK

\* a failure is counted as one of its kind
LEMMA FaultCounted ==
    ASSUME TypeOK, NEW kind \in {"lock", "death", "count", "stamp"}, Fault(kind)
    PROVE  /\ faults' \in Faults /\ AllFaults' <= MaxFaults /\ FaultsGrow
           /\ faults'[kind] = faults[kind] + 1
           /\ \A k \in {"lock", "death", "count", "stamp"} \ {kind} : faults'[k] = faults[k]
<1>1. faults \in Faults /\ faults' = [faults EXCEPT ![kind] = @ + 1] /\ AllFaults < MaxFaults
  BY DEF TypeOK, Fault
<1>2. /\ faults.lock \in Nat /\ faults.death \in Nat /\ faults.count \in Nat /\ faults.stamp \in Nat
  BY <1>1 DEF Faults
<1>3. CASE kind = "lock"
  BY <1>1, <1>2, <1>3, ClockAssumption DEF Faults, AllFaults, FaultsGrow
<1>4. CASE kind = "death"
  BY <1>1, <1>2, <1>4, ClockAssumption DEF Faults, AllFaults, FaultsGrow
<1>5. CASE kind = "count"
  BY <1>1, <1>2, <1>5, ClockAssumption DEF Faults, AllFaults, FaultsGrow
<1>6. CASE kind = "stamp"
  BY <1>1, <1>2, <1>6, ClockAssumption DEF Faults, AllFaults, FaultsGrow
<1> QED
  BY <1>3, <1>4, <1>5, <1>6

LEMMA FaultsStay ==
    ASSUME TypeOK, UNCHANGED faults
    PROVE  faults' \in Faults /\ AllFaults' <= MaxFaults /\ FaultsGrow
<1>1. faults \in Faults /\ AllFaults <= MaxFaults /\ AllFaults' = AllFaults
  BY DEF TypeOK, AllFaults
<1> QED
  BY <1>1 DEF Faults, FaultsGrow

-----------------------------------------------------------------------------
(* Steps that no count notices.                                            *)

LEMMA Unchanged ==
    ASSUME IInv, UNCHANGED vars
    PROVE  IInv'
<1>1. N("unfinished", Reminding)' = N("unfinished", Reminding)
      /\ N("unfinished", {"remind_count"})' = N("unfinished", {"remind_count"})
      /\ N("unfinished", {"ask"})' = N("unfinished", {"ask"})
      /\ N("nudger", Staling)' = N("nudger", Staling)
      /\ N("nudger", {"count"})' = N("nudger", {"count"})
      /\ N("slots", {"act"})' = N("slots", {"act"})
      /\ N("daily", {"act"})' = N("daily", {"act"})
  BY DEF vars, N, About
<1>2. AllLeft'
  BY <1>1 DEF IInv, vars, AllLeft, RemindersLeft, StaleLeft, HoursLeft, GreetingsLeft, ChecksLeft,
              Cap, Uncounted
<1> QED
  BY <1>2 DEF IInv, vars, TypeOK, AllFaults, LockHeld, OncePerFlag, Stamped

\* a worker's step between steps that are not counted
LEMMA Quietly ==
    ASSUME IInv, NEW w \in Workers, NEW r, Moves(w, r), run[w] # Idle, ~Busy(run[w]), ~Busy(r),
           (r.job = run[w].job /\ UNCHANGED lock) \/ (r = Idle /\ Finish(w)),
           UNCHANGED <<day, panel, faults>>, lead' \in Lead, sent' \in Sent,
           CountsSame, OutSame, DateSame, OncePerFlag'
    PROVE  IInv'
<1> USE DEF IInv
<1>1. faults' \in Faults /\ AllFaults' <= MaxFaults /\ FaultsGrow
  BY FaultsStay
<1>2. lock' \in [Jobs -> Workers \cup {NoOne}]
  BY Ends DEF TypeOK
<1>3. TypeOK'
  BY <1>1, <1>2, MovedTypes DEF TypeOK
<1>4. LockHeld'
  BY GoesOn, EndsHeld
<1>5. AllLeft'
  BY <1>1, <1>3, QuietMove DEF TypeOK, Typed
<1>6. Stamped'
  BY DEF Stamped, DateSame
<1> QED
  BY <1>3, <1>4, <1>5, <1>6

\* ... that writes nothing
LEMMA MovesOn ==
    ASSUME IInv, NEW w \in Workers, NEW r, Moves(w, r), run[w] # Idle, ~Busy(run[w]), ~Busy(r),
           (r.job = run[w].job /\ UNCHANGED lock) \/ (r = Idle /\ Finish(w)),
           UNCHANGED <<lead, day, panel, sent, faults>>
    PROVE  IInv'
<1>1. CountsSame /\ OutSame /\ DateSame
  BY DEF IInv, TypeOK, Lead, CountsSame, OutSame, DateSame
<1>2. OncePerFlag' /\ lead' \in Lead /\ sent' \in Sent
  BY DEF IInv, OncePerFlag, TypeOK
<1> QED
  BY <1>1, <1>2, Quietly

\* a step that leaves the workers alone
LEMMA Aside ==
    ASSUME IInv, UNCHANGED <<day, lock, run>>, panel' \in BOOLEAN,
           UNCHANGED faults \/ Fault("stamp"),
           lead' \in Lead, sent' \in Sent, CountsSame, OutSame, OncePerFlag', Stamped'
    PROVE  IInv'
<1> USE DEF IInv
<1>1. faults' \in Faults /\ AllFaults' <= MaxFaults /\ FaultsGrow /\ faults'.lock = faults.lock
      /\ faults'.death = faults.death /\ faults'.count = faults.count
  BY FaultsStay, FaultCounted
<1>2. TypeOK' /\ LockHeld'
  BY <1>1 DEF TypeOK, LockHeld
<1>3. \A job, steps : N(job, steps)' = N(job, steps)
  BY DEF N, About
<1>4. Typed /\ lead.reminders \in Nat /\ lead.stale \in Nat /\ sent.reminders \in Nat
      /\ sent.stale \in Nat
  BY DEF Typed, TypeOK, Lead, Sent
<1>5. Cap' = Cap /\ Uncounted' = Uncounted
  BY <1>1 DEF Cap, Uncounted
<1>6. RemindersLeft' /\ StaleLeft'
  BY <1>3, <1>5 DEF AllLeft, RemindersLeft, StaleLeft, CountsSame, OutSame
<1>7. HoursLeft' /\ GreetingsLeft'
  BY <1>1, <1>3 DEF AllLeft, HoursLeft, GreetingsLeft, OutSame
<1>8. ChecksLeft'
  BY <1>3, <1>4, ChecksStand DEF AllLeft, CountsSame, OutSame
<1> QED
  BY <1>2, <1>6, <1>7, <1>8 DEF AllLeft

-----------------------------------------------------------------------------
(* The steps of the scheduler: locks, and runs that end early.             *)

LEMMA TryLockStep ==
    ASSUME IInv, NEW w \in Workers, NEW j \in Jobs, TryLock(w, j)
    PROVE  IInv'
<1> DEFINE r == [job |-> j, at |-> "query", seen |-> Unread]
<1> USE DEF IInv
<1>1. CASE lock[j] # NoOne
  BY <1>1, Unchanged DEF TryLock, vars
<1>2. CASE lock[j] = NoOne
  <2>1. /\ Moves(w, r) /\ lock' = [lock EXCEPT ![j] = w]
        /\ UNCHANGED <<lead, day, panel, sent, faults>>
    BY <1>2 DEF TryLock, Begin, Moves, Run
  <2>2. faults' \in Faults /\ AllFaults' <= MaxFaults /\ FaultsGrow
    BY <2>1, FaultsStay
  <2>3. TypeOK'
    BY <2>1, <2>2, MovedTypes DEF TypeOK
  <2>4. LockHeld'
    <3> SUFFICES ASSUME faults.lock = 0, NEW u \in Workers, run'[u] # Idle
                 PROVE  lock'[run'[u].job] = u
      BY <2>1 DEF LockHeld
    <3>1. CASE u = w
      BY <3>1, <2>1, MovedTypes DEF TypeOK
    <3>2. CASE u # w
      <4>1. run'[u] = run[u] /\ lock[run[u].job] = u
        BY <3>2, <2>1, MovedTypes DEF LockHeld
      <4>2. run[u].job # j
        BY <4>1, <1>2, ClockAssumption
      <4> QED
        BY <4>1, <4>2, <2>1 DEF TypeOK
    <3> QED
      BY <3>1, <3>2
  <2>5. ~Busy(run[w]) /\ ~Busy(r)
    BY DEF TryLock, Idle, Busy, Staling
  <2>6. AllLeft'
    BY <2>1, <2>2, <2>3, <2>5, QuietMove DEF TypeOK, Typed, CountsSame, OutSame, Lead
  <2> QED
    BY <2>1, <2>3, <2>4, <2>6 DEF OncePerFlag, Stamped
<1> QED
  BY <1>1, <1>2

LEMMA RunUnlockedStep ==
    ASSUME IInv, NEW w \in Workers, NEW j \in Jobs, RunUnlocked(w, j)
    PROVE  IInv'
<1> DEFINE r == [job |-> j, at |-> "query", seen |-> Unread]
<1> USE DEF IInv
<1>1. Moves(w, r) /\ UNCHANGED <<lead, day, lock, panel, sent>>
  BY DEF RunUnlocked, Begin, Moves, Run
<1>2. /\ faults' \in Faults /\ AllFaults' <= MaxFaults /\ FaultsGrow
      /\ faults'.lock = faults.lock + 1 /\ faults.lock \in Nat
  BY FaultCounted DEF RunUnlocked, TypeOK, Faults
<1>3. TypeOK'
  BY <1>1, <1>2, MovedTypes DEF TypeOK
<1>4. ~Busy(run[w]) /\ ~Busy(r)
  BY DEF RunUnlocked, Idle, Busy, Staling
<1>5. AllLeft'
  BY <1>1, <1>2, <1>3, <1>4, QuietMove DEF TypeOK, Typed, CountsSame, OutSame, Lead
<1> QED
  BY <1>1, <1>2, <1>3, <1>5 DEF LockHeld, OncePerFlag, Stamped

\* a worker that dies takes a message's count with it at most
LEMMA WorkerDiesStep ==
    ASSUME IInv, NEW w \in Workers, WorkerDies(w)
    PROVE  IInv'
<1> USE DEF IInv
<1>1. Moves(w, Idle) /\ UNCHANGED <<lead, day, lock, panel, sent>> /\ run[w] # Idle
  BY DEF WorkerDies, Moves, Run
<1>2. /\ faults' \in Faults /\ AllFaults' <= MaxFaults
      /\ faults'.death = faults.death + 1 /\ faults'.lock = faults.lock
      /\ faults'.count = faults.count
  BY FaultCounted DEF WorkerDies
<1>3. TypeOK' /\ LockHeld'
  BY <1>1, <1>2, MovedTypes, GoesOn DEF TypeOK
<1>4. \A job \in Jobs : \A steps :
        /\ N(job, steps)' \in Nat /\ N(job, steps) \in Nat
        /\ N(job, steps)' <= N(job, steps) /\ N(job, steps) <= N(job, steps)' + 1
  <2> TAKE job \in Jobs
  <2> TAKE steps
  <2>1. N(job, steps)' \in Nat /\ N(job, steps) \in Nat
    BY Finite
  <2>2. Idle.job # job
    BY DEF Idle, Jobs
  <2>3. N(job, steps)' = N(job, steps) - 1 \/ N(job, steps)' = N(job, steps)
    BY <1>1, <2>2, Shift
  <2> QED
    BY <2>1, <2>3
<1>5. /\ faults.death \in Nat /\ faults.count \in Nat /\ lead.reminders \in Nat /\ lead.stale \in Nat
      /\ sent.reminders \in Nat /\ sent.stale \in Nat /\ sent.checks \in Nat /\ sent.greetings \in Nat
      /\ lead.checks \in Nat /\ day.hours \in Nat /\ Cap \in Int
  BY Finite, ClockAssumption DEF TypeOK, Faults, Lead, Sent, Day, Cap
<1>6. Uncounted' = Uncounted + 1 /\ Uncounted \in Nat /\ Cap' = Cap
  BY <1>2, <1>5 DEF Uncounted, Cap
<1>7. RemindersLeft'
  <2>1. /\ N("unfinished", Reminding)' \in Nat /\ N("unfinished", Reminding) \in Nat
        /\ N("unfinished", Reminding)' <= N("unfinished", Reminding)
        /\ N("unfinished", {"remind_count"})' \in Nat /\ N("unfinished", {"remind_count"}) \in Nat
        /\ N("unfinished", {"remind_count"}) <= N("unfinished", {"remind_count"})' + 1
    BY <1>4 DEF Jobs
  <2> QED
    BY <1>1, <1>5, <1>6, <2>1 DEF AllLeft, RemindersLeft
<1>8. StaleLeft'
  <2>1. /\ N("nudger", Staling)' \in Nat /\ N("nudger", Staling) \in Nat
        /\ N("nudger", Staling)' <= N("nudger", Staling)
        /\ N("nudger", {"count"})' \in Nat /\ N("nudger", {"count"}) \in Nat
        /\ N("nudger", {"count"}) <= N("nudger", {"count"})' + 1
    BY <1>4 DEF Jobs
  <2> QED
    BY <1>1, <1>5, <1>6, <2>1 DEF AllLeft, StaleLeft
<1>9. HoursLeft' /\ GreetingsLeft'
  <2>1. /\ N("slots", {"act"})' \in Nat /\ N("slots", {"act"}) \in Nat
        /\ N("slots", {"act"})' <= N("slots", {"act"})
        /\ N("daily", {"act"})' \in Nat /\ N("daily", {"act"}) \in Nat
        /\ N("daily", {"act"})' <= N("daily", {"act"})
    BY <1>4 DEF Jobs
  <2> QED
    BY <1>1, <1>2, <1>5, <2>1 DEF AllLeft, HoursLeft, GreetingsLeft
<1>10. ChecksLeft'
  <2>1. /\ N("unfinished", {"ask"})' \in Nat /\ N("unfinished", {"ask"}) \in Nat
        /\ N("unfinished", {"ask"})' <= N("unfinished", {"ask"})
    BY <1>4 DEF Jobs
  <2> QED
    BY <1>1, <1>5, <2>1, ClockAssumption DEF AllLeft, ChecksLeft
<1> QED
  BY <1>1, <1>3, <1>7, <1>8, <1>9, <1>10 DEF AllLeft, OncePerFlag, Stamped

LEMMA LockExpiresStep ==
    ASSUME IInv, NEW j \in Jobs, LockExpires(j)
    PROVE  IInv'
<1> USE DEF IInv
<1>1. /\ lock' = [lock EXCEPT ![j] = NoOne] /\ UNCHANGED <<lead, day, run, panel, sent>>
      /\ lock[j] \in Workers
  BY DEF LockExpires, TypeOK
<1>2. /\ faults' \in Faults /\ AllFaults' <= MaxFaults /\ FaultsGrow
      /\ faults'.lock = 0 => faults.lock = 0 /\ run[lock[j]].job # j
  BY FaultCounted, FaultsStay DEF LockExpires, TypeOK, Faults
<1>3. TypeOK'
  BY <1>1, <1>2, ClockAssumption DEF TypeOK
<1>4. LockHeld'
  BY <1>1, <1>2 DEF LockHeld, TypeOK
<1>5. \A job, steps : N(job, steps)' = N(job, steps)
  BY <1>1 DEF N, About
<1>6. AllLeft'
  BY <1>1, <1>2, <1>3, <1>5, Steady DEF TypeOK, Typed, CountsSame, OutSame, Lead
<1> QED
  BY <1>1, <1>3, <1>4, <1>6 DEF OncePerFlag, Stamped

LEMMA GivesUpStep ==
    ASSUME IInv, NEW w \in Workers, GivesUp(w)
    PROVE  IInv'
<1>1. TypeOK /\ run[w] # Idle /\ Moves(w, Idle)
  BY AtJob, Ends DEF IInv, GivesUp
<1>2. ~Busy(run[w]) /\ ~Busy(Idle)
  BY DEF GivesUp, Busy, Idle, Staling
<1> QED
  BY <1>1, <1>2, MovesOn DEF GivesUp

-----------------------------------------------------------------------------
(* The steps of the approval SLA.                                          *)

LEMMA SlaQueryStep ==
    ASSUME IInv, NEW w \in Workers, SlaQuery(w)
    PROVE  IInv'
<1> DEFINE r == [job |-> "approval", at |-> "sla",
                 seen |-> [waited |-> lead.waited, nudged |-> lead.nudged, offered |-> lead.offered]]
           there == [job |-> run[w].job, at |-> "sla", seen |-> run[w].seen]
<1>1. TypeOK /\ run[w] \in Run /\ lead \in Lead /\ run[w] # Idle /\ run[w].job = "approval"
  BY AtJob DEF IInv, TypeOK, SlaQuery
<1>2. ~Busy(run[w]) /\ ~Busy(Idle) /\ ~Busy(r)
  BY DEF SlaQuery, Busy, Idle, Staling
<1>3. CASE Finish(w)
  BY <1>1, <1>2, <1>3, Ends, MovesOn DEF SlaQuery
<1>4. CASE ~Finish(w)
  <2>1. r \in Run
    BY <1>1 DEF Run, Lead
  <2>2. [run[w] EXCEPT !.at = "sla"] = there
    BY <1>1 DEF Run, Idle
  <2>3. run' = [run EXCEPT ![w] = r] /\ UNCHANGED lock
    BY <1>1, <1>4, <2>2 DEF SlaQuery, TypeOK
  <2>4. Moves(w, r) /\ r.job = run[w].job
    BY <1>1, <2>1, <2>3 DEF Moves
  <2> HIDE DEF r
  <2> QED
    BY <1>1, <1>2, <2>3, <2>4, MovesOn DEF SlaQuery
<1> QED
  BY <1>3, <1>4

LEMMA SlaStateStep ==
    ASSUME IInv, NEW w \in Workers, SlaState(w)
    PROVE  IInv'
<1> DEFINE r == [job |-> "approval", at |-> "claim", seen |-> run[w].seen]
<1>1. TypeOK /\ run[w] \in Run /\ run[w] # Idle /\ run[w].job = "approval"
  BY AtJob DEF IInv, TypeOK, SlaState
<1>2. ~Busy(run[w]) /\ ~Busy(Idle) /\ ~Busy(r)
  BY <1>1 DEF SlaState, Busy, Idle, Staling
<1>3. CASE Finish(w)
  BY <1>1, <1>2, <1>3, Ends, MovesOn DEF SlaState
<1>4. CASE ~Finish(w)
  <2>1. run[w].seen \in [waited: 0..OfferAfter, nudged: BOOLEAN, offered: BOOLEAN]
    BY <1>1 DEF SlaState, Run, Idle
  <2>2. r \in Run
    BY <2>1 DEF Run
  <2>3. [run[w] EXCEPT !.at = "claim"] = r
    BY <1>1 DEF Run, Idle
  <2>4. run' = [run EXCEPT ![w] = r] /\ UNCHANGED lock
    BY <1>1, <1>4, <2>3 DEF SlaState, TypeOK
  <2>5. Moves(w, r) /\ r.job = run[w].job
    BY <1>1, <2>2, <2>4 DEF Moves
  <2> HIDE DEF r
  <2> QED
    BY <1>1, <1>2, <2>4, <2>5, MovesOn DEF SlaState
<1> QED
  BY <1>3, <1>4

\* the flag that a message needs is set with it, and resets with the wait only
LEMMA SlaClaimStep ==
    ASSUME IInv, NEW w \in Workers, SlaClaim(w)
    PROVE  IInv'
<1>1. TypeOK /\ run[w] # Idle /\ lead \in Lead /\ sent \in Sent /\ Finish(w) /\ UNCHANGED <<day, panel, faults>>
  BY AtJob DEF IInv, TypeOK, SlaClaim
<1>2. Moves(w, Idle) /\ ~Busy(run[w]) /\ ~Busy(Idle)
  BY <1>1, Ends DEF SlaClaim, Busy, Idle, Staling
<1>3. OncePerFlag /\ sent.offers \in Nat /\ sent.nudges \in Nat
  BY <1>1 DEF IInv, Sent
<1>4. CASE UNCHANGED <<lead, sent>>
  BY <1>1, <1>2, <1>4, MovesOn
<1>5. CASE /\ ~lead.offered /\ lead' = [lead EXCEPT !.offered = TRUE]
           /\ sent' = [sent EXCEPT !.offers = @ + 1]
  <2>1. /\ lead' \in Lead /\ lead'.reminders = lead.reminders /\ lead'.stale = lead.stale
        /\ lead'.checks = lead.checks /\ lead'.since = lead.since /\ lead.checks \in Nat
    BY <1>1, <1>5 DEF Lead
  <2>4. CountsSame
    BY <2>1 DEF CountsSame
  <2>3. /\ sent' \in Sent /\ OutSame /\ sent'.quiet = sent.quiet /\ sent'.unstamped = sent.unstamped
    BY <1>1, <1>3, <1>5 DEF Sent, OutSame
  <2>2. OncePerFlag'
    BY <1>1, <1>3, <1>5 DEF OncePerFlag, Lead, Sent
  <2> QED
    BY <1>1, <1>2, <2>1, <2>2, <2>3, <2>4, Quietly DEF DateSame
<1>6. CASE /\ ~lead.nudged /\ lead' = [lead EXCEPT !.nudged = TRUE]
           /\ sent' = [sent EXCEPT !.nudges = @ + 1]
  <2>1. /\ lead' \in Lead /\ lead'.reminders = lead.reminders /\ lead'.stale = lead.stale
        /\ lead'.checks = lead.checks /\ lead'.since = lead.since /\ lead.checks \in Nat
    BY <1>1, <1>6 DEF Lead
  <2>4. CountsSame
    BY <2>1 DEF CountsSame
  <2>3. /\ sent' \in Sent /\ OutSame /\ sent'.quiet = sent.quiet /\ sent'.unstamped = sent.unstamped
    BY <1>1, <1>3, <1>6 DEF Sent, OutSame
  <2>2. OncePerFlag'
    BY <1>1, <1>3, <1>6 DEF OncePerFlag, Lead, Sent
  <2> QED
    BY <1>1, <1>2, <2>1, <2>2, <2>3, <2>4, Quietly DEF DateSame
<1> QED
  BY <1>4, <1>5, <1>6 DEF SlaClaim

-----------------------------------------------------------------------------
(* What a worker's step of one job means for the counts of the others.     *)

\* a worker goes on or ends, a failed $inc at most
LEMMA Taken ==
    ASSUME IInv, NEW w \in Workers, NEW r, Moves(w, r), run[w] # Idle,
           (r.job = run[w].job /\ UNCHANGED lock) \/ (r = Idle /\ Finish(w)),
           UNCHANGED faults \/ Fault("count"), UNCHANGED panel,
           lead' \in Lead, day' \in Day, sent' \in Sent
    PROVE  /\ TypeOK' /\ LockHeld' /\ Typed /\ FaultsGrow /\ faults'.lock = faults.lock
           /\ Cap' = Cap /\ Cap \in Int /\ Uncounted \in Nat
           /\ UNCHANGED faults => Uncounted' = Uncounted
           /\ Fault("count") => Uncounted' = Uncounted + 1
<1> USE DEF IInv
<1>1. /\ faults' \in Faults /\ AllFaults' <= MaxFaults /\ FaultsGrow /\ faults'.lock = faults.lock
      /\ Fault("count") => faults'.count = faults.count + 1 /\ faults'.death = faults.death
  BY FaultsStay, FaultCounted
<1>2. lock' \in [Jobs -> Workers \cup {NoOne}]
  BY Ends DEF TypeOK
<1>3. TypeOK' /\ Typed
  BY <1>1, <1>2, MovedTypes DEF TypeOK, Typed
<1>4. LockHeld'
  BY <1>1, GoesOn, EndsHeld
<1>5. Cap' = Cap /\ Cap \in Int
  BY <1>1, Finite, ClockAssumption DEF Cap
<1>6. faults.death \in Nat /\ faults.count \in Nat
  BY DEF TypeOK, Faults
<1> QED
  BY <1>1, <1>3, <1>4, <1>5, <1>6 DEF Uncounted

LEMMA OtherJobs ==
    ASSUME TypeOK, AllLeft, Typed, FaultsGrow, NEW w \in Workers, NEW r, Moves(w, r),
           NEW job, run[w].job = job, r.job \in {job, "none"}
    PROVE  /\ job # "unfinished" /\ lead'.reminders = lead.reminders
              /\ sent'.reminders = sent.reminders => RemindersLeft'
           /\ job # "unfinished" /\ lead'.checks = lead.checks
              /\ sent'.checks = sent.checks => ChecksLeft'
           /\ job # "nudger" /\ lead'.stale = lead.stale /\ sent'.stale = sent.stale => StaleLeft'
           /\ job # "slots" /\ day'.hours = day.hours => HoursLeft'
           /\ job # "daily" /\ day'.claimed = day.claimed
              /\ sent'.greetings = sent.greetings => GreetingsLeft'
<1>1. \A other \in Jobs \ {job} : \A steps : N(other, steps)' = N(other, steps)
  <2> TAKE other \in Jobs \ {job}
  <2> TAKE steps
  <2>1. r.job # other /\ run[w].job # other
    BY DEF Jobs
  <2> QED
    BY <2>1, Elsewhere
<1>2. job # "unfinished" => /\ N("unfinished", Reminding)' = N("unfinished", Reminding)
                            /\ N("unfinished", {"remind_count"})' = N("unfinished", {"remind_count"})
                            /\ N("unfinished", {"ask"})' = N("unfinished", {"ask"})
  BY <1>1 DEF Jobs
<1>3. job # "nudger" => /\ N("nudger", Staling)' = N("nudger", Staling)
                        /\ N("nudger", {"count"})' = N("nudger", {"count"})
  BY <1>1 DEF Jobs
<1>4. job # "slots" => N("slots", {"act"})' = N("slots", {"act"})
  BY <1>1 DEF Jobs
<1>5. job # "daily" => N("daily", {"act"})' = N("daily", {"act"})
  BY <1>1 DEF Jobs
<1>6. faults'.lock = 0 => faults.lock = 0
  BY CapGrows
<1>7. job # "unfinished" /\ lead'.reminders = lead.reminders
              /\ sent'.reminders = sent.reminders => RemindersLeft'
  BY <1>2, RemindersStand DEF AllLeft
<1>8. job # "unfinished" /\ lead'.checks = lead.checks /\ sent'.checks = sent.checks => ChecksLeft'
  BY <1>2 DEF AllLeft, ChecksLeft
<1>9. job # "nudger" /\ lead'.stale = lead.stale /\ sent'.stale = sent.stale => StaleLeft'
  BY <1>3, StaleStand DEF AllLeft
<1>10. job # "slots" /\ day'.hours = day.hours => HoursLeft'
  BY <1>4, <1>6, HoursStand DEF AllLeft
<1>11. job # "daily" /\ day'.claimed = day.claimed
              /\ sent'.greetings = sent.greetings => GreetingsLeft'
  BY <1>5, GreetingsStand DEF AllLeft
<1> QED
  BY <1>7, <1>8, <1>9, <1>10, <1>11

\* the numbers that the counts compare
LEMMA Numbers ==
    ASSUME TypeOK
    PROVE  /\ lead.reminders \in Nat /\ lead.stale \in Nat /\ lead.checks \in Nat
           /\ sent.reminders \in Nat /\ sent.stale \in Nat /\ sent.checks \in Nat
           /\ sent.greetings \in Nat /\ day.hours \in Nat /\ day.claimed \in BOOLEAN
           /\ lead \in Lead /\ sent \in Sent /\ day \in Day
  BY DEF TypeOK, Lead, Sent, Day

\* a worker that is about to send, which the cap let pass, and the others
LEMMA RoomForOne ==
    ASSUME TypeOK, LockHeld, NEW w \in Workers, NEW r, Moves(w, r), NEW job, NEW steps,
           NEW count \in Nat, count < MaxReminders, "idle" \notin steps,
           run[w] # Idle, run[w].job = job, run[w].at \notin steps, r.job = job, r.at \in steps
    PROVE  count + N(job, steps)' <= Cap
<1>1. /\ N(job, steps) \in Nat /\ N(job, steps)' \in Nat /\ Cardinality(Workers) \in Nat
      /\ N(job, steps)' <= Cardinality(Workers) /\ MaxReminders \in Nat
  BY Finite, ClockAssumption
<1>2. CASE faults.lock = 0
  <2>1. N(job, steps) = 0
    BY <1>2, Alone
  <2>2. N(job, steps)' = N(job, steps) + 1
    BY Shift
  <2> QED
    BY <1>1, <1>2, <2>1, <2>2 DEF Cap
<1>3. CASE faults.lock # 0
  BY <1>1, <1>3 DEF Cap
<1> QED
  BY <1>2, <1>3

-----------------------------------------------------------------------------
(* The steps of the sweep over unfinished jobs.                            *)

LEMMA UnfinishedQueryStep ==
    ASSUME IInv, NEW w \in Workers, UnfinishedQuery(w)
    PROVE  IInv'
<1> DEFINE step == IF lead.status = "booked" /\ lead.age \in Tier1..(Tier2 - 1)
                   THEN "remind" ELSE "checks"
           r == [job |-> "unfinished", at |-> step, seen |-> Unread]
<1>1. TypeOK /\ run[w] # Idle /\ run[w].job = "unfinished" /\ ~Busy(run[w]) /\ ~Busy(r)
  BY AtJob DEF IInv, UnfinishedQuery, Busy
<1>2. Moves(w, r)
  BY <1>1, UnfinishedGoes DEF UnfinishedQuery
<1> HIDE DEF step
<1> QED
  BY <1>1, <1>2, MovesOn DEF UnfinishedQuery, SweepOnly

\* the reminders counted leave room for the workers that are about to send one
LEMMA RemindStep ==
    ASSUME IInv, NEW w \in Workers, Remind(w)
    PROVE  IInv'
<1> USE DEF IInv
<1>1. /\ TypeOK /\ run[w] # Idle /\ run[w].job = "unfinished"
      /\ UNCHANGED <<lead, day, lock, panel, sent, faults>>
  BY AtJob DEF Remind, SweepOnly
<1>2. CASE lead.status = "booked" /\ lead.reminders < MaxReminders
  <2> DEFINE r == [job |-> "unfinished", at |-> "remind_send", seen |-> Unread]
  <2>1. Moves(w, r) /\ run[w].at = "remind"
    BY <1>1, <1>2, UnfinishedGoes DEF Remind
  <2>2. /\ TypeOK' /\ LockHeld' /\ Typed /\ FaultsGrow /\ Cap' = Cap /\ Uncounted' = Uncounted
    BY <1>1, <2>1, Taken, Numbers
  <2>3. HoursLeft' /\ GreetingsLeft' /\ StaleLeft'
    BY <1>1, <2>1, <2>2, OtherJobs
  <2>4. lead.reminders + N("unfinished", Reminding)' <= Cap
    BY <1>1, <1>2, <2>1, RoomForOne, Numbers DEF Reminding
  <2>5. /\ N("unfinished", {"remind_count"})' = N("unfinished", {"remind_count"})
        /\ N("unfinished", {"ask"})' = N("unfinished", {"ask"})
    BY <1>1, <2>1, Shift
  <2>6. RemindersLeft' /\ ChecksLeft'
    BY <1>1, <2>2, <2>4, <2>5 DEF AllLeft, RemindersLeft, ChecksLeft
  <2> QED
    BY <1>1, <2>2, <2>3, <2>6 DEF AllLeft, OncePerFlag, Stamped
<1>3. CASE ~(lead.status = "booked" /\ lead.reminders < MaxReminders)
  <2> DEFINE r == [job |-> "unfinished", at |-> "checks", seen |-> Unread]
  <2>1. Moves(w, r) /\ ~Busy(run[w]) /\ ~Busy(r)
    BY <1>1, <1>3, UnfinishedGoes DEF Remind, Busy
  <2> QED
    BY <1>1, <2>1, MovesOn
<1> QED
  BY <1>2, <1>3

\* a reminder goes out before it is counted
LEMMA RemindSendStep ==
    ASSUME IInv, NEW w \in Workers, RemindSend(w)
    PROVE  IInv'
<1> USE DEF IInv
<1> DEFINE r == [job |-> "unfinished", at |-> "remind_count", seen |-> Unread]
<1>1. /\ TypeOK /\ run[w] # Idle /\ run[w].job = "unfinished" /\ run[w].at = "remind_send"
      /\ UNCHANGED <<lead, day, lock, panel, faults>>
  BY AtJob DEF RemindSend, SweepOnly
<1>2. Moves(w, r)
  BY <1>1, UnfinishedGoes DEF RemindSend
<1>3. /\ sent' \in Sent /\ sent'.reminders \in {sent.reminders, sent.reminders + 1}
      /\ sent'.stale = sent.stale /\ sent'.checks = sent.checks /\ sent'.greetings = sent.greetings
      /\ sent'.nudges = sent.nudges /\ sent'.offers = sent.offers
      /\ sent'.quiet = sent.quiet /\ sent'.unstamped = sent.unstamped
  BY <1>1, Numbers DEF RemindSend, Sent
<1>4. /\ TypeOK' /\ LockHeld' /\ Typed /\ FaultsGrow /\ Cap' = Cap /\ Uncounted' = Uncounted
      /\ Uncounted \in Nat
  BY <1>1, <1>2, <1>3, Taken, Numbers
<1>5. HoursLeft' /\ GreetingsLeft' /\ StaleLeft'
  BY <1>1, <1>2, <1>3, <1>4, OtherJobs
<1>6. /\ N("unfinished", Reminding)' = N("unfinished", Reminding)
      /\ N("unfinished", {"remind_count"})' = N("unfinished", {"remind_count"}) + 1
      /\ N("unfinished", {"ask"})' = N("unfinished", {"ask"})
  BY <1>1, <1>2, Shift DEF Reminding
<1>7. N("unfinished", {"remind_count"}) \in Nat
  BY Finite
<1>8. RemindersLeft' /\ ChecksLeft'
  BY <1>1, <1>3, <1>4, <1>6, <1>7, Numbers DEF AllLeft, RemindersLeft, ChecksLeft
<1> QED
  BY <1>1, <1>3, <1>4, <1>5, <1>8 DEF AllLeft, OncePerFlag, Stamped

\* the count, or the count's failure
LEMMA RemindCountStep ==
    ASSUME IInv, NEW w \in Workers, RemindCount(w)
    PROVE  IInv'
<1> USE DEF IInv
<1> DEFINE r == [job |-> "unfinished", at |-> "checks", seen |-> Unread]
<1>1. /\ TypeOK /\ run[w] # Idle /\ run[w].job = "unfinished" /\ run[w].at = "remind_count"
      /\ UNCHANGED <<day, lock, panel, sent>>
  BY AtJob DEF RemindCount, SweepOnly
<1>2. Moves(w, r)
  BY <1>1, UnfinishedGoes DEF RemindCount
<1>3. /\ lead' \in Lead /\ lead'.stale = lead.stale /\ lead'.checks = lead.checks
      /\ lead'.nudged = lead.nudged /\ lead'.offered = lead.offered /\ lead'.since = lead.since
      /\ \/ lead'.reminders = lead.reminders + 1 /\ UNCHANGED faults
         \/ lead'.reminders = lead.reminders /\ Fault("count")
  BY <1>1, Numbers DEF RemindCount, Lead
<1>4. /\ TypeOK' /\ LockHeld' /\ Typed /\ FaultsGrow /\ Cap' = Cap /\ Cap \in Int /\ Uncounted \in Nat
      /\ UNCHANGED faults => Uncounted' = Uncounted
      /\ Fault("count") => Uncounted' = Uncounted + 1
  BY <1>1, <1>2, <1>3, Taken, Numbers
<1>5. HoursLeft' /\ GreetingsLeft' /\ StaleLeft'
  BY <1>1, <1>2, <1>3, <1>4, OtherJobs
<1>6. /\ N("unfinished", Reminding)' = N("unfinished", Reminding) - 1
      /\ N("unfinished", {"remind_count"})' = N("unfinished", {"remind_count"}) - 1
      /\ N("unfinished", {"ask"})' = N("unfinished", {"ask"})
  BY <1>1, <1>2, Shift DEF Reminding
<1>7. N("unfinished", {"remind_count"}) \in Nat /\ N("unfinished", Reminding) \in Nat
  BY Finite
<1>8. RemindersLeft' /\ ChecksLeft'
  BY <1>1, <1>3, <1>4, <1>6, <1>7, Numbers DEF AllLeft, RemindersLeft, ChecksLeft
<1> QED
  BY <1>1, <1>3, <1>4, <1>5, <1>8 DEF AllLeft, OncePerFlag, Stamped

LEMMA ChecksQueryStep ==
    ASSUME IInv, NEW w \in Workers, ChecksQuery(w)
    PROVE  IInv'
<1> DEFINE step == IF lead.status = "booked" /\ lead.age \in Tier2..(Tier3 - 1) /\ Due
                   THEN "check" ELSE "flag"
           r == [job |-> "unfinished", at |-> step, seen |-> Unread]
<1>1. TypeOK /\ run[w] # Idle /\ run[w].job = "unfinished" /\ ~Busy(run[w]) /\ ~Busy(r)
  BY AtJob DEF IInv, ChecksQuery, Busy
<1>2. Moves(w, r)
  BY <1>1, UnfinishedGoes DEF ChecksQuery
<1> HIDE DEF step
<1> QED
  BY <1>1, <1>2, MovesOn DEF ChecksQuery, SweepOnly

\* what a stamp and a note of it leave behind
LEMMA StampKeeps ==
    ASSUME TypeOK, Stamp
    PROVE  /\ lead' \in Lead /\ lead'.checks = lead.checks + 1 /\ lead'.since = 0
           /\ lead'.reminders = lead.reminders /\ lead'.stale = lead.stale
           /\ lead'.nudged = lead.nudged /\ lead'.offered = lead.offered
<1> DEFINE some == [lead EXCEPT !.checks = @ + 1]
<1>1. lead \in Lead /\ lead.checks \in Nat /\ 0 \in 0..Cooldown
  BY Numbers, ClockAssumption
<1>2. /\ some \in Lead /\ some.checks = lead.checks + 1 /\ some.reminders = lead.reminders
      /\ some.stale = lead.stale /\ some.nudged = lead.nudged /\ some.offered = lead.offered
  BY <1>1 DEF Lead
<1>3. lead' = [some EXCEPT !.since = 0]
  BY <1>1 DEF Stamp, Lead
<1> HIDE DEF some
<1> QED
  BY <1>1, <1>2, <1>3 DEF Lead

LEMMA NotedKeeps ==
    ASSUME TypeOK, NEW b \in BOOLEAN, sent' = [sent EXCEPT !.quiet = 0, !.unstamped = b]
    PROVE  /\ sent' \in Sent /\ OutSame /\ sent'.quiet = 0 /\ sent'.unstamped = b
           /\ sent'.nudges = sent.nudges /\ sent'.offers = sent.offers
<1> DEFINE some == [sent EXCEPT !.quiet = 0]
<1>1. sent \in Sent /\ 0 \in 0..Cooldown
  BY Numbers, ClockAssumption
<1>2. /\ some \in Sent /\ some.quiet = 0 /\ some.reminders = sent.reminders /\ some.stale = sent.stale
      /\ some.checks = sent.checks /\ some.greetings = sent.greetings
      /\ some.nudges = sent.nudges /\ some.offers = sent.offers
  BY <1>1 DEF Sent
<1>3. sent' = [some EXCEPT !.unstamped = b]
  BY <1>1 DEF Sent
<1> HIDE DEF some
<1> QED
  BY <1>1, <1>2, <1>3 DEF Sent, OutSame

\* the claim of a question counts it before it goes out
LEMMA CheckStep ==
    ASSUME IInv, NEW w \in Workers, Check(w)
    PROVE  IInv'
<1> USE DEF IInv
<1>1. /\ TypeOK /\ run[w] # Idle /\ run[w].job = "unfinished" /\ run[w].at = "check"
      /\ UNCHANGED <<day, lock, panel, faults>>
  BY AtJob DEF Check, SweepOnly
<1>2. CASE lead.status = "booked" /\ Due
  <2> DEFINE r == [job |-> "unfinished", at |-> "ask", seen |-> Unread]
  <2>1. Moves(w, r) /\ Stamp /\ Noted
    BY <1>1, <1>2, UnfinishedGoes DEF Check
  <2>2. /\ lead' \in Lead /\ lead'.checks = lead.checks + 1 /\ lead'.since = 0
        /\ lead'.reminders = lead.reminders /\ lead'.stale = lead.stale
        /\ lead'.nudged = lead.nudged /\ lead'.offered = lead.offered
    BY <1>1, <2>1, StampKeeps
  <2>3. /\ sent' \in Sent /\ OutSame /\ sent'.quiet = 0
        /\ sent'.nudges = sent.nudges /\ sent'.offers = sent.offers
    BY <1>1, <2>1, NotedKeeps DEF Noted
  <2>4. /\ TypeOK' /\ LockHeld' /\ Typed /\ FaultsGrow /\ Cap' = Cap /\ Uncounted' = Uncounted
    BY <1>1, <2>1, <2>2, <2>3, Taken, Numbers
  <2>5. HoursLeft' /\ GreetingsLeft' /\ StaleLeft'
    BY <1>1, <2>1, <2>2, <2>3, <2>4, OtherJobs DEF OutSame
  <2>6. /\ N("unfinished", Reminding)' = N("unfinished", Reminding)
        /\ N("unfinished", {"remind_count"})' = N("unfinished", {"remind_count"})
        /\ N("unfinished", {"ask"})' = N("unfinished", {"ask"}) + 1
    BY <1>1, <2>1, Shift DEF Reminding
  <2>7. RemindersLeft'
    BY <2>2, <2>3, <2>4, <2>6 DEF AllLeft, RemindersLeft, OutSame
  <2>8. N("unfinished", {"ask"}) \in Nat /\ lead.checks < MaxChecks /\ MaxChecks \in Nat
    BY <1>2, Finite, ClockAssumption DEF Due
  <2>9. ChecksLeft'
    BY <2>2, <2>3, <2>6, <2>8, Numbers DEF AllLeft, ChecksLeft, OutSame
  <2> QED
    BY <2>2, <2>3, <2>4, <2>5, <2>7, <2>9 DEF AllLeft, OncePerFlag, Stamped
<1>3. CASE ~(lead.status = "booked" /\ Due)
  <2> DEFINE r == [job |-> "unfinished", at |-> "flag", seen |-> Unread]
  <2>1. /\ Moves(w, r) /\ ~Busy(run[w]) /\ ~Busy(r) /\ UNCHANGED <<lead, sent>>
    BY <1>1, <1>3, UnfinishedGoes DEF Check, Busy
  <2> QED
    BY <1>1, <2>1, MovesOn
<1> QED
  BY <1>2, <1>3

LEMMA AskStep ==
    ASSUME IInv, NEW w \in Workers, Ask(w)
    PROVE  IInv'
<1> USE DEF IInv
<1> DEFINE r == [job |-> "unfinished", at |-> "flag", seen |-> Unread]
<1>1. /\ TypeOK /\ run[w] # Idle /\ run[w].job = "unfinished" /\ run[w].at = "ask"
      /\ UNCHANGED <<lead, day, lock, panel, faults>>
  BY AtJob DEF Ask, SweepOnly
<1>2. Moves(w, r)
  BY <1>1, UnfinishedGoes DEF Ask
<1>3. /\ sent' \in Sent /\ sent'.checks \in {sent.checks, sent.checks + 1}
      /\ sent'.stale = sent.stale /\ sent'.reminders = sent.reminders /\ sent'.greetings = sent.greetings
      /\ sent'.nudges = sent.nudges /\ sent'.offers = sent.offers
      /\ sent'.quiet = sent.quiet /\ sent'.unstamped = sent.unstamped
  BY <1>1, Numbers DEF Ask, Sent
<1>4. /\ TypeOK' /\ LockHeld' /\ Typed /\ FaultsGrow /\ Cap' = Cap /\ Uncounted' = Uncounted
  BY <1>1, <1>2, <1>3, Taken, Numbers
<1>5. HoursLeft' /\ GreetingsLeft' /\ StaleLeft'
  BY <1>1, <1>2, <1>3, <1>4, OtherJobs
<1>6. /\ N("unfinished", Reminding)' = N("unfinished", Reminding)
      /\ N("unfinished", {"remind_count"})' = N("unfinished", {"remind_count"})
      /\ N("unfinished", {"ask"})' = N("unfinished", {"ask"}) - 1
  BY <1>1, <1>2, Shift DEF Reminding
<1>7. N("unfinished", {"ask"}) \in Nat /\ MaxChecks \in Nat
  BY Finite, ClockAssumption
<1>8. RemindersLeft' /\ ChecksLeft'
  BY <1>1, <1>3, <1>4, <1>6, <1>7, Numbers DEF AllLeft, RemindersLeft, ChecksLeft
<1> QED
  BY <1>1, <1>3, <1>4, <1>5, <1>8 DEF AllLeft, OncePerFlag, Stamped

LEMMA FlagStep ==
    ASSUME IInv, NEW w \in Workers, Flag(w)
    PROVE  IInv'
<1> USE DEF IInv
<1>1. TypeOK /\ run[w] # Idle /\ run[w].at = "flag" /\ Finish(w) /\ UNCHANGED <<day, panel, sent, faults>>
  BY AtJob DEF Flag, SweepOnly
<1>2. Moves(w, Idle) /\ ~Busy(run[w]) /\ ~Busy(Idle)
  BY <1>1, Ends, AtJob DEF Busy, Idle, Staling
<1>3. /\ lead' \in Lead /\ lead'.reminders = lead.reminders /\ lead'.stale = lead.stale
      /\ lead'.checks = lead.checks /\ lead'.since = lead.since
      /\ lead'.nudged = lead.nudged /\ lead'.offered = lead.offered
  BY Numbers DEF Flag, Lead
<1>4. CountsSame /\ OutSame /\ DateSame
  BY <1>1, <1>3, Numbers DEF CountsSame, OutSame, DateSame
<1>5. OncePerFlag' /\ sent' \in Sent
  BY <1>1, <1>3, Numbers DEF OncePerFlag
<1> QED
  BY <1>1, <1>2, <1>3, <1>4, <1>5, Quietly

-----------------------------------------------------------------------------
(* The steps of the nudger, of the good-morning and of the day's hours.    *)

LEMMA StaleQueryStep ==
    ASSUME IInv, NEW w \in Workers, StaleQuery(w)
    PROVE  IInv'
<1> USE DEF IInv
<1>1. /\ TypeOK /\ run[w] # Idle /\ run[w].job = "nudger" /\ run[w].at = "query"
      /\ UNCHANGED <<lead, day, panel, sent, faults>>
  BY AtJob DEF StaleQuery
<1>2. CASE Finish(w)
  <2>1. Moves(w, Idle) /\ ~Busy(run[w]) /\ ~Busy(Idle)
    BY <1>1, <1>2, Ends DEF Busy, Idle, Staling
  <2> QED
    BY <1>1, <1>2, <2>1, MovesOn
<1>3. CASE ~Finish(w)
  <2> DEFINE r == [job |-> "nudger", at |-> "act", seen |-> Unread]
  <2>1. r \in Run /\ GoTo(w, "act") /\ UNCHANGED lock /\ lead.stale < MaxReminders
    BY <1>3 DEF StaleQuery, Run
  <2>2. Moves(w, r)
    BY <1>1, <2>1, Gone
  <2>3. /\ TypeOK' /\ LockHeld' /\ Typed /\ FaultsGrow /\ Cap' = Cap /\ Uncounted' = Uncounted
    BY <1>1, <2>1, <2>2, Taken, Numbers
  <2>4. RemindersLeft' /\ ChecksLeft' /\ HoursLeft' /\ GreetingsLeft'
    BY <1>1, <2>2, <2>3, OtherJobs
  <2>5. lead.stale + N("nudger", Staling)' <= Cap
    BY <1>1, <2>1, <2>2, RoomForOne, Numbers DEF Staling
  <2>6. N("nudger", {"count"})' = N("nudger", {"count"})
    BY <1>1, <2>2, Shift
  <2>7. StaleLeft'
    BY <1>1, <2>3, <2>5, <2>6 DEF AllLeft, StaleLeft
  <2> QED
    BY <1>1, <2>3, <2>4, <2>7 DEF AllLeft, OncePerFlag, Stamped
<1> QED
  BY <1>2, <1>3

LEMMA StaleSendStep ==
    ASSUME IInv, NEW w \in Workers, StaleSend(w)
    PROVE  IInv'
<1> USE DEF IInv
<1>1. /\ TypeOK /\ run[w] # Idle /\ run[w].job = "nudger" /\ run[w].at = "act"
      /\ UNCHANGED <<lead, day, panel, faults>>
  BY AtJob DEF StaleSend
<1>2. PICK r \in Run :
        /\ Moves(w, r) /\ r.job \in {"nudger", "none"}
        /\ (r.job = run[w].job /\ UNCHANGED lock) \/ (r = Idle /\ Finish(w))
        /\ sent' \in Sent /\ sent'.stale <= sent.stale + 1
        /\ (r.at = "count" /\ r.job = "nudger") \/ (r = Idle /\ sent' = sent)
        /\ sent'.reminders = sent.reminders /\ sent'.checks = sent.checks
        /\ sent'.greetings = sent.greetings
        /\ sent'.nudges = sent.nudges /\ sent'.offers = sent.offers
        /\ sent'.quiet = sent.quiet /\ sent'.unstamped = sent.unstamped
  <2>1. CASE sent' = [sent EXCEPT !.stale = @ + 1] /\ GoTo(w, "count") /\ UNCHANGED lock
    <3> DEFINE r == [job |-> "nudger", at |-> "count", seen |-> Unread]
    <3>1. r \in Run
      BY DEF Run
    <3>2. Moves(w, r)
      BY <1>1, <2>1, <3>1, Gone
    <3>3. /\ sent' \in Sent /\ sent'.stale <= sent.stale + 1
          /\ sent'.reminders = sent.reminders /\ sent'.checks = sent.checks
          /\ sent'.greetings = sent.greetings
          /\ sent'.nudges = sent.nudges /\ sent'.offers = sent.offers
          /\ sent'.quiet = sent.quiet /\ sent'.unstamped = sent.unstamped
      BY <1>1, <2>1, Numbers DEF Sent
    <3>4. r.job = "nudger" /\ r.at = "count"
      OBVIOUS
    <3> HIDE DEF r
    <3> QED
      BY <1>1, <2>1, <3>1, <3>2, <3>3, <3>4
  <2>2. CASE Finish(w) /\ UNCHANGED sent
    <3>1. Moves(w, Idle) /\ Idle \in Run /\ Idle.job = "none"
      BY <1>1, <2>2, Ends DEF Moves, Idle
    <3> QED
      BY <1>1, <2>2, <3>1, Numbers
  <2> QED
    BY <2>1, <2>2 DEF StaleSend
<1>3. /\ TypeOK' /\ LockHeld' /\ Typed /\ FaultsGrow /\ Cap' = Cap /\ Cap \in Int
      /\ Uncounted' = Uncounted /\ Uncounted \in Nat
  BY <1>1, <1>2, Taken, Numbers
<1>4. RemindersLeft' /\ ChecksLeft' /\ HoursLeft' /\ GreetingsLeft'
  BY <1>1, <1>2, <1>3, OtherJobs
<1>5. N("nudger", {"count"}) \in Nat /\ N("nudger", Staling) \in Nat
  BY Finite
<1>6. StaleLeft'
  <2>1. CASE r.at = "count" /\ r.job = "nudger"
    <3>1. /\ N("nudger", Staling)' = N("nudger", Staling)
          /\ N("nudger", {"count"})' = N("nudger", {"count"}) + 1
      BY <1>1, <1>2, <2>1, Shift DEF Staling
    <3> QED
      BY <1>1, <1>2, <1>3, <1>5, <3>1, Numbers DEF AllLeft, StaleLeft, Typed, Sent
  <2>2. CASE r = Idle /\ sent' = sent
    <3>1. r.job = "none"
      BY <2>2 DEF Idle
    <3>2. /\ N("nudger", Staling)' = N("nudger", Staling) - 1
          /\ N("nudger", {"count"})' = N("nudger", {"count"})
      BY <1>1, <1>2, <3>1, Shift DEF Staling
    <3> QED
      BY <1>1, <1>3, <1>5, <2>2, <3>2, Numbers DEF AllLeft, StaleLeft
  <2> QED
    BY <1>2, <2>1, <2>2
<1> QED
  BY <1>1, <1>2, <1>3, <1>4, <1>6 DEF AllLeft, OncePerFlag, Stamped

LEMMA StaleCountStep ==
    ASSUME IInv, NEW w \in Workers, StaleCount(w)
    PROVE  IInv'
<1> USE DEF IInv
<1>1. /\ TypeOK /\ run[w] # Idle /\ run[w].job = "nudger" /\ run[w].at = "count" /\ Finish(w)
      /\ UNCHANGED <<day, panel, sent>>
  BY AtJob DEF StaleCount
<1>2. Moves(w, Idle) /\ Idle.job = "none"
  BY <1>1, Ends DEF Idle
<1>3. /\ lead' \in Lead /\ lead'.reminders = lead.reminders /\ lead'.checks = lead.checks
      /\ lead'.nudged = lead.nudged /\ lead'.offered = lead.offered /\ lead'.since = lead.since
      /\ \/ lead'.stale = lead.stale + 1 /\ UNCHANGED faults
         \/ lead'.stale = lead.stale /\ Fault("count")
  BY <1>1, Numbers DEF StaleCount, Lead
<1>4. /\ TypeOK' /\ LockHeld' /\ Typed /\ FaultsGrow /\ Cap' = Cap /\ Cap \in Int /\ Uncounted \in Nat
      /\ UNCHANGED faults => Uncounted' = Uncounted
      /\ Fault("count") => Uncounted' = Uncounted + 1
  BY <1>1, <1>2, <1>3, Taken, Numbers
<1>5. RemindersLeft' /\ ChecksLeft' /\ HoursLeft' /\ GreetingsLeft'
  BY <1>1, <1>2, <1>3, <1>4, OtherJobs
<1>6. /\ N("nudger", Staling)' = N("nudger", Staling) - 1
      /\ N("nudger", {"count"})' = N("nudger", {"count"}) - 1
  BY <1>1, <1>2, Shift DEF Staling
<1>7. N("nudger", {"count"}) \in Nat /\ N("nudger", Staling) \in Nat
  BY Finite
<1>8. StaleLeft'
  BY <1>1, <1>3, <1>4, <1>6, <1>7, Numbers DEF AllLeft, StaleLeft
<1> QED
  BY <1>1, <1>3, <1>4, <1>5, <1>8 DEF AllLeft, OncePerFlag, Stamped

\* the date is claimed by the worker that is going to greet
LEMMA DailyClaimStep ==
    ASSUME IInv, NEW w \in Workers, DailyClaim(w)
    PROVE  IInv'
<1> USE DEF IInv
<1>1. /\ TypeOK /\ run[w] # Idle /\ run[w].job = "daily" /\ run[w].at = "query"
      /\ UNCHANGED <<lead, panel, sent, faults>>
  BY AtJob DEF DailyClaim
<1>2. CASE day.claimed
  <2>1. Finish(w) /\ Moves(w, Idle) /\ ~Busy(run[w]) /\ ~Busy(Idle) /\ UNCHANGED day
    BY <1>1, <1>2, Ends DEF DailyClaim, Busy, Idle, Staling
  <2> QED
    BY <1>1, <2>1, MovesOn
<1>3. CASE ~day.claimed
  <2> DEFINE r == [job |-> "daily", at |-> "act", seen |-> Unread]
  <2>1. r \in Run /\ GoTo(w, "act") /\ UNCHANGED lock
    BY <1>3 DEF DailyClaim, Run
  <2>2. Moves(w, r)
    BY <1>1, <2>1, Gone
  <2>3. day' \in Day /\ day'.claimed = TRUE /\ day'.hours = day.hours
    BY <1>1, <1>3, Numbers DEF DailyClaim, Day
  <2>4. TypeOK' /\ LockHeld' /\ Typed /\ FaultsGrow
    BY <1>1, <2>1, <2>2, <2>3, Taken, Numbers
  <2>5. RemindersLeft' /\ ChecksLeft' /\ StaleLeft' /\ HoursLeft'
    BY <1>1, <2>2, <2>3, <2>4, OtherJobs
  <2>6. N("daily", {"act"})' = N("daily", {"act"}) + 1 /\ N("daily", {"act"}) \in Nat
    BY <1>1, <2>2, Shift, Finite
  <2>7. GreetingsLeft'
    BY <1>1, <1>3, <2>3, <2>6, Numbers DEF AllLeft, GreetingsLeft
  <2> QED
    BY <1>1, <2>4, <2>5, <2>7 DEF AllLeft, OncePerFlag, Stamped
<1> QED
  BY <1>2, <1>3

LEMMA GreetStep ==
    ASSUME IInv, NEW w \in Workers, Greet(w)
    PROVE  IInv'
<1> USE DEF IInv
<1>1. /\ TypeOK /\ run[w] # Idle /\ run[w].job = "daily" /\ run[w].at = "act" /\ Finish(w)
      /\ UNCHANGED <<lead, day, panel, faults>>
  BY AtJob DEF Greet
<1>2. Moves(w, Idle) /\ Idle.job = "none"
  BY <1>1, Ends DEF Idle
<1>3. /\ sent' \in Sent /\ sent'.greetings \in {sent.greetings, sent.greetings + 1}
      /\ sent'.stale = sent.stale /\ sent'.reminders = sent.reminders /\ sent'.checks = sent.checks
      /\ sent'.nudges = sent.nudges /\ sent'.offers = sent.offers
      /\ sent'.quiet = sent.quiet /\ sent'.unstamped = sent.unstamped
  BY <1>1, Numbers DEF Greet, Sent
<1>4. TypeOK' /\ LockHeld' /\ Typed /\ FaultsGrow
  BY <1>1, <1>2, <1>3, Taken, Numbers
<1>5. RemindersLeft' /\ ChecksLeft' /\ StaleLeft' /\ HoursLeft'
  BY <1>1, <1>2, <1>3, <1>4, OtherJobs
<1>6. N("daily", {"act"})' = N("daily", {"act"}) - 1 /\ N("daily", {"act"}) \in Nat
  BY <1>1, <1>2, Shift, Finite
<1>7. GreetingsLeft'
  BY <1>1, <1>3, <1>6, Numbers DEF AllLeft, GreetingsLeft
<1> QED
  BY <1>1, <1>3, <1>4, <1>5, <1>7 DEF AllLeft, OncePerFlag, Stamped

LEMMA SlotsCountStep ==
    ASSUME IInv, NEW w \in Workers, SlotsCount(w)
    PROVE  IInv'
<1> USE DEF IInv
<1>1. /\ TypeOK /\ run[w] # Idle /\ run[w].job = "slots" /\ run[w].at = "query"
      /\ UNCHANGED <<lead, day, panel, sent, faults>>
  BY AtJob DEF SlotsCount
<1>2. CASE day.hours # 0
  <2>1. Finish(w) /\ Moves(w, Idle) /\ ~Busy(run[w]) /\ ~Busy(Idle)
    BY <1>1, <1>2, Ends DEF SlotsCount, Busy, Idle, Staling
  <2> QED
    BY <1>1, <2>1, MovesOn
<1>3. CASE day.hours = 0
  <2> DEFINE r == [job |-> "slots", at |-> "act", seen |-> Unread]
  <2>1. r \in Run /\ GoTo(w, "act") /\ UNCHANGED lock
    BY <1>3 DEF SlotsCount, Run
  <2>2. Moves(w, r)
    BY <1>1, <2>1, Gone
  <2>3. TypeOK' /\ LockHeld' /\ Typed /\ FaultsGrow
    BY <1>1, <2>1, <2>2, Taken, Numbers
  <2>4. RemindersLeft' /\ ChecksLeft' /\ StaleLeft' /\ GreetingsLeft'
    BY <1>1, <2>2, <2>3, OtherJobs
  <2>5. N("slots", {"act"})' = N("slots", {"act"}) + 1
    BY <1>1, <2>2, Shift
  <2>6. faults.lock = 0 => N("slots", {"act"}) = 0
    BY <1>1, Alone
  <2>7. HoursLeft'
    BY <1>1, <1>3, <2>5, <2>6 DEF HoursLeft
  <2> QED
    BY <1>1, <2>3, <2>4, <2>7 DEF AllLeft, OncePerFlag, Stamped
<1> QED
  BY <1>2, <1>3

LEMMA SlotsInsertStep ==
    ASSUME IInv, NEW w \in Workers, SlotsInsert(w)
    PROVE  IInv'
<1> USE DEF IInv
<1>1. /\ TypeOK /\ run[w] # Idle /\ run[w].job = "slots" /\ run[w].at = "act" /\ Finish(w)
      /\ UNCHANGED <<lead, panel, sent, faults>>
  BY AtJob DEF SlotsInsert
<1>2. Moves(w, Idle) /\ Idle.job = "none"
  BY <1>1, Ends DEF Idle
<1>3. day' \in Day /\ day'.hours = day.hours + 1 /\ day'.claimed = day.claimed
  BY <1>1, Numbers DEF SlotsInsert, Day
<1>4. TypeOK' /\ LockHeld' /\ Typed /\ FaultsGrow
  BY <1>1, <1>2, <1>3, Taken, Numbers
<1>5. RemindersLeft' /\ ChecksLeft' /\ StaleLeft' /\ GreetingsLeft'
  BY <1>1, <1>2, <1>3, <1>4, OtherJobs
<1>6. N("slots", {"act"})' = N("slots", {"act"}) - 1 /\ N("slots", {"act"}) \in Nat
  BY <1>1, <1>2, Shift, Finite
<1>7. HoursLeft'
  BY <1>1, <1>3, <1>6, Numbers DEF AllLeft, HoursLeft
<1> QED
  BY <1>1, <1>4, <1>5, <1>7 DEF AllLeft, OncePerFlag, Stamped

-----------------------------------------------------------------------------
(* Time, the pro, the customer and the operator.                           *)

LEMMA LeastOfTwo ==
    ASSUME NEW a \in Nat, NEW b \in Nat
    PROVE  /\ Min({a, b}) \in 0..b /\ (a <= b => Min({a, b}) = a) /\ (b <= a => Min({a, b}) = b)
<1>1. \E x \in {a, b} : \A y \in {a, b} : x <= y
  OBVIOUS
<1> QED
  BY <1>1 DEF Min

\* the clock of the lead's date and that of the last question go together
LEMMA TickStep ==
    ASSUME IInv, Tick
    PROVE  IInv'
<1> USE DEF IInv
<1> DEFINE waited == IF lead.status = "new" THEN Min({lead.waited + 1, OfferAfter}) ELSE lead.waited
           age == IF lead.status = "booked" THEN Min({lead.age + 1, Tier3}) ELSE lead.age
           since == Min({lead.since + 1, Cooldown})
           quiet == Min({sent.quiet + 1, Cooldown})
           longer == [lead EXCEPT !.waited = waited]
           older == [longer EXCEPT !.age = age]
<1>1. /\ TypeOK /\ lead \in Lead /\ sent \in Sent /\ UNCHANGED <<day, lock, run, panel, faults>>
      /\ lead.waited \in 0..OfferAfter /\ lead.age \in 0..Tier3 /\ lead.since \in 0..Cooldown
      /\ sent.quiet \in 0..Cooldown
      /\ OfferAfter \in Nat /\ Tier3 \in Nat /\ Cooldown \in Nat
  BY ClockAssumption DEF TypeOK, Tick, Lead, Sent
<1>2. waited \in 0..OfferAfter /\ age \in 0..Tier3 /\ since \in 0..Cooldown /\ quiet \in 0..Cooldown
  BY <1>1, LeastOfTwo
<1>3. lead.since <= sent.quiet => since <= quiet
  BY <1>1, LeastOfTwo
<1>4. lead' = [[[lead EXCEPT !.waited = waited] EXCEPT !.age = age] EXCEPT !.since = since]
      /\ sent' = [sent EXCEPT !.quiet = quiet]
  BY <1>1 DEF Tick, Lead, Sent
<1> HIDE DEF waited, age, since, quiet
<1>5. /\ longer \in Lead /\ longer.reminders = lead.reminders /\ longer.stale = lead.stale
      /\ longer.checks = lead.checks
      /\ longer.nudged = lead.nudged /\ longer.offered = lead.offered
  BY <1>1, <1>2 DEF Lead
<1> HIDE DEF longer
<1>6. /\ older \in Lead /\ older.reminders = lead.reminders /\ older.stale = lead.stale
      /\ older.checks = lead.checks
      /\ older.nudged = lead.nudged /\ older.offered = lead.offered
  BY <1>2, <1>5 DEF Lead
<1>7. lead' = [older EXCEPT !.since = since]
  BY <1>4 DEF longer
<1> HIDE DEF older
<1>8. /\ lead' \in Lead /\ lead'.reminders = lead.reminders /\ lead'.stale = lead.stale
      /\ lead'.checks = lead.checks /\ lead'.since = since
      /\ lead'.nudged = lead.nudged /\ lead'.offered = lead.offered
  BY <1>2, <1>6, <1>7 DEF Lead
<1>9. /\ sent' \in Sent /\ OutSame /\ sent'.quiet = quiet /\ sent'.unstamped = sent.unstamped
      /\ sent'.nudges = sent.nudges /\ sent'.offers = sent.offers
  BY <1>1, <1>2, <1>4 DEF Sent, OutSame
<1>10. CountsSame /\ OncePerFlag'
  BY <1>1, <1>8, <1>9, Numbers DEF CountsSame, OncePerFlag
<1>11. Stamped' /\ panel' \in BOOLEAN
  BY <1>1, <1>3, <1>8, <1>9 DEF Stamped, TypeOK
<1> QED
  BY <1>1, <1>8, <1>9, <1>10, <1>11, Aside

\* nobody is about to greet or to make hours at midnight
LEMMA MidnightStep ==
    ASSUME IInv, Midnight
    PROVE  IInv'
<1> USE DEF IInv
<1>1. /\ day' \in Day /\ day'.claimed = FALSE /\ day'.hours = 0
      /\ UNCHANGED <<lead, lock, run, panel, faults>>
      /\ sent' \in Sent /\ sent'.greetings = 0 /\ sent'.nudges = sent.nudges /\ sent'.offers = sent.offers
      /\ sent'.reminders = sent.reminders /\ sent'.stale = sent.stale /\ sent'.checks = sent.checks
      /\ sent'.quiet = sent.quiet /\ sent'.unstamped = sent.unstamped
  BY DEF Midnight, Day, TypeOK, Sent
<1>2. TypeOK' /\ LockHeld' /\ OncePerFlag' /\ Stamped'
  BY <1>1 DEF TypeOK, AllFaults, LockHeld, OncePerFlag, Stamped
<1>3. \A job, steps : N(job, steps)' = N(job, steps)
  BY <1>1 DEF N, About
<1>4. RemindersLeft' /\ StaleLeft' /\ ChecksLeft'
  BY <1>1, <1>3 DEF AllLeft, RemindersLeft, StaleLeft, ChecksLeft, Cap, Uncounted
<1>5. About("daily", {"act"})' = {} /\ About("slots", {"act"})' = {}
  BY <1>1 DEF Midnight, About
<1>6. Cardinality({}) = 0
  BY FS_EmptySet
<1>7. HoursLeft' /\ GreetingsLeft'
  BY <1>1, <1>5, <1>6 DEF HoursLeft, GreetingsLeft, N
<1> QED
  BY <1>2, <1>4, <1>7 DEF AllLeft

\* the lead of a wait that begins or ends
LEMMA RestartedLead ==
    ASSUME TypeOK, NEW waiting \in BOOLEAN
    PROVE  /\ Restarted(waiting) \in Lead /\ Restarted(waiting).reminders = lead.reminders
           /\ Restarted(waiting).stale = lead.stale /\ Restarted(waiting).checks = lead.checks
           /\ Restarted(waiting).since = lead.since
<1> DEFINE a == [lead EXCEPT !.waiting = waiting]
           b == [a EXCEPT !.waited = 0]
           c == [b EXCEPT !.nudged = FALSE]
<1>1. lead \in Lead /\ 0 \in 0..OfferAfter
  BY Numbers, ClockAssumption
<1>2. Restarted(waiting) = [c EXCEPT !.offered = FALSE]
  BY <1>1 DEF Restarted, Lead
<1>3. /\ a \in Lead /\ a.reminders = lead.reminders /\ a.stale = lead.stale
      /\ a.checks = lead.checks /\ a.since = lead.since
  BY <1>1 DEF Lead
<1> HIDE DEF a
<1>4. /\ b \in Lead /\ b.reminders = lead.reminders /\ b.stale = lead.stale
      /\ b.checks = lead.checks /\ b.since = lead.since
  BY <1>1, <1>3 DEF Lead
<1> HIDE DEF b
<1>5. /\ c \in Lead /\ c.reminders = lead.reminders /\ c.stale = lead.stale
      /\ c.checks = lead.checks /\ c.since = lead.since
  BY <1>4 DEF Lead
<1> HIDE DEF c
<1> QED
  BY <1>2, <1>5 DEF Lead

\* the wait begins anew or is over, and with it the counts of its messages
LEMMA WaitOver ==
    ASSUME IInv, UNCHANGED <<day, lock, run, panel, faults>>,
           lead' \in Lead, lead'.reminders = lead.reminders, lead'.stale = lead.stale,
           lead'.checks = lead.checks, lead'.since = lead.since,
           sent' = [sent EXCEPT !.nudges = 0, !.offers = 0]
    PROVE  IInv'
<1> DEFINE some == [sent EXCEPT !.nudges = 0]
<1>1. TypeOK /\ sent \in Sent /\ Stamped /\ panel' \in BOOLEAN
  BY DEF IInv, TypeOK
<1>2. sent' = [some EXCEPT !.offers = 0]
  BY <1>1 DEF Sent
<1>3. /\ some \in Sent /\ some.nudges = 0 /\ some.reminders = sent.reminders
      /\ some.stale = sent.stale /\ some.checks = sent.checks /\ some.greetings = sent.greetings
      /\ some.quiet = sent.quiet /\ some.unstamped = sent.unstamped
  BY <1>1 DEF Sent
<1> HIDE DEF some
<1>4. /\ sent' \in Sent /\ sent'.nudges = 0 /\ sent'.offers = 0 /\ OutSame
      /\ sent'.quiet = sent.quiet /\ sent'.unstamped = sent.unstamped
  BY <1>2, <1>3 DEF Sent, OutSame
<1>5. OncePerFlag' /\ Stamped'
  BY <1>1, <1>4 DEF OncePerFlag, Stamped
<1>6. CountsSame
  BY <1>1, Numbers DEF CountsSame
<1> QED
  BY <1>1, <1>4, <1>5, <1>6, Aside

LEMMA WaitAnewStep ==
    ASSUME IInv, WaitAnew
    PROVE  IInv'
<1>1. \E waiting \in BOOLEAN : lead' = Restarted(waiting)
  BY DEF WaitAnew
<1> QED
  BY <1>1, RestartedLead, WaitOver DEF WaitAnew, IInv

LEMMA WaitEndsStep ==
    ASSUME IInv, NEW status \in {"booked", "done"}, NEW age \in 0..Tier3, WaitEnds(status, age)
    PROVE  IInv'
<1> DEFINE over == Restarted(FALSE)
           some == [over EXCEPT !.status = status]
<1>1. /\ over \in Lead /\ over.reminders = lead.reminders /\ over.stale = lead.stale
      /\ over.checks = lead.checks /\ over.since = lead.since
  BY RestartedLead DEF IInv
<1>2. lead' = [[over EXCEPT !.status = status] EXCEPT !.age = age]
  BY <1>1 DEF WaitEnds, Lead
<1> HIDE DEF over
<1>3. /\ some \in Lead /\ some.reminders = lead.reminders /\ some.stale = lead.stale
      /\ some.checks = lead.checks /\ some.since = lead.since
  BY <1>1 DEF Lead
<1>4. lead' = [some EXCEPT !.age = age]
  BY <1>2
<1> HIDE DEF some
<1>5. /\ lead' \in Lead /\ lead'.reminders = lead.reminders /\ lead'.stale = lead.stale
      /\ lead'.checks = lead.checks /\ lead'.since = lead.since
  BY <1>3, <1>4 DEF Lead
<1> QED
  BY <1>5, WaitOver DEF WaitEnds

LEMMA WaitExpiresStep ==
    ASSUME IInv, WaitExpires
    PROVE  IInv'
<1> USE DEF IInv
<1>1. /\ TypeOK /\ sent' \in Sent /\ UNCHANGED <<day, lock, run, panel, sent, faults>>
      /\ panel' \in BOOLEAN
  BY DEF TypeOK, WaitExpires
<1>2. /\ lead' \in Lead /\ lead'.reminders = lead.reminders /\ lead'.stale = lead.stale
      /\ lead'.checks = lead.checks /\ lead'.since = lead.since
      /\ lead'.nudged = lead.nudged /\ lead'.offered = lead.offered
  BY Numbers DEF WaitExpires, Lead
<1>3. CountsSame /\ OutSame /\ OncePerFlag' /\ Stamped'
  BY <1>1, <1>2, Numbers DEF CountsSame, OutSame, OncePerFlag, Stamped
<1> QED
  BY <1>1, <1>2, <1>3, Aside

\* the customer declines: the date is moved, and nobody is asked
LEMMA NotYetStep ==
    ASSUME IInv, NotYet
    PROVE  IInv'
<1> USE DEF IInv
<1>1. TypeOK /\ UNCHANGED <<day, lock, run, panel, faults>> /\ panel' \in BOOLEAN
  BY DEF TypeOK, NotYet
<1>2. /\ lead' \in Lead /\ lead'.reminders = lead.reminders /\ lead'.stale = lead.stale
      /\ lead'.checks = lead.checks /\ lead'.since = 0
      /\ lead'.nudged = lead.nudged /\ lead'.offered = lead.offered
  BY Numbers, ClockAssumption DEF NotYet, Lead
<1>3. /\ sent' \in Sent /\ OutSame /\ sent'.quiet = 0
      /\ sent'.nudges = sent.nudges /\ sent'.offers = sent.offers
  BY <1>1, NotedKeeps DEF NotYet, Noted
<1>4. CountsSame /\ OncePerFlag' /\ Stamped'
  BY <1>2, <1>3, Numbers DEF CountsSame, OncePerFlag, Stamped
<1> QED
  BY <1>1, <1>2, <1>3, <1>4, Aside

LEMMA PanelAsksStep ==
    ASSUME IInv, PanelAsks
    PROVE  IInv'
<1> USE DEF IInv
<1>1. TypeOK /\ UNCHANGED <<lead, day, lock, run, faults>> /\ panel' \in BOOLEAN /\ lead' \in Lead
  BY Numbers DEF PanelAsks
<1>2. /\ sent' \in Sent /\ OutSame /\ sent'.unstamped = TRUE
      /\ sent'.nudges = sent.nudges /\ sent'.offers = sent.offers
  BY <1>1, NotedKeeps DEF PanelAsks
<1>3. CountsSame /\ OncePerFlag' /\ Stamped'
  BY <1>1, <1>2, Numbers DEF CountsSame, OncePerFlag, Stamped
<1> QED
  BY <1>1, <1>2, <1>3, Aside

LEMMA PanelStampsStep ==
    ASSUME IInv, PanelStamps
    PROVE  IInv'
<1> USE DEF IInv
<1>1. TypeOK /\ UNCHANGED <<day, lock, run, faults>> /\ panel' \in BOOLEAN /\ sent.quiet \in 0..Cooldown
  BY DEF TypeOK, PanelStamps, Sent
<1>2. /\ lead' \in Lead /\ lead'.checks = lead.checks + 1 /\ lead'.since = 0
      /\ lead'.reminders = lead.reminders /\ lead'.stale = lead.stale
      /\ lead'.nudged = lead.nudged /\ lead'.offered = lead.offered
  BY <1>1, StampKeeps DEF PanelStamps
<1>3. /\ sent' \in Sent /\ OutSame /\ sent'.quiet = sent.quiet
      /\ sent'.nudges = sent.nudges /\ sent'.offers = sent.offers
  BY <1>1, Numbers DEF PanelStamps, Sent, OutSame
<1>4. CountsSame /\ OncePerFlag' /\ Stamped'
  BY <1>1, <1>2, <1>3, Numbers, ClockAssumption DEF CountsSame, OncePerFlag, Stamped
<1> QED
  BY <1>1, <1>2, <1>3, <1>4, Aside

LEMMA PanelFailsStep ==
    ASSUME IInv, PanelFails
    PROVE  IInv'
<1> USE DEF IInv
<1>1. /\ TypeOK /\ UNCHANGED <<lead, day, lock, run, sent>> /\ panel' \in BOOLEAN
      /\ lead' \in Lead /\ sent' \in Sent
  BY Numbers DEF PanelFails
<1>2. CountsSame /\ OutSame /\ OncePerFlag' /\ Stamped'
  BY <1>1, Numbers DEF CountsSame, OutSame, OncePerFlag, Stamped
<1> QED
  BY <1>1, <1>2, Aside DEF PanelFails

LEMMA OperatorChecksStep ==
    ASSUME IInv, OperatorChecks
    PROVE  IInv'
<1> USE DEF IInv
<1>1. TypeOK /\ UNCHANGED <<day, lock, run, panel, faults>> /\ panel' \in BOOLEAN
  BY DEF TypeOK, OperatorChecks
<1>2. /\ lead' \in Lead /\ lead'.checks = lead.checks + 1 /\ lead'.since = 0
      /\ lead'.reminders = lead.reminders /\ lead'.stale = lead.stale
      /\ lead'.nudged = lead.nudged /\ lead'.offered = lead.offered
  BY <1>1, StampKeeps DEF OperatorChecks
<1>3. /\ sent' \in Sent /\ OutSame /\ sent'.quiet = 0
      /\ sent'.nudges = sent.nudges /\ sent'.offers = sent.offers
  BY <1>1, NotedKeeps DEF OperatorChecks, Noted
<1>4. CountsSame /\ OncePerFlag' /\ Stamped'
  BY <1>2, <1>3, Numbers DEF CountsSame, OncePerFlag, Stamped
<1> QED
  BY <1>1, <1>2, <1>3, <1>4, Aside

-----------------------------------------------------------------------------
(* The theorems.                                                           *)

LEMMA InvInit == Init => IInv
<1> SUFFICES ASSUME Init
             PROVE  IInv
  OBVIOUS
<1>1. lead \in Lead
  BY ClockAssumption DEF Init, NewLead, Lead
<1>2. sent \in Sent /\ day \in Day
  BY ClockAssumption DEF Init, Sent, Day
<1>3. faults \in Faults /\ AllFaults <= MaxFaults
  BY ClockAssumption DEF Init, Faults, AllFaults
<1>4. TypeOK
  BY <1>1, <1>2, <1>3 DEF Init, TypeOK, Run
<1>5. LockHeld /\ OncePerFlag /\ Stamped
  BY ClockAssumption DEF Init, LockHeld, OncePerFlag, Stamped, NewLead
<1>6. \A job \in Jobs : \A steps : About(job, steps) = {}
  BY DEF Init, About, Idle, Jobs
<1>7. Cardinality({}) = 0
  BY FS_EmptySet
<1>8. \A job \in Jobs : \A steps : N(job, steps) = 0
  BY <1>6, <1>7 DEF N
<1>9. /\ N("unfinished", Reminding) = 0 /\ N("unfinished", {"remind_count"}) = 0
      /\ N("unfinished", {"ask"}) = 0 /\ N("nudger", Staling) = 0 /\ N("nudger", {"count"}) = 0
      /\ N("slots", {"act"}) = 0 /\ N("daily", {"act"}) = 0
  BY <1>8 DEF Jobs
<1>10. AllLeft
  BY <1>9, ClockAssumption
     DEF Init, NewLead, AllLeft, RemindersLeft, StaleLeft, HoursLeft, GreetingsLeft, ChecksLeft,
         Cap, Uncounted
<1> QED
  BY <1>4, <1>5, <1>10 DEF IInv

LEMMA InvNext == IInv /\ [Next]_vars => IInv'
<1> SUFFICES ASSUME IInv, [Next]_vars
             PROVE  IInv'
  OBVIOUS
<1>1. ASSUME NEW w \in Workers, Step(w)
      PROVE  IInv'
  BY <1>1, SlaQueryStep, SlaStateStep, SlaClaimStep, UnfinishedQueryStep, RemindStep,
     RemindSendStep, RemindCountStep, ChecksQueryStep, CheckStep, AskStep, FlagStep,
     StaleQueryStep, StaleSendStep, StaleCountStep, DailyClaimStep, GreetStep, SlotsCountStep,
     SlotsInsertStep DEF Step
<1>2. ASSUME NEW w \in Workers, GivesUp(w) \/ WorkerDies(w)
      PROVE  IInv'
  BY <1>2, GivesUpStep, WorkerDiesStep
<1>3. ASSUME NEW w \in Workers, NEW j \in Jobs, TryLock(w, j) \/ RunUnlocked(w, j)
      PROVE  IInv'
  BY <1>3, TryLockStep, RunUnlockedStep
<1>4. ASSUME NEW j \in Jobs, LockExpires(j)
      PROVE  IInv'
  BY <1>4, LockExpiresStep
<1>5. CASE Tick \/ Midnight \/ WaitAnew \/ WaitExpires \/ NotYet
  BY <1>5, TickStep, MidnightStep, WaitAnewStep, WaitExpiresStep, NotYetStep
<1>6. CASE Approved \/ Ended
  BY <1>6, WaitEndsStep, ClockAssumption DEF Approved, Ended
<1>7. CASE PanelAsks \/ PanelStamps \/ PanelFails \/ OperatorChecks
  BY <1>7, PanelAsksStep, PanelStampsStep, PanelFailsStep, OperatorChecksStep
<1>8. CASE UNCHANGED vars
  BY <1>8, Unchanged
<1> QED
  BY <1>1, <1>2, <1>3, <1>4, <1>5, <1>6, <1>7, <1>8 DEF Next

LEMMA Inductive == Spec => []IInv
  BY InvInit, InvNext, PTL DEF Spec

\* Every variable of the jobs keeps its type, whatever the operator asks past
\* the cap (send_customer_completion_check, send_customer_completion_check_sync).
THEOREM TypeCorrect == Spec => []TypeOK
<1>1. IInv => TypeOK
  BY DEF IInv
<1> QED
  BY <1>1, Inductive, PTL

\* One nudge and one offer at most in a wait, though any number of workers run
\* check_pro_approval_sla at once and without its lock: each is claimed by a
\* flag of the lead, and the flags are reset with the wait only.
THEOREM NudgedOnce == Spec => []OncePerWait
<1>1. IInv => OncePerWait
  BY DEF IInv, OncePerFlag, OncePerWait, TypeOK, Sent
<1> QED
  BY <1>1, Inductive, PTL

\* The reminders of either kind that go out are MaxReminders at most, and one
\* more for every count that was lost after its send, and for every further
\* worker once a lock was lost (send_pro_reminder and remind_stale_booked_leads,
\* which send and then count).
THEOREM RemindersBounded == Spec => []RemindersCapped
<1>1. ASSUME IInv
      PROVE  RemindersCapped
  <2>1. /\ N("unfinished", Reminding) \in Nat /\ N("unfinished", {"remind_count"}) \in Nat
        /\ N("nudger", Staling) \in Nat /\ N("nudger", {"count"}) \in Nat
        /\ Cardinality(Workers) \in Nat
    BY Finite
  <2>2. /\ N("unfinished", {"remind_count"}) <= N("unfinished", Reminding)
        /\ N("nudger", {"count"}) <= N("nudger", Staling)
    <3>1. /\ About("unfinished", {"remind_count"}) \in SUBSET About("unfinished", Reminding)
          /\ About("nudger", {"count"}) \in SUBSET About("nudger", Staling)
      BY DEF About, Reminding, Staling
    <3> QED
      BY <3>1, Finite, FS_Subset DEF N
  <2>3. Cap \in Int /\ faults.death \in Nat /\ faults.count \in Nat
    BY <1>1, <2>1, ClockAssumption DEF Cap, IInv, TypeOK, Faults
  <2>4. TypeOK
    BY <1>1 DEF IInv
  <2>5. sent.reminders <= Cap + Uncounted /\ sent.stale <= Cap + Uncounted
    BY <1>1, <2>1, <2>2, <2>3, <2>4, Numbers DEF IInv, AllLeft, RemindersLeft, StaleLeft, Uncounted
  <2> QED
    BY <2>1, <2>3, <2>5, ClockAssumption DEF RemindersCapped, Cap, Uncounted
<1> QED
  BY <1>1, Inductive, PTL

\* No hour of a day is generated twice while no lock is lost, though the count
\* of generate_slots_from_template is old when it inserts.
THEOREM HoursOnce == Spec => []HoursMadeOnce
<1>1. ASSUME IInv
      PROVE  HoursMadeOnce
  <2>1. N("slots", {"act"}) \in Nat
    BY Finite
  <2> QED
    BY <1>1, <2>1 DEF IInv, AllLeft, HoursLeft, HoursMadeOnce, TypeOK, Day
<1> QED
  BY <1>1, Inductive, PTL

\* One good-morning a day, whatever becomes of the lock (daily_reminders_job).
THEOREM GreetedOnce == Spec => []OneGreetingADay
<1>1. ASSUME IInv
      PROVE  OneGreetingADay
  <2>1. N("daily", {"act"}) \in Nat
    BY Finite
  <2> QED
    BY <1>1, <2>1 DEF IInv, AllLeft, GreetingsLeft, OneGreetingADay, TypeOK, Day, Sent
<1> QED
  BY <1>1, Inductive, PTL

\* The sweep asks a customer MaxChecks times at most, with its lock or without,
\* for a question is counted when it is claimed, and an operator's question only
\* adds to the count (send_customer_completion_check).
THEOREM ChecksBounded == Spec => []ChecksCapped
<1>1. ASSUME IInv
      PROVE  ChecksCapped
  <2>1. N("unfinished", {"ask"}) \in Nat /\ MaxChecks \in Nat
    BY Finite, ClockAssumption
  <2> QED
    BY <1>1, <2>1 DEF IInv, AllLeft, ChecksLeft, ChecksCapped, TypeOK, Sent
<1> QED
  BY <1>1, Inductive, PTL

\* only the claim of a question takes a worker from "check" to "ask"
LEMMA CheckMoves ==
    ASSUME TypeOK, [Next]_vars, NEW w \in Workers, run[w].at = "check", run'[w].at = "ask"
    PROVE  Check(w)
<1>1. run'[w] # run[w] /\ run[w] # Idle /\ Idle.at = "idle"
  BY DEF Idle
<1>2. ASSUME NEW u \in Workers, NEW step, u # w, GoTo(u, step) \/ Finish(u)
      PROVE  FALSE
  BY <1>1, <1>2 DEF GoTo, Finish, TypeOK
<1>3. ASSUME NEW u \in Workers, Step(u)
      PROVE  Check(w)
  <2>1. CASE u = w
    BY <1>3, <2>1 DEF Step, SlaQuery, SlaState, SlaClaim, UnfinishedQuery, Remind, RemindSend,
          RemindCount, ChecksQuery, Ask, Flag, StaleQuery, StaleSend, StaleCount, DailyClaim, Greet,
          SlotsCount, SlotsInsert
  <2>2. CASE u # w
    <3>1. CASE SlaQuery(u) \/ SlaState(u)
      BY <1>1, <2>2, <3>1 DEF SlaQuery, SlaState, Finish, TypeOK
    <3>2. CASE ~(SlaQuery(u) \/ SlaState(u))
      <4>1. Finish(u) \/ \E step : GoTo(u, step)
        BY <1>3, <3>2 DEF Step, SlaClaim, UnfinishedQuery, Remind, RemindSend,
            RemindCount, ChecksQuery, Check, Ask, Flag, StaleQuery, StaleSend, StaleCount, DailyClaim,
            Greet, SlotsCount, SlotsInsert
      <4> QED
        BY <1>2, <2>2, <4>1
    <3> QED
      BY <3>1, <3>2
  <2> QED
    BY <2>1, <2>2
<1>4. ASSUME NEW u \in Workers, GivesUp(u) \/ WorkerDies(u)
      PROVE  FALSE
  BY <1>1, <1>4 DEF GivesUp, WorkerDies, Finish, TypeOK
<1>5. ASSUME NEW u \in Workers, NEW j, TryLock(u, j) \/ RunUnlocked(u, j)
      PROVE  FALSE
  BY <1>1, <1>5 DEF TryLock, RunUnlocked, Begin, TypeOK
<1>6. CASE run' = run
  BY <1>1, <1>6
<1> QED
  BY <1>3, <1>4, <1>5, <1>6
     DEF Next, LockExpires, Tick, Midnight, WaitAnew, WaitExpires, Approved, Ended, WaitEnds, NotYet,
         PanelAsks, PanelStamps, PanelFails, OperatorChecks, vars

\* Whoever runs the sweep and however many do, it claims a question only about a
\* booked job and a full cooldown after the last one, an operator's included, or
\* after the customer's "not yet"; for the date on the lead is never older than
\* the last question that has been stamped.
THEOREM ChecksApart == Spec => ChecksSpaced
<1>1. ASSUME IInv, [Next]_vars, NEW w \in Workers, run[w].at = "check", run'[w].at = "ask"
      PROVE  lead.status = "booked" /\ (sent.quiet = Cooldown \/ sent.unstamped)
  <2>1. TypeOK /\ Check(w)
    BY <1>1, CheckMoves DEF IInv
  <2>2. ~GoTo(w, "flag")
    BY <1>1, <2>1, AtJob, UnfinishedGoes, MovedTypes
  <2>3. lead.status = "booked" /\ Due
    BY <2>1, <2>2 DEF Check
  <2>4. lead.since \in 0..Cooldown /\ sent.quiet \in 0..Cooldown /\ sent.unstamped \in BOOLEAN
    BY <1>1 DEF IInv, TypeOK, Lead, Sent
  <2> QED
    BY <1>1, <2>3, <2>4, ClockAssumption DEF IInv, Stamped, Due
<1>2. IInv /\ [Next]_vars
        => [\A w \in Workers : run[w].at = "check" /\ run'[w].at = "ask"
              => lead.status = "booked" /\ (sent.quiet = Cooldown \/ sent.unstamped)]_vars
  BY <1>1
<1> QED
  BY <1>2, Inductive, PTL DEF ChecksSpaced, Spec
=============================================================================
