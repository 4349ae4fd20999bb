---------------------------- MODULE Pipeline_proofs ----------------------------
(***************************************************************************)
(* What the claims and the chat lock promise for any number of messages,   *)
(* chats, batches, copies of a POST and failures.                          *)
(***************************************************************************)
EXTENDS Pipeline, FiniteSetTheorems, TLAPS

-----------------------------------------------------------------------------
(* The inductive invariant.                                                *)

\* the routes that have claimed the message they work on
Holding(r) == route[r].at \in {"limit", "expire", "enqueue", "unclaim"}

\* a route that works is at a message of its batch
AtMessage == \A r \in Routes : route[r].at # "idle" => route[r].i \in 1..Len(Batch(r))

\* a claim is held by one route, and later stands for one job or a shed message
ClaimsOwned ==
    /\ \A r \in Routes : Holding(r) => /\ Current(r) \in claimed \ shed
                                       /\ \A j \in DOMAIN jobs : jobs[j].msg # Current(r)
    /\ \A q, r \in Routes : Holding(q) /\ Holding(r) /\ Current(q) = Current(r) => q = r
    /\ \A j \in DOMAIN jobs : jobs[j].msg \in claimed
    /\ \A i, j \in DOMAIN jobs : jobs[i].msg = jobs[j].msg => i = j

\* while no lock is lost, a running job has its chat's lock, and alone
LocksHeld ==
    faults \cap {"lock_expires", "lock_error"} = {} =>
        /\ \A j \in DOMAIN jobs : jobs[j].at = "run" => ChatOfJob(j) \in lock
        /\ \A i, j \in DOMAIN jobs :
              jobs[i].at = "run" /\ jobs[j].at = "run" /\ ChatOfJob(i) = ChatOfJob(j) => i = j

\* while no worker dies, a message given to the orchestrator was so once, by a
\* job that has passed the lock
HandledByJob ==
    "worker_dies" \notin faults =>
        /\ \A i, k \in DOMAIN handled : handled[i] = handled[k] => i = k
        /\ \A i \in DOMAIN handled : \E j \in DOMAIN jobs :
              jobs[j].msg = handled[i] /\ jobs[j].at \in {"run", "done"}

IInv == TypeOK /\ AtMessage /\ ClaimsOwned /\ LocksHeld /\ HandledByJob

-----------------------------------------------------------------------------
(* Routes.                                                                 *)

LEMMA CurrentIsMessage ==
    ASSUME NEW r \in Routes, route[r].i \in 1..Len(Batch(r))
    PROVE  Current(r) \in Messages /\ ChatAt(r) \in Chats /\ Batch(r) \in Batches
  BY MessagesAssumption DEF Routes, Current, Batch, ChatAt, Chats

\* the route goes to a step of its message, or is done with the POST
Moves(r, s) == /\ s \in Serving /\ (s.at # "idle" => s.i \in 1..Len(Batch(r)))
               /\ route' = [route EXCEPT ![r] = s]

LEMMA MovedRoutes ==
    ASSUME TypeOK, AtMessage, NEW r \in Routes, NEW s, Moves(r, s)
    PROVE  /\ route' \in [Routes -> Serving] /\ AtMessage'
           /\ route'[r] = s /\ \A q \in Routes : q # r => route'[q] = route[q]
  BY DEF TypeOK, AtMessage, Moves, Batch

\* what else the answer or the next message changes
Answers == /\ acked' \subseteq Batches
           /\ faults' \in {faults, faults \cup {"answer_lost"}} /\ faults' \subseteq FaultKinds

LEMMA Answered ==
    ASSUME TypeOK, NEW r \in Routes, NEW code, Answer(r, code)
    PROVE  Moves(r, Unused) /\ Answers
<1>1. Batch(r) \in Batches
  BY DEF Routes, Batch
<1>2. Moves(r, Unused)
  BY DEF Answer, Moves, Serving, Unused
<1> QED
  BY <1>1, <1>2 DEF Answer, Answers, TypeOK, Fault, FaultKinds

LEMMA MovedOn ==
    ASSUME TypeOK, AtMessage, NEW r \in Routes, route[r].at # "idle", NextMessage(r)
    PROVE  \E s : Moves(r, s) /\ s.at \in {"idle", "claim"} /\ Answers
<1>1. CASE route[r].i < Len(Batch(r))
  <2> DEFINE s == [at |-> "claim", i |-> route[r].i + 1]
  <2>1. route[r] \in Serving /\ route[r].i \in 1..Len(Batch(r)) /\ Len(Batch(r)) \in Nat
    BY MessagesAssumption DEF TypeOK, AtMessage, Routes, Batch
  <2>2. s \in Serving /\ s.at = "claim" /\ s.i \in 1..Len(Batch(r))
    BY <1>1, <2>1 DEF Serving
  <2>3. route' = [route EXCEPT ![r] = s] /\ UNCHANGED <<acked, faults>>
    BY <1>1, <2>1 DEF NextMessage, TypeOK, Serving
  <2> QED
    BY <2>2, <2>3 DEF Moves, Answers, TypeOK
<1>2. CASE ~(route[r].i < Len(Batch(r)))
  BY <1>2, Answered DEF NextMessage, Unused
<1> QED
  BY <1>1, <1>2

LEMMA GoneTo ==
    ASSUME TypeOK, AtMessage, NEW r \in Routes, route[r].at # "idle",
           NEW step \in {"limit", "expire", "enqueue", "unclaim"}, Goto(r, step)
    PROVE  Moves(r, [at |-> step, i |-> route[r].i])
<1>1. route[r] \in Serving /\ route[r].i \in 1..Len(Batch(r))
  BY DEF TypeOK, AtMessage
<1>2. [route[r] EXCEPT !.at = step] = [at |-> step, i |-> route[r].i]
  BY <1>1 DEF Serving
<1>3. route' = [route EXCEPT ![r] = [at |-> step, i |-> route[r].i]]
  BY <1>2 DEF Goto
<1> QED
  BY <1>1, <1>3 DEF Moves, Serving

LEMMA FaultAdds ==
    ASSUME TypeOK, NEW kind \in FaultKinds, Fault(kind)
    PROVE  faults \subseteq faults' /\ faults' \subseteq FaultKinds /\ kind \in faults'
  BY DEF TypeOK, Fault

LEMMA WorkerAside ==
    ASSUME LocksHeld, HandledByJob, UNCHANGED <<jobs, lock, handled>>, faults \subseteq faults'
    PROVE  LocksHeld' /\ HandledByJob'
<1>1. LocksHeld'
  BY DEF LocksHeld, ChatOfJob
<1>2. HandledByJob'
  BY DEF HandledByJob
<1> QED
  BY <1>1, <1>2

\* a route that lets go of its message: it has a job, was shed, or is unclaimed
LEMMA LetGo ==
    ASSUME TypeOK, AtMessage, ClaimsOwned, NEW r \in Routes, NEW s, Moves(r, s),
           s.at \in {"idle", "claim"}, UNCHANGED jobs,
           claimed \ {Current(r)} \subseteq claimed', shed' \subseteq shed \cup {Current(r)},
           Holding(r) \/ (claimed \subseteq claimed' /\ shed' = shed)
    PROVE  ClaimsOwned'
<1>1. route'[r] = s /\ ~Holding(r)' /\ \A q \in Routes : q # r => route'[q] = route[q]
  BY MovedRoutes DEF Holding
<1>2. \A q \in Routes : Holding(q)' => Holding(q) /\ q # r /\ Current(q)' = Current(q)
  BY <1>1 DEF Holding, Current, Batch
<1>3. \A q \in Routes : Holding(q)' => Current(q) \in claimed' \ shed'
  BY <1>2 DEF ClaimsOwned
<1>4. \A j \in DOMAIN jobs : jobs[j].msg \in claimed'
  BY DEF ClaimsOwned
<1> QED
  BY <1>2, <1>3, <1>4 DEF ClaimsOwned

\* a route that claims its message, or goes on with it
LEMMA HoldOn ==
    ASSUME TypeOK, AtMessage, ClaimsOwned, NEW r \in Routes, NEW s, Moves(r, s),
           s.i = route[r].i, UNCHANGED <<jobs, shed>>,
           \/ Holding(r) /\ UNCHANGED claimed
           \/ Current(r) \notin claimed /\ claimed' = claimed \cup {Current(r)}
    PROVE  ClaimsOwned'
<1>1. route'[r] = s /\ \A q \in Routes : q # r => route'[q] = route[q]
  BY MovedRoutes
<1>2. \A q \in Routes : Current(q)' = Current(q) /\ (q # r /\ Holding(q)' => Holding(q))
  BY <1>1 DEF Holding, Current, Batch
<1>3. shed \subseteq claimed
  BY DEF TypeOK
<1>4. \A q \in Routes : Holding(q)' =>
         /\ Current(q) \in claimed' \ shed
         /\ \A j \in DOMAIN jobs : jobs[j].msg # Current(q)
  BY <1>2, <1>3 DEF ClaimsOwned
<1>5. \A p, q \in Routes : Holding(p)' /\ Holding(q)' /\ Current(p) = Current(q) => p = q
  BY <1>2 DEF ClaimsOwned
<1>6. \A j \in DOMAIN jobs : jobs[j].msg \in claimed'
  BY DEF ClaimsOwned
<1> QED
  BY <1>2, <1>4, <1>5, <1>6 DEF ClaimsOwned

-----------------------------------------------------------------------------
(* The steps of a route.                                                   *)

LEMMA ReceiveStep ==
    ASSUME IInv, NEW r \in Routes, Receive(r)
    PROVE  IInv'
<1> DEFINE s == [at |-> "claim", i |-> 1]
<1>1. Batch(r) \in Batches /\ Len(Batch(r)) \in Nat \ {0}
  BY MessagesAssumption DEF Routes, Batch
<1>2. Moves(r, s)
  BY <1>1 DEF Receive, Moves, Serving
<1>3. posts' \in [Batches -> 0..MaxPosts]
  BY <1>1, PipelineBounds DEF IInv, TypeOK, Receive
<1>4. ClaimsOwned'
  BY <1>2, LetGo DEF IInv, Receive
<1>5. faults \subseteq faults' /\ faults' \subseteq FaultKinds
  BY FaultAdds DEF IInv, TypeOK, Receive, FaultKinds
<1>6. LocksHeld' /\ HandledByJob'
  BY <1>5, WorkerAside DEF IInv, Receive
<1> QED
  BY <1>2, <1>3, <1>4, <1>5, <1>6, MovedRoutes DEF IInv, TypeOK, Receive

\* a route goes on with its message
LEMMA HoldStep ==
    ASSUME IInv, NEW r \in Routes, route[r].at # "idle",
           NEW step \in {"limit", "expire", "enqueue", "unclaim"}, Goto(r, step),
           UNCHANGED <<posts, acked, shed, jobs, lock, handled>>,
           hits' \in [Chats -> Nat], expiring' \subseteq Chats,
           faults \subseteq faults', faults' \subseteq FaultKinds,
           \/ Holding(r) /\ UNCHANGED claimed
           \/ Current(r) \notin claimed /\ claimed' = claimed \cup {Current(r)}
    PROVE  IInv'
<1> DEFINE s == [at |-> step, i |-> route[r].i]
<1>1. Moves(r, s)
  BY GoneTo DEF IInv
<1>2. ClaimsOwned'
  BY <1>1, HoldOn DEF IInv
<1>3. LocksHeld' /\ HandledByJob'
  BY WorkerAside DEF IInv
<1>4. claimed' \subseteq Messages /\ shed' \subseteq claimed'
  BY CurrentIsMessage DEF IInv, TypeOK, AtMessage
<1> QED
  BY <1>1, <1>2, <1>3, <1>4, MovedRoutes DEF IInv, TypeOK

\* a route is done with its message
LEMMA LetGoStep ==
    ASSUME IInv, NEW r \in Routes, NEW s, Moves(r, s), s.at \in {"idle", "claim"},
           UNCHANGED <<posts, expiring, jobs, lock, handled>>,
           hits' \in [Chats -> Nat], acked' \subseteq Batches,
           faults \subseteq faults', faults' \subseteq FaultKinds,
           claimed \ {Current(r)} \subseteq claimed', claimed' \subseteq Messages,
           shed' \subseteq claimed', shed' \subseteq shed \cup {Current(r)},
           Holding(r) \/ (claimed \subseteq claimed' /\ shed' = shed)
    PROVE  IInv'
<1>1. ClaimsOwned'
  BY LetGo DEF IInv
<1>2. LocksHeld' /\ HandledByJob'
  BY WorkerAside DEF IInv
<1> QED
  BY <1>1, <1>2, MovedRoutes DEF IInv, TypeOK

\* ... and goes on to the next one
LEMMA SkipStep ==
    ASSUME IInv, NEW r \in Routes, route[r].at # "idle", NextMessage(r),
           UNCHANGED <<posts, expiring, jobs, lock, handled>>, hits' \in [Chats -> Nat],
           claimed \subseteq claimed', claimed' \subseteq Messages,
           shed' \subseteq claimed', shed' \subseteq shed \cup {Current(r)},
           Holding(r) \/ shed' = shed
    PROVE  IInv'
<1>1. PICK s : Moves(r, s) /\ s.at \in {"idle", "claim"} /\ Answers
  BY MovedOn DEF IInv
<1>2. faults \subseteq faults' /\ faults' \subseteq FaultKinds /\ acked' \subseteq Batches
  BY <1>1 DEF Answers
<1> QED
  BY <1>1, <1>2, LetGoStep

\* ... or answers without going on
LEMMA LeaveStep ==
    ASSUME IInv, NEW r \in Routes, route' = [route EXCEPT ![r] = Unused],
           UNCHANGED <<posts, hits, expiring, shed, jobs, lock, handled>>,
           acked' \subseteq Batches, faults \subseteq faults', faults' \subseteq FaultKinds,
           \/ UNCHANGED claimed
           \/ Holding(r) /\ claimed' = claimed \ {Current(r)}
    PROVE  IInv'
<1>1. Moves(r, Unused) /\ Unused.at = "idle"
  BY DEF Moves, Unused, Serving
<1>2. hits' \in [Chats -> Nat] /\ claimed' \subseteq Messages
  BY DEF IInv, TypeOK
<1>3. shed' \subseteq claimed'
  BY DEF IInv, TypeOK, ClaimsOwned
<1> QED
  BY <1>1, <1>2, <1>3, LetGoStep

LEMMA ClaimStep ==
    ASSUME IInv, NEW r \in Routes, Claim(r) \/ ClaimLegacy(r)
    PROVE  IInv'
<1> USE DEF IInv
<1>1. route[r].at = "claim" /\ hits' \in [Chats -> Nat] /\ expiring' \subseteq Chats
      /\ UNCHANGED <<posts, expiring, shed, jobs, lock, handled>>
  BY DEF Claim, ClaimLegacy, TypeOK
<1>2. Current(r) \in Messages
  BY <1>1, CurrentIsMessage DEF AtMessage
<1>3. claimed' \in {claimed, claimed \cup {Current(r)}}
  BY DEF Claim, ClaimLegacy
<1>4. claimed \subseteq claimed' /\ claimed' \subseteq Messages /\ shed' \subseteq claimed'
      /\ shed' \subseteq shed \cup {Current(r)}
  BY <1>1, <1>2, <1>3 DEF TypeOK
<1>5. CASE NextMessage(r)
  BY <1>1, <1>4, <1>5, SkipStep
<1>6. CASE ~NextMessage(r)
  <2>1. /\ Current(r) \notin claimed /\ claimed' = claimed \cup {Current(r)}
        /\ Goto(r, "limit") /\ UNCHANGED <<acked, faults>>
    BY <1>6 DEF Claim, ClaimLegacy
  <2>2. faults \subseteq faults' /\ faults' \subseteq FaultKinds
    BY <2>1 DEF TypeOK
  <2> QED
    BY <1>1, <2>1, <2>2, HoldStep
<1> QED
  BY <1>5, <1>6

LEMMA CountHitStep ==
    ASSUME IInv, NEW r \in Routes, CountHit(r)
    PROVE  IInv'
<1> USE DEF IInv
<1>1. route[r].at = "limit" /\ Holding(r)
      /\ UNCHANGED <<posts, claimed, expiring, jobs, lock, handled>>
  BY DEF CountHit, Holding
<1>2. ChatAt(r) \in Chats
  BY <1>1, CurrentIsMessage DEF AtMessage
<1>3. hits' \in [Chats -> Nat] /\ expiring' \subseteq Chats
  BY <1>1, <1>2 DEF CountHit, TypeOK
<1>4. CASE NextMessage(r) /\ shed' = shed \cup {Current(r)}
  <2>1. shed' \subseteq claimed' /\ claimed \subseteq claimed' /\ claimed' \subseteq Messages
    BY <1>1, <1>4 DEF ClaimsOwned, TypeOK
  <2> QED
    BY <1>1, <1>3, <1>4, <2>1, SkipStep
<1>5. CASE ~(NextMessage(r) /\ shed' = shed \cup {Current(r)})
  <2>1. PICK step \in {"expire", "enqueue"} : Goto(r, step) /\ UNCHANGED <<acked, faults, shed>>
    BY <1>5 DEF CountHit
  <2>2. faults \subseteq faults' /\ faults' \subseteq FaultKinds
    BY <2>1 DEF TypeOK
  <2> QED
    BY <1>1, <1>3, <2>1, <2>2, HoldStep
<1> QED
  BY <1>4, <1>5

LEMMA StartWindowStep ==
    ASSUME IInv, NEW r \in Routes, StartWindow(r)
    PROVE  IInv'
<1>1. ChatAt(r) \in Chats
  BY CurrentIsMessage DEF IInv, AtMessage, StartWindow
<1>2. hits' \in [Chats -> Nat] /\ expiring' \subseteq Chats
      /\ faults \subseteq faults' /\ faults' \subseteq FaultKinds
  BY <1>1 DEF IInv, TypeOK, StartWindow
<1>3. Holding(r) /\ UNCHANGED claimed /\ route[r].at # "idle"
  BY DEF Holding, StartWindow
<1> QED
  BY <1>2, <1>3, HoldStep DEF StartWindow

LEMMA LimitFailsStep ==
    ASSUME IInv, NEW r \in Routes, LimitFails(r)
    PROVE  IInv'
<1>1. ChatAt(r) \in Chats
  BY CurrentIsMessage DEF IInv, AtMessage, LimitFails
<1>2. hits' \in [Chats -> Nat] /\ expiring' \subseteq Chats
  BY <1>1 DEF IInv, TypeOK, LimitFails
<1>3. faults \subseteq faults' /\ faults' \subseteq FaultKinds
  BY FaultAdds DEF IInv, LimitFails, FaultKinds
<1>4. Holding(r) /\ UNCHANGED claimed /\ route[r].at # "idle"
  BY DEF Holding, LimitFails
<1> QED
  BY <1>2, <1>3, <1>4, HoldStep DEF LimitFails

LEMMA EnqueueFailsStep ==
    ASSUME IInv, NEW r \in Routes, EnqueueFails(r)
    PROVE  IInv'
<1>1. faults \subseteq faults' /\ faults' \subseteq FaultKinds
  BY FaultAdds DEF IInv, EnqueueFails, FaultKinds
<1>2. hits' \in [Chats -> Nat] /\ expiring' \subseteq Chats
  BY DEF IInv, TypeOK, EnqueueFails
<1>3. Holding(r) /\ UNCHANGED claimed /\ route[r].at # "idle"
  BY DEF Holding, EnqueueFails
<1> QED
  BY <1>1, <1>2, <1>3, HoldStep DEF EnqueueFails

LEMMA LeavingSteps ==
    ASSUME IInv, NEW r \in Routes,
           ClaimFails(r) \/ EnqueueFailsLegacy(r) \/ Unclaim(r) \/ RouteDies(r)
    PROVE  IInv'
<1> USE DEF IInv
<1>1. CASE EnqueueFailsLegacy(r)
  <2>1. faults \subseteq faults' /\ faults' \subseteq FaultKinds
    BY <1>1, FaultAdds DEF EnqueueFailsLegacy, FaultKinds
  <2>2. acked' \subseteq Batches
    BY <1>1 DEF EnqueueFailsLegacy, TypeOK, Routes, Batch
  <2> QED
    BY <1>1, <2>1, <2>2, LeaveStep DEF EnqueueFailsLegacy
<1>2. CASE RouteDies(r)
  <2>1. faults \subseteq faults' /\ faults' \subseteq FaultKinds
    BY <1>2, FaultAdds DEF RouteDies, FaultKinds
  <2>2. acked' \subseteq Batches
    BY <1>2 DEF RouteDies, TypeOK
  <2> QED
    BY <1>2, <2>1, <2>2, LeaveStep DEF RouteDies
<1>3. CASE Unclaim(r) /\ ~Fault("unclaim_fails")
  <2>1. claimed' = claimed \ {Current(r)} /\ Answer(r, 503)
    BY <1>3 DEF Unclaim
  <2>2. UNCHANGED <<acked, faults>> /\ route' = [route EXCEPT ![r] = Unused]
    BY <2>1 DEF Answer
  <2>3. Holding(r) /\ acked' \subseteq Batches
        /\ faults \subseteq faults' /\ faults' \subseteq FaultKinds
    BY <1>3, <2>2 DEF Unclaim, Holding, TypeOK
  <2> QED
    BY <1>3, <2>1, <2>2, <2>3, LeaveStep DEF Unclaim
<1>4. CASE Unclaim(r) /\ Fault("unclaim_fails")
  <2>1. faults \subseteq faults' /\ faults' \subseteq FaultKinds
    BY <1>4, FaultAdds DEF FaultKinds
  <2>2. Holding(r) /\ acked' \subseteq Batches /\ route' = [route EXCEPT ![r] = Unused]
    BY <1>4 DEF Unclaim, Answer, Holding, TypeOK, Routes, Batch
  <2>3. UNCHANGED claimed \/ claimed' = claimed \ {Current(r)}
    BY <1>4 DEF Unclaim
  <2> QED
    BY <1>4, <2>1, <2>2, <2>3, LeaveStep DEF Unclaim
<1>5. CASE ClaimFails(r)
  <2>1. faults \subseteq faults' /\ faults' \subseteq FaultKinds
    BY <1>5, FaultAdds DEF ClaimFails, FaultKinds
  <2>2. /\ Current(r) \in Messages /\ acked' \subseteq Batches
        /\ hits' \in [Chats -> Nat] /\ shed \subseteq claimed
    BY <1>5, CurrentIsMessage DEF ClaimFails, AtMessage, TypeOK, Routes, Batch
  <2>3. claimed' \in {claimed, claimed \cup {Current(r)}}
    BY <1>5 DEF ClaimFails
  <2>4. Moves(r, Unused) /\ Unused.at = "idle"
    BY <1>5 DEF ClaimFails, Moves, Unused, Serving
  <2>5. claimed' \subseteq Messages /\ claimed \subseteq claimed'
    BY <2>2, <2>3 DEF TypeOK
  <2> QED
    BY <1>5, <2>1, <2>2, <2>4, <2>5, LetGoStep DEF ClaimFails
<1> QED
  BY <1>1, <1>2, <1>3, <1>4, <1>5

\* the claim becomes a job
LEMMA EnqueueStep ==
    ASSUME IInv, NEW r \in Routes, Enqueue(r)
    PROVE  IInv'
<1> USE DEF IInv
<1> DEFINE new == [msg |-> Current(r), at |-> "queued", tries |-> 0]
<1>1. Holding(r) /\ route[r].at # "idle" /\ jobs' = Append(jobs, new) /\ NextMessage(r)
      /\ UNCHANGED <<posts, claimed, hits, expiring, shed, lock, handled>>
  BY DEF Enqueue, Holding
<1>2. new \in Job
  BY <1>1, CurrentIsMessage DEF AtMessage, Job
<1>3. jobs \in Seq(Job) /\ Len(jobs) \in Nat
  BY DEF TypeOK
<1>4. /\ jobs' \in Seq(Job) /\ DOMAIN jobs' = DOMAIN jobs \cup {Len(jobs) + 1}
      /\ Len(jobs) + 1 \notin DOMAIN jobs
      /\ jobs'[Len(jobs) + 1] = new /\ \A j \in DOMAIN jobs : jobs'[j] = jobs[j]
  <2> HIDE DEF new
  <2> QED
    BY <1>1, <1>2, <1>3
<1>5. PICK s : Moves(r, s) /\ s.at \in {"idle", "claim"} /\ Answers
  BY <1>1, MovedOn
<1>6. /\ route'[r] = s /\ ~Holding(r)' /\ AtMessage' /\ route' \in [Routes -> Serving]
      /\ \A q \in Routes : q # r => route'[q] = route[q]
  BY <1>5, MovedRoutes DEF Holding
<1>7. \A q \in Routes : Holding(q)' => Holding(q) /\ q # r /\ Current(q)' = Current(q)
  BY <1>6 DEF Holding, Current, Batch
<1>8. ClaimsOwned'
  <2>1. \A q \in Routes : Holding(q)' => /\ Current(q) \in claimed' \ shed'
                                         /\ \A j \in DOMAIN jobs' : jobs'[j].msg # Current(q)
    BY <1>1, <1>4, <1>7 DEF ClaimsOwned
  <2>2. \A p, q \in Routes : Holding(p)' /\ Holding(q)' /\ Current(p) = Current(q) => p = q
    BY <1>7 DEF ClaimsOwned
  <2>3. \A j \in DOMAIN jobs' : jobs'[j].msg \in claimed'
    BY <1>1, <1>4 DEF ClaimsOwned
  <2>4. \A i, j \in DOMAIN jobs' : jobs'[i].msg = jobs'[j].msg => i = j
    BY <1>1, <1>4 DEF ClaimsOwned
  <2> QED
    BY <1>7, <2>1, <2>2, <2>3, <2>4 DEF ClaimsOwned
<1>9. LocksHeld'
  <2>1. \A j \in DOMAIN jobs' : jobs'[j].at = "run" => j \in DOMAIN jobs /\ jobs'[j] = jobs[j]
    BY <1>4
  <2> QED
    BY <1>1, <1>5, <2>1 DEF LocksHeld, ChatOfJob, Answers
<1>10. HandledByJob'
  BY <1>1, <1>4, <1>5 DEF HandledByJob, Answers
<1> QED
  BY <1>1, <1>4, <1>5, <1>6, <1>8, <1>9, <1>10 DEF TypeOK, Answers

LEMMA WindowEndsStep ==
    ASSUME IInv, NEW c \in Chats, WindowEnds(c)
    PROVE  IInv'
<1>1. TypeOK' /\ AtMessage'
  BY DEF IInv, TypeOK, AtMessage, Batch, WindowEnds
<1>2. ClaimsOwned'
  BY DEF IInv, ClaimsOwned, Holding, Current, Batch, WindowEnds
<1>3. LocksHeld' /\ HandledByJob'
  BY WorkerAside DEF IInv, WindowEnds
<1> QED
  BY <1>1, <1>2, <1>3 DEF IInv

-----------------------------------------------------------------------------
(* The steps of the worker.                                                *)

\* jobs change their step and their tries, never their message
SameMessages(f) == /\ f \in Seq(Job) /\ DOMAIN f = DOMAIN jobs
                   /\ \A j \in DOMAIN jobs : f[j].msg = jobs[j].msg

LEMMA ClaimsStand ==
    ASSUME AtMessage, ClaimsOwned, SameMessages(jobs'), UNCHANGED <<route, claimed, shed>>
    PROVE  AtMessage' /\ ClaimsOwned'
<1>1. AtMessage'
  BY DEF AtMessage, Batch
<1>2. \A r \in Routes : Holding(r)' = Holding(r) /\ Current(r)' = Current(r)
  BY DEF Holding, Current, Batch
<1>3. \A r \in Routes : Holding(r) => /\ Current(r) \in claimed' \ shed'
                                      /\ \A j \in DOMAIN jobs' : jobs'[j].msg # Current(r)
  BY DEF ClaimsOwned, SameMessages
<1>4. \A j \in DOMAIN jobs' : jobs'[j].msg \in claimed'
  BY DEF ClaimsOwned, SameMessages
<1>5. \A i, j \in DOMAIN jobs' : jobs'[i].msg = jobs'[j].msg => i = j
  BY DEF ClaimsOwned, SameMessages
<1>6. \A q, r \in Routes : Holding(q) /\ Holding(r) /\ Current(q) = Current(r) => q = r
  BY DEF ClaimsOwned
<1> QED
  BY <1>1, <1>2, <1>3, <1>4, <1>5, <1>6 DEF ClaimsOwned

\* job j goes to a step, and no other job moves
Moved(j, step) == /\ SameMessages(jobs') /\ jobs'[j].at = step
                  /\ \A i \in DOMAIN jobs : i # j => jobs'[i] = jobs[i]

Steps == {"queued", "media", "upload", "lock", "run", "done", "dropped"}

LEMMA JobMoved ==
    ASSUME TypeOK, NEW j \in DOMAIN jobs, NEW t \in Nat, NEW step \in Steps,
           jobs' = [jobs EXCEPT ![j] = [msg |-> jobs[j].msg, tries |-> t, at |-> step]]
    PROVE  Moved(j, step)
<1> DEFINE new == [msg |-> jobs[j].msg, tries |-> t, at |-> step]
<1>1. jobs \in Seq(Job) /\ jobs[j] \in Job
  BY DEF TypeOK
<1>2. new \in Job
  BY <1>1 DEF Job, Steps
<1>3. jobs' = [jobs EXCEPT ![j] = new]
  OBVIOUS
<1>4. new.msg = jobs[j].msg /\ new.at = step
  OBVIOUS
<1> HIDE DEF new
<1>5. jobs' \in Seq(Job) /\ DOMAIN jobs' = DOMAIN jobs /\ jobs'[j] = new
      /\ \A i \in DOMAIN jobs : i # j => jobs'[i] = jobs[i]
  BY <1>1, <1>2, <1>3
<1> QED
  BY <1>4, <1>5 DEF Moved, SameMessages

LEMMA JobGoes ==
    ASSUME TypeOK, NEW j \in DOMAIN jobs, NEW step \in Steps, JobTo(j, step)
    PROVE  Moved(j, step)
<1>1. jobs[j] \in Job
  BY DEF TypeOK
<1>2. [jobs[j] EXCEPT !.at = step] = [msg |-> jobs[j].msg, tries |-> jobs[j].tries, at |-> step]
  BY <1>1 DEF Job
<1>3. jobs[j].tries \in Nat
  BY <1>1 DEF Job
<1> QED
  BY <1>2, <1>3, JobMoved DEF JobTo

\* a job before the lock goes on, back or away
LEMMA QuietStep ==
    ASSUME IInv, NEW j \in DOMAIN jobs, NEW step, Moved(j, step), step \notin {"run", "done"},
           jobs[j].at \notin {"run", "done"}, WorkerOnly, UNCHANGED <<lock, handled, faults>>
    PROVE  IInv'
<1>1. AtMessage' /\ ClaimsOwned'
  BY ClaimsStand DEF IInv, Moved, WorkerOnly
<1>2. \A i \in DOMAIN jobs' : jobs'[i].at = "run" => i \in DOMAIN jobs /\ jobs'[i] = jobs[i]
  BY DEF Moved, SameMessages
<1>3. LocksHeld'
  BY <1>2 DEF IInv, LocksHeld, ChatOfJob
<1>4. \A i \in DOMAIN jobs : jobs[i].at \in {"run", "done"} => i \in DOMAIN jobs' /\ jobs'[i] = jobs[i]
  BY DEF Moved, SameMessages
<1>5. HandledByJob'
  BY <1>4 DEF IInv, HandledByJob
<1>6. TypeOK'
  BY DEF IInv, TypeOK, Moved, SameMessages, WorkerOnly
<1> QED
  BY <1>1, <1>3, <1>5, <1>6 DEF IInv

LEMMA PickStep ==
    ASSUME IInv, NEW j \in DOMAIN jobs, Pick(j)
    PROVE  IInv'
<1>1. jobs[j] \in Job /\ TypeOK
  BY DEF IInv, TypeOK
<1>2. CASE jobs[j].tries < MaxTries
  <2> DEFINE step == IF Sort[jobs[j].msg] = "media" THEN "media" ELSE "lock"
  <2> DEFINE started == [msg |-> jobs[j].msg, tries |-> jobs[j].tries + 1, at |-> jobs[j].at]
  <2>1. started \in Job /\ [jobs[j] EXCEPT !.tries = jobs[j].tries + 1] = started
    BY <1>1 DEF Job
  <2>2. started.msg = jobs[j].msg /\ started.tries = jobs[j].tries + 1
        /\ jobs[j].tries + 1 \in Nat
    BY <1>1 DEF Job
  <2>3. step \in Steps /\ step \notin {"run", "done"}
    BY DEF Steps
  <2> HIDE DEF step, started
  <2>4. jobs' = [jobs EXCEPT ![j] = [msg |-> jobs[j].msg, tries |-> jobs[j].tries + 1, at |-> step]]
    <3>1. jobs' = [jobs EXCEPT ![j] = [started EXCEPT !.at = step]]
      BY <1>1, <1>2, <2>1 DEF Pick, step
    <3>2. [started EXCEPT !.at = step] = [msg |-> started.msg, tries |-> started.tries, at |-> step]
      BY <2>1 DEF Job
    <3> QED
      BY <2>2, <3>1, <3>2
  <2>5. Moved(j, step)
    BY <1>1, <2>2, <2>3, <2>4, JobMoved
  <2> QED
    BY <2>3, <2>5, QuietStep DEF Pick
<1>3. CASE ~(jobs[j].tries < MaxTries)
  <2>1. Moved(j, "dropped")
    BY <1>1, <1>3, JobGoes DEF Pick, Steps
  <2> QED
    BY <2>1, QuietStep DEF Pick
<1> QED
  BY <1>2, <1>3

LEMMA MediaSteps ==
    ASSUME IInv, NEW j \in DOMAIN jobs, FetchMedia(j) \/ StoreMedia(j)
    PROVE  IInv'
<1>1. PICK step \in {"upload", "lock"} : JobTo(j, step)
  BY DEF FetchMedia, StoreMedia
<1>2. Moved(j, step)
  BY <1>1, JobGoes DEF IInv, Steps
<1> QED
  BY <1>2, QuietStep DEF FetchMedia, StoreMedia

\* a job that enters the orchestrator, and what becomes of the lock of its chat
LEMMA EnterStep ==
    ASSUME IInv, NEW j \in DOMAIN jobs, jobs[j].at = "lock", JobTo(j, "run"),
           handled' = Append(handled, jobs[j].msg), WorkerOnly,
           \/ ChatOfJob(j) \notin lock /\ lock' = lock \cup {ChatOfJob(j)} /\ UNCHANGED faults
           \/ Fault("lock_error") /\ UNCHANGED lock
    PROVE  IInv'
<1> USE DEF IInv
<1>1. Moved(j, "run")
  BY JobGoes DEF Steps
<1>2. AtMessage' /\ ClaimsOwned'
  BY <1>1, ClaimsStand DEF Moved, WorkerOnly
<1>3. jobs[j].msg \in Messages /\ ChatOfJob(j) \in Chats
  <2>1. jobs[j] \in Job
    BY DEF TypeOK
  <2> QED
    BY <2>1 DEF Job, ChatOfJob, Chats
<1>4. faults \subseteq faults' /\ faults' \subseteq FaultKinds
  BY FaultAdds DEF TypeOK, FaultKinds
<1>5. LocksHeld'
  <2>1. CASE ChatOfJob(j) \notin lock /\ lock' = lock \cup {ChatOfJob(j)} /\ UNCHANGED faults
    <3>1. \A i \in DOMAIN jobs : ChatOfJob(i)' = ChatOfJob(i)
      BY <1>1 DEF ChatOfJob, Moved, SameMessages
    <3>2. ASSUME faults \cap {"lock_expires", "lock_error"} = {}, NEW i \in DOMAIN jobs,
                 i # j, jobs'[i].at = "run"
          PROVE  ChatOfJob(i) \in lock /\ ChatOfJob(i) # ChatOfJob(j) /\ jobs[i].at = "run"
      BY <2>1, <3>2, <1>1 DEF LocksHeld, Moved
    <3> QED
      BY <1>1, <2>1, <3>1, <3>2 DEF LocksHeld, Moved, SameMessages
  <2>2. CASE Fault("lock_error")
    BY <2>2 DEF LocksHeld, Fault
  <2> QED
    BY <2>1, <2>2
<1>6. HandledByJob'
  <2>1. /\ handled \in Seq(Messages) /\ Len(handled) \in Nat
        /\ DOMAIN handled' = DOMAIN handled \cup {Len(handled) + 1}
        /\ Len(handled) + 1 \notin DOMAIN handled
        /\ handled'[Len(handled) + 1] = jobs[j].msg
        /\ \A i \in DOMAIN handled : handled'[i] = handled[i]
    BY <1>3 DEF TypeOK
  <2> SUFFICES ASSUME "worker_dies" \notin faults
               PROVE  /\ \A i, k \in DOMAIN handled' : handled'[i] = handled'[k] => i = k
                      /\ \A i \in DOMAIN handled' : \E k \in DOMAIN jobs' :
                            jobs'[k].msg = handled'[i] /\ jobs'[k].at \in {"run", "done"}
    BY <1>4 DEF HandledByJob
  <2>2. \A i \in DOMAIN handled : \E k \in DOMAIN jobs :
           k # j /\ jobs[k].msg = handled[i] /\ jobs[k].at \in {"run", "done"}
    BY DEF HandledByJob
  <2>3. \A i \in DOMAIN handled : handled[i] # jobs[j].msg
    BY <2>2 DEF ClaimsOwned
  <2>4. \A i, k \in DOMAIN handled : handled[i] = handled[k] => i = k
    BY DEF HandledByJob
  <2>5. \A i, k \in DOMAIN handled' : handled'[i] = handled'[k] => i = k
    BY <2>1, <2>3, <2>4
  <2>6. \A i \in DOMAIN handled' : \E k \in DOMAIN jobs' :
           jobs'[k].msg = handled'[i] /\ jobs'[k].at \in {"run", "done"}
    <3>1. \A i \in DOMAIN handled : \E k \in DOMAIN jobs' :
             jobs'[k].msg = handled[i] /\ jobs'[k].at \in {"run", "done"}
      BY <1>1, <2>2 DEF Moved, SameMessages
    <3>2. j \in DOMAIN jobs' /\ jobs'[j].msg = jobs[j].msg /\ jobs'[j].at = "run"
      BY <1>1 DEF Moved, SameMessages
    <3> QED
      BY <2>1, <3>1, <3>2
  <2> QED
    BY <2>5, <2>6
<1>7. TypeOK'
  <2>1. handled' \in Seq(Messages) /\ lock' \subseteq Chats
    BY <1>3 DEF TypeOK
  <2> QED
    BY <1>1, <1>4, <2>1 DEF TypeOK, Moved, SameMessages, WorkerOnly
<1> QED
  BY <1>2, <1>5, <1>6, <1>7

LEMMA AcquireLockStep ==
    ASSUME IInv, NEW j \in DOMAIN jobs, AcquireLock(j)
    PROVE  IInv'
<1>1. CASE JobTo(j, "queued") /\ UNCHANGED <<lock, handled, faults>>
  <2>1. Moved(j, "queued")
    BY <1>1, JobGoes DEF IInv, Steps
  <2> QED
    BY <1>1, <2>1, QuietStep DEF AcquireLock
<1>2. CASE ~(JobTo(j, "queued") /\ UNCHANGED <<lock, handled, faults>>)
  BY <1>2, EnterStep DEF AcquireLock
<1> QED
  BY <1>1, <1>2

LEMMA FinishStep ==
    ASSUME IInv, NEW j \in DOMAIN jobs, Finish(j)
    PROVE  IInv'
<1> USE DEF IInv
<1>1. Moved(j, "done") /\ jobs[j].at = "run" /\ lock' = lock \ {ChatOfJob(j)}
      /\ WorkerOnly /\ UNCHANGED <<handled, faults>>
  BY JobGoes DEF Finish, Steps
<1>2. AtMessage' /\ ClaimsOwned'
  BY <1>1, ClaimsStand DEF Moved, WorkerOnly
<1>3. \A i \in DOMAIN jobs' : jobs'[i].at = "run" =>
         i \in DOMAIN jobs /\ i # j /\ jobs'[i] = jobs[i] /\ ChatOfJob(i)' = ChatOfJob(i)
  BY <1>1 DEF Moved, SameMessages, ChatOfJob
<1>4. LocksHeld'
  BY <1>1, <1>3 DEF LocksHeld
<1>5. HandledByJob'
  BY <1>1 DEF HandledByJob, Moved, SameMessages
<1>6. TypeOK'
  BY <1>1 DEF TypeOK, Moved, SameMessages, WorkerOnly
<1> QED
  BY <1>2, <1>4, <1>5, <1>6

LEMMA LockExpiresStep ==
    ASSUME IInv, NEW c \in Chats, LockExpires(c)
    PROVE  IInv'
<1> USE DEF IInv
<1>1. jobs \in Seq(Job) /\ SameMessages(jobs')
  BY DEF TypeOK, LockExpires, SameMessages
<1>2. AtMessage' /\ ClaimsOwned'
  BY <1>1, ClaimsStand DEF LockExpires, WorkerOnly
<1>3. faults \subseteq faults' /\ faults' \subseteq FaultKinds
  BY FaultAdds DEF LockExpires, TypeOK, FaultKinds
<1>4. LocksHeld'
  <2>1. CASE \E j \in DOMAIN jobs : jobs[j].at = "run" /\ ChatOfJob(j) = c
    BY <2>1 DEF LocksHeld, LockExpires, Fault
  <2>2. CASE ~ \E j \in DOMAIN jobs : jobs[j].at = "run" /\ ChatOfJob(j) = c
    <3>1. UNCHANGED <<jobs, faults>> /\ lock' = lock \ {c}
      BY <2>2 DEF LockExpires
    <3> QED
      BY <2>2, <3>1 DEF LocksHeld, ChatOfJob
  <2> QED
    BY <2>1, <2>2
<1>5. HandledByJob'
  BY <1>3 DEF HandledByJob, LockExpires
<1>6. TypeOK'
  BY <1>3 DEF TypeOK, LockExpires, WorkerOnly
<1> QED
  BY <1>2, <1>4, <1>5, <1>6

LEMMA WorkerDiesStep ==
    ASSUME IInv, WorkerDies
    PROVE  IInv'
<1> USE DEF IInv
<1> DEFINE Again(job) == IF job.at \in InWorker
                         THEN [msg |-> job.msg, tries |-> job.tries, at |-> "queued"] ELSE job
<1>1. jobs \in Seq(Job) /\ \A j \in DOMAIN jobs : jobs[j] \in Job
  BY DEF TypeOK
<1>2. \A j \in DOMAIN jobs : [jobs[j] EXCEPT !.at = "queued"]
                               = [msg |-> jobs[j].msg, tries |-> jobs[j].tries, at |-> "queued"]
  BY <1>1 DEF Job
<1>3. jobs' = [j \in DOMAIN jobs |-> Again(jobs[j])]
  BY <1>2 DEF WorkerDies
<1>4. \A j \in DOMAIN jobs : Again(jobs[j]) \in Job /\ Again(jobs[j]).msg = jobs[j].msg
                             /\ Again(jobs[j]).at # "run"
  BY <1>1 DEF Job, InWorker
<1> HIDE DEF Again
<1>5. SameMessages(jobs') /\ \A j \in DOMAIN jobs' : jobs'[j].at # "run"
  <2>1. DOMAIN jobs = 1..Len(jobs) /\ Len(jobs) \in Nat
    BY <1>1
  <2>2. [j \in 1..Len(jobs) |-> Again(jobs[j])] \in Seq(Job)
    BY <1>4, <2>1
  <2> QED
    BY <1>3, <1>4, <2>1, <2>2 DEF SameMessages
<1>6. AtMessage' /\ ClaimsOwned'
  BY <1>5, ClaimsStand DEF WorkerDies, WorkerOnly
<1>7. "worker_dies" \in faults' /\ faults' \subseteq FaultKinds
  BY FaultAdds DEF WorkerDies, FaultKinds
<1>8. LocksHeld' /\ HandledByJob'
  BY <1>5, <1>7 DEF LocksHeld, HandledByJob
<1>9. TypeOK'
  BY <1>5, <1>7 DEF TypeOK, WorkerDies, WorkerOnly, SameMessages
<1> QED
  BY <1>6, <1>8, <1>9

-----------------------------------------------------------------------------
(* The invariant and what follows from it.                                 *)

LEMMA InvInit == Init => IInv
<1> SUFFICES ASSUME Init PROVE IInv
  OBVIOUS
<1>1. TypeOK
  BY PipelineBounds DEF Init, TypeOK, Serving, Unused, FaultKinds
<1>2. AtMessage
  BY DEF Init, AtMessage, Unused
<1>3. ClaimsOwned
  BY DEF Init, ClaimsOwned, Holding, Unused
<1>4. LocksHeld /\ HandledByJob
  BY DEF Init, LocksHeld, HandledByJob
<1> QED
  BY <1>1, <1>2, <1>3, <1>4 DEF IInv

LEMMA InvNext == IInv /\ [Next]_vars => IInv'
<1> SUFFICES ASSUME IInv, [Next]_vars PROVE IInv'
  OBVIOUS
<1>1. ASSUME NEW r \in Routes, Receive(r) PROVE IInv'
  BY <1>1, ReceiveStep
<1>2. ASSUME NEW r \in Routes, RouteStep(r) PROVE IInv'
  BY <1>2, ClaimStep, CountHitStep, StartWindowStep, LimitFailsStep, EnqueueStep,
     EnqueueFailsStep, LeavingSteps DEF RouteStep
<1>3. ASSUME NEW r \in Routes, RouteDies(r) PROVE IInv'
  BY <1>3, LeavingSteps
<1>4. ASSUME NEW c \in Chats, WindowEnds(c) \/ LockExpires(c) PROVE IInv'
  BY <1>4, WindowEndsStep, LockExpiresStep
<1>5. ASSUME NEW j \in DOMAIN jobs, JobStep(j) PROVE IInv'
  BY <1>5, PickStep, MediaSteps, AcquireLockStep, FinishStep DEF JobStep
<1>6. CASE WorkerDies
  BY <1>6, WorkerDiesStep
<1>7. CASE UNCHANGED vars
  <2>1. TypeOK' /\ AtMessage'
    BY <1>7 DEF vars, IInv, TypeOK, AtMessage, Batch
  <2>2. ClaimsOwned'
    BY <1>7 DEF vars, IInv, ClaimsOwned, Holding, Current, Batch
  <2>3. LocksHeld' /\ HandledByJob'
    BY <1>7, WorkerAside DEF vars, IInv
  <2> QED
    BY <2>1, <2>2, <2>3 DEF IInv
<1> QED
  BY <1>1, <1>2, <1>3, <1>4, <1>5, <1>6, <1>7 DEF Next, Work

\* The invariant holds in every reachable state.
THEOREM Invariant == Spec => []IInv
  BY InvInit, InvNext, PTL DEF Spec

\* Every variable of the pipeline keeps its type: no claim is given back that the
\* shield's verdict rests on (TypeOK).
THEOREM TypeCorrect == Spec => []TypeOK
<1>1. IInv => TypeOK
  BY DEF IInv
<1> QED
  BY <1>1, Invariant, PTL

\* The chat lock of arq_worker.py keeps two messages of a chat apart as long as
\* no lock expires under its job and Redis answers, for any number of workers'
\* jobs, deaths and repeated POSTs (OneJobPerChat).
THEOREM OneJob == Spec => []OneJobPerChat
<1>1. IInv => OneJobPerChat
  BY DEF IInv, LocksHeld, OneJobPerChat
<1> QED
  BY <1>1, Invariant, PTL

LEMMA AtMostOne ==
    ASSUME NEW S, \A x, y \in S : x = y
    PROVE  Cardinality(S) \in {0, 1}
<1>1. CASE S = {}
  BY <1>1, FS_EmptySet
<1>2. CASE S # {}
  <2>1. PICK x \in S : TRUE
    BY <1>2
  <2>2. S = {x}
    BY <2>1
  <2> QED
    BY <2>2, FS_Singleton
<1> QED
  BY <1>1, <1>2

\* The claim on a message id (SET webhook:<id> NX) makes one job of it, however
\* often and however many at a time its POST is repeated, on either route and
\* whatever fails; and the orchestrator sees it again only after a worker died
\* (HandledOnce).
THEOREM Once == Spec => []HandledOnce
<1>1. IInv => HandledOnce
  <2> SUFFICES ASSUME IInv, NEW m \in Messages
               PROVE  /\ Cardinality(JobsOf(m)) <= 1
                      /\ Times(m) > 1 => "worker_dies" \in faults
    BY DEF HandledOnce
  <2>1. Cardinality(JobsOf(m)) \in {0, 1}
    <3>1. \A i, j \in JobsOf(m) : i = j
      BY DEF IInv, ClaimsOwned, JobsOf
    <3> QED
      BY <3>1, AtMostOne
  <2>2. ASSUME "worker_dies" \notin faults PROVE Times(m) \in {0, 1}
    <3> DEFINE S == {i \in DOMAIN handled : handled[i] = m}
    <3>1. \A i, k \in S : i = k
      BY <2>2 DEF IInv, HandledByJob
    <3>2. Cardinality(S) \in {0, 1}
      BY <3>1, AtMostOne
    <3> QED
      BY <3>2 DEF Times
  <2> QED
    BY <2>1, <2>2
<1> QED
  BY <1>1, Invariant, PTL

-----------------------------------------------------------------------------
(* A message that was given up.                                            *)

\* a lock was set with a message of its chat
LockByMessage == \A c \in lock : \E i \in DOMAIN handled : ChatOf[handled[i]] = c

\* another message of the job's chat was given to the orchestrator
Overtaken(j) == \E i \in DOMAIN handled :
                   handled[i] # jobs[j].msg /\ ChatOf[handled[i]] = ChatOfJob(j)

\* a job that was started and is in the queue again has been overtaken
Deferred(j) == jobs[j].at = "dropped" \/ (jobs[j].at = "queued" /\ jobs[j].tries > 0)
DeferredBehind ==
    "worker_dies" \notin faults => \A j \in DOMAIN jobs : Deferred(j) => Overtaken(j)

BehindInv == IInv /\ LockByMessage /\ DeferredBehind

LEMMA HandledGrows ==
    ASSUME TypeOK, NEW m \in Messages, handled' = handled \/ handled' = Append(handled, m)
    PROVE  \A i \in DOMAIN handled : i \in DOMAIN handled' /\ handled'[i] = handled[i]
  BY DEF TypeOK

\* a step after which every job that is deferred was so before, or has been overtaken
LEMMA BehindStep ==
    ASSUME BehindInv, IInv', LockByMessage', faults \subseteq faults',
           \A i \in DOMAIN handled : i \in DOMAIN handled' /\ handled'[i] = handled[i],
           "worker_dies" \notin faults' =>
             \A j \in DOMAIN jobs' : Deferred(j)' =>
               \/ j \in DOMAIN jobs /\ jobs'[j].msg = jobs[j].msg /\ (Deferred(j) \/ Overtaken(j))
    PROVE  BehindInv'
<1>1. ASSUME "worker_dies" \notin faults', NEW j \in DOMAIN jobs', Deferred(j)'
      PROVE  Overtaken(j)'
  <2>1. j \in DOMAIN jobs /\ jobs'[j].msg = jobs[j].msg /\ Overtaken(j)
    BY <1>1 DEF BehindInv, DeferredBehind
  <2> QED
    BY <2>1 DEF Overtaken, ChatOfJob
<1> QED
  BY <1>1 DEF BehindInv, DeferredBehind

\* the locks are among those of before, and nothing is handled
LEMMA LocksStand ==
    LockByMessage /\ lock' \subseteq lock /\ handled' = handled => LockByMessage'
  BY DEF LockByMessage

\* a step that leaves the jobs alone
LEMMA JobsStand ==
    ASSUME BehindInv, IInv', lock' \subseteq lock, UNCHANGED <<jobs, handled>>,
           faults \subseteq faults'
    PROVE  BehindInv'
<1>1. LockByMessage'
  BY LocksStand DEF BehindInv
<1>2. \A j \in DOMAIN jobs' : Deferred(j)' =>
        j \in DOMAIN jobs /\ jobs'[j].msg = jobs[j].msg /\ Deferred(j)
  BY DEF Deferred
<1> QED
  BY <1>1, <1>2, BehindStep

LEMMA BehindRoutes ==
    ASSUME BehindInv, IInv',
           \/ \E r \in Routes : Receive(r) \/ RouteStep(r) \/ RouteDies(r)
           \/ \E c \in Chats : WindowEnds(c) \/ LockExpires(c)
    PROVE  BehindInv'
<1>1. ASSUME NEW r \in Routes, Enqueue(r) PROVE BehindInv'
  <2> DEFINE new == [msg |-> Current(r), at |-> "queued", tries |-> 0]
  <2>1. /\ jobs' = Append(jobs, new) /\ UNCHANGED <<lock, handled>>
        /\ jobs \in Seq(Job) /\ NextMessage(r)
    BY <1>1 DEF Enqueue, BehindInv, IInv, TypeOK
  <2>2. new.at = "queued" /\ new.tries = 0
    OBVIOUS
  <2> HIDE DEF new
  <2>3. \A j \in DOMAIN jobs' : IF j \in DOMAIN jobs THEN jobs'[j] = jobs[j] ELSE jobs'[j] = new
    BY <2>1
  <2>4. \A j \in DOMAIN jobs' : Deferred(j)' =>
          j \in DOMAIN jobs /\ jobs'[j].msg = jobs[j].msg /\ Deferred(j)
    BY <2>2, <2>3 DEF Deferred
  <2>5. faults \subseteq faults'
    BY <2>1 DEF NextMessage, Answer, Fault
  <2>6. LockByMessage'
    BY <2>1, LocksStand DEF BehindInv
  <2> QED
    BY <2>1, <2>4, <2>5, <2>6, BehindStep
<1>2. ASSUME NEW r \in Routes, Receive(r) \/ RouteDies(r) \/ (RouteStep(r) /\ ~Enqueue(r))
      PROVE  BehindInv'
  <2>1. UNCHANGED <<jobs, handled, lock>>
    BY <1>2 DEF Receive, RouteDies, RouteStep, Claim, ClaimLegacy, ClaimFails, CountHit,
                StartWindow, LimitFails, EnqueueFails, EnqueueFailsLegacy, Unclaim
  <2>2. faults \subseteq faults'
    BY <1>2 DEF Receive, RouteDies, RouteStep, Claim, ClaimLegacy, ClaimFails, CountHit,
                StartWindow, LimitFails, EnqueueFails, EnqueueFailsLegacy, Unclaim, NextMessage, Answer, Fault
  <2> QED
    BY <2>1, <2>2, JobsStand
<1>3. ASSUME NEW c \in Chats, WindowEnds(c) \/ LockExpires(c) PROVE BehindInv'
  <2>1. UNCHANGED <<jobs, handled>> /\ lock' \subseteq lock /\ faults \subseteq faults'
    BY <1>3 DEF WindowEnds, LockExpires, Fault
  <2> QED
    BY <2>1, JobsStand
<1> QED
  BY <1>1, <1>2, <1>3

\* a job moves, and is deferred now only if it was or if it has been overtaken
LEMMA BehindMove ==
    ASSUME BehindInv, IInv', LockByMessage', NEW j \in DOMAIN jobs, NEW step, Moved(j, step),
           faults \subseteq faults',
           \A i \in DOMAIN handled : i \in DOMAIN handled' /\ handled'[i] = handled[i],
           "worker_dies" \notin faults' /\ Deferred(j)' => Deferred(j) \/ Overtaken(j)
    PROVE  BehindInv'
<1>1. ASSUME "worker_dies" \notin faults', NEW i \in DOMAIN jobs', Deferred(i)'
      PROVE  i \in DOMAIN jobs /\ jobs'[i].msg = jobs[i].msg /\ (Deferred(i) \/ Overtaken(i))
  <2>1. i \in DOMAIN jobs /\ jobs'[i].msg = jobs[i].msg
    BY DEF Moved, SameMessages
  <2>2. i # j => jobs'[i] = jobs[i]
    BY <2>1 DEF Moved
  <2> QED
    BY <1>1, <2>1, <2>2 DEF Deferred
<1> QED
  BY <1>1, BehindStep

LEMMA BehindWorker ==
    ASSUME BehindInv, IInv', NEW j \in DOMAIN jobs, JobStep(j)
    PROVE  BehindInv'
<1> USE DEF BehindInv, IInv
<1>0. jobs[j] \in Job /\ jobs[j].msg \in Messages
  <2>1. jobs[j] \in Job
    BY DEF TypeOK
  <2> QED
    BY <2>1 DEF Job
<1>1. CASE Pick(j)
  <2>1. UNCHANGED <<lock, handled, faults>> /\ LockByMessage'
    BY <1>1, LocksStand DEF Pick
  <2>2. CASE jobs[j].tries < MaxTries
    <3> DEFINE step == IF Sort[jobs[j].msg] = "media" THEN "media" ELSE "lock"
    <3>1. jobs' = [jobs EXCEPT ![j] = [msg |-> jobs[j].msg, tries |-> jobs[j].tries + 1, at |-> step]]
      <4> DEFINE started == [msg |-> jobs[j].msg, tries |-> jobs[j].tries + 1, at |-> jobs[j].at]
      <4>1. started \in Job /\ [jobs[j] EXCEPT !.tries = jobs[j].tries + 1] = started
        BY <1>0 DEF Job
      <4>2. started.msg = jobs[j].msg /\ started.tries = jobs[j].tries + 1
        OBVIOUS
      <4> HIDE DEF step, started
      <4>3. jobs' = [jobs EXCEPT ![j] = [started EXCEPT !.at = step]]
        BY <1>0, <1>1, <2>2, <4>1 DEF Pick, step, TypeOK
      <4>4. [started EXCEPT !.at = step] = [msg |-> started.msg, tries |-> started.tries, at |-> step]
        BY <4>1 DEF Job
      <4> QED
        BY <4>2, <4>3, <4>4
    <3>2. step \in Steps /\ step \notin {"dropped", "queued"} /\ jobs[j].tries + 1 \in Nat
      BY <1>0 DEF Steps, Job
    <3> HIDE DEF step
    <3>3. Moved(j, step)
      BY <3>1, <3>2, JobMoved
    <3>4. ~Deferred(j)'
      BY <3>2, <3>3 DEF Moved, Deferred
    <3> QED
      BY <2>1, <3>3, <3>4, BehindMove
  <2>3. CASE ~(jobs[j].tries < MaxTries)
    <3>1. Moved(j, "dropped") /\ jobs[j].at = "queued"
      BY <1>1, <2>3, JobGoes DEF Pick, Steps
    <3>2. jobs[j].tries > 0
      BY <1>0, <2>3, PipelineBounds DEF Job
    <3>3. Deferred(j)
      BY <3>1, <3>2 DEF Deferred
    <3> QED
      BY <2>1, <3>1, <3>3, BehindMove
  <2> QED
    BY <2>2, <2>3
<1>2. CASE FetchMedia(j) \/ StoreMedia(j)
  <2>1. PICK step \in {"upload", "lock"} : JobTo(j, step)
    BY <1>2 DEF FetchMedia, StoreMedia
  <2>2. Moved(j, step) /\ UNCHANGED <<lock, handled, faults>>
    BY <1>2, <2>1, JobGoes DEF Steps, FetchMedia, StoreMedia
  <2>3. ~Deferred(j)' /\ LockByMessage'
    BY <2>1, <2>2, LocksStand DEF Moved, Deferred
  <2> QED
    BY <2>2, <2>3, BehindMove
<1>3. CASE AcquireLock(j) /\ JobTo(j, "run")
  <2>1. /\ Moved(j, "run") /\ handled' = Append(handled, jobs[j].msg)
        /\ lock' \subseteq lock \cup {ChatOfJob(j)} /\ faults \subseteq faults'
    <3>1. Moved(j, "run")
      BY <1>3, JobGoes DEF Steps
    <3>2. ~JobTo(j, "queued")
      <4>1. jobs'[j].at = "run"
        BY <3>1 DEF Moved
      <4>2. JobTo(j, "queued") => Moved(j, "queued")
        BY JobGoes DEF Steps
      <4> QED
        BY <4>1, <4>2 DEF Moved
    <3> QED
      BY <1>3, <3>1, <3>2 DEF AcquireLock, Fault
  <2>2. \A i \in DOMAIN handled : i \in DOMAIN handled' /\ handled'[i] = handled[i]
    BY <1>0, <2>1, HandledGrows
  <2>3. Len(handled) + 1 \in DOMAIN handled' /\ handled'[Len(handled) + 1] = jobs[j].msg
    BY <1>0, <2>1 DEF TypeOK
  <2>4. LockByMessage'
    BY <2>1, <2>2, <2>3 DEF LockByMessage, ChatOfJob
  <2>5. ~Deferred(j)'
    BY <2>1 DEF Moved, Deferred
  <2> QED
    BY <2>1, <2>2, <2>4, <2>5, BehindMove
<1>4. CASE AcquireLock(j) /\ ~JobTo(j, "run")
  <2>1. /\ Moved(j, "queued") /\ ChatOfJob(j) \in lock /\ jobs[j].at = "lock"
        /\ UNCHANGED <<lock, handled, faults>>
    BY <1>4, JobGoes DEF AcquireLock, Steps
  <2>2. ASSUME "worker_dies" \notin faults PROVE Overtaken(j)
    <3>1. PICK i \in DOMAIN handled : ChatOf[handled[i]] = ChatOfJob(j)
      BY <2>1 DEF LockByMessage
    <3>2. PICK k \in DOMAIN jobs : jobs[k].msg = handled[i] /\ jobs[k].at \in {"run", "done"}
      BY <2>2 DEF HandledByJob
    <3>3. handled[i] # jobs[j].msg
      BY <2>1, <3>2 DEF ClaimsOwned
    <3> QED
      BY <3>1, <3>3 DEF Overtaken
  <2>3. LockByMessage'
    BY <2>1, LocksStand
  <2> QED
    BY <2>1, <2>2, <2>3, BehindMove
<1>5. CASE Finish(j)
  <2>1. Moved(j, "done") /\ lock' \subseteq lock /\ UNCHANGED <<handled, faults>>
    BY <1>5, JobGoes DEF Finish, Steps
  <2>2. ~Deferred(j)' /\ LockByMessage'
    BY <2>1, LocksStand DEF Moved, Deferred
  <2> QED
    BY <2>1, <2>2, BehindMove
<1> QED
  BY <1>1, <1>2, <1>3, <1>4, <1>5 DEF JobStep

LEMMA BehindNext == BehindInv /\ [Next]_vars => BehindInv'
<1> SUFFICES ASSUME BehindInv, [Next]_vars PROVE BehindInv'
  OBVIOUS
<1>0. IInv'
  BY InvNext DEF BehindInv
<1>1. CASE WorkerDies
  <2>1. "worker_dies" \in faults' /\ UNCHANGED <<lock, handled>>
    BY <1>1 DEF WorkerDies, Fault
  <2> QED
    BY <1>0, <2>1, LocksStand DEF BehindInv, DeferredBehind
<1>2. CASE UNCHANGED vars
  BY <1>0, <1>2, JobsStand DEF vars
<1> QED
  BY <1>0, <1>1, <1>2, BehindRoutes, BehindWorker DEF Next, Work

LEMMA BehindInit == Init => BehindInv
<1> SUFFICES ASSUME Init PROVE BehindInv
  OBVIOUS
<1>1. LockByMessage /\ DeferredBehind
  BY DEF Init, LockByMessage, DeferredBehind
<1> QED
  BY <1>1, InvInit DEF BehindInv

\* ARQ gives a message up after max_tries starts only when another message of its
\* chat got through meanwhile, or a worker died: for any number of messages and of
\* tries, two messages never starve each other of the chat lock
\* (DroppedBehindAnother).
THEOREM NoMutualStarvation == Spec => []DroppedBehindAnother
<1>1. BehindInv => DroppedBehindAnother
  BY DEF BehindInv, DeferredBehind, Deferred, Overtaken, DroppedBehindAnother
<1> QED
  BY <1>1, BehindInit, BehindNext, PTL DEF Spec

-----------------------------------------------------------------------------
(* The messages the provider will not repeat.                              *)

\* The provider repeats a POST as it was: no message is in two of them, and none
\* comes by both routes.
EachInOneBatch == \A b, d \in Batches : b # d => ToSet(b) \cap ToSet(d) = {}

\* a message of a POST to the Meta route
Watched(m) == \E b \in Batches : Via[b] = "meta" /\ m \in ToSet(b)

\* a message that became a job or was shed, and one that a route still works on
Kept(m) == JobsOf(m) # {} \/ m \in shed
InHand(r, m) == route[r].at \in {"limit", "expire", "enqueue"} /\ Current(r) = m

(* A claim on a watched message is not left behind; a message that a route *)
(* has passed is kept or in the hands of ANOTHER route, and so are those   *)
(* of a batch that was acknowledged.                                       *)
ClaimedKept ==
    \A m \in claimed : Watched(m) => Kept(m) \/ \E r \in Routes : Holding(r) /\ Current(r) = m
PassedKept ==
    \A r \in Routes : IsMeta(r) /\ route[r].at # "idle" =>
      \A i \in 1..(route[r].i - 1) : Processable(Batch(r)[i]) =>
        Kept(Batch(r)[i]) \/ \E q \in Routes \ {r} : InHand(q, Batch(r)[i])
AckedKept ==
    \A b \in acked : \A m \in ToSet(b) : Via[b] = "meta" /\ Processable(m) =>
      Kept(m) \/ \E r \in Routes : InHand(r, m)
AllKept == ClaimedKept /\ PassedKept /\ AckedKept

\* unless the provider is impatient, a batch is served once at a time, and not after its 200
OneCopy ==
    "answer_slow" \notin faults =>
      /\ \A q, r \in Routes : Batch(q) = Batch(r) /\ route[q].at # "idle" /\ route[r].at # "idle" => q = r
      /\ \A r \in Routes : route[r].at # "idle" => Batch(r) \notin acked

UnclaimIsFault == "enqueue_fails" \notin faults => \A r \in Routes : route[r].at # "unclaim"

KeptInv == EachInOneBatch /\ IInv /\ OneCopy /\ UnclaimIsFault /\ (~Lossy => AllKept)

LEMMA AcknowledgedIs == Accounted <=> (~Lossy => AckedKept)
  BY DEF Accounted, AckedKept, Kept, InHand

\* what a route has in hand is of its batch, and of no other
LEMMA OwnBatch ==
    ASSUME EachInOneBatch, IInv, NEW r \in Routes, route[r].at # "idle"
    PROVE  /\ Batch(r) \in Batches /\ Current(r) \in ToSet(Batch(r))
           /\ Watched(Current(r)) => IsMeta(r)
           /\ \A b \in Batches : Current(r) \in ToSet(b) => b = Batch(r)
           /\ \A i \in 1..(route[r].i - 1) : Batch(r)[i] \in ToSet(Batch(r))
<1>1. route[r].i \in 1..Len(Batch(r)) /\ Batch(r) \in Batches
  BY DEF IInv, AtMessage, Routes, Batch
<1>2. Batch(r) \in Seq(Messages)
  BY <1>1, MessagesAssumption
<1>3. \A i \in 1..route[r].i : Batch(r)[i] \in ToSet(Batch(r))
  BY <1>1, <1>2 DEF ToSet
<1>4. Current(r) \in ToSet(Batch(r))
  BY <1>1, <1>3 DEF Current
<1> QED
  BY <1>1, <1>3, <1>4 DEF EachInOneBatch, Watched, IsMeta

\* messages stay kept when jobs keep theirs, or more of them are shed
LEMMA KeptStays ==
    ASSUME \A j \in DOMAIN jobs : j \in DOMAIN jobs' /\ jobs'[j].msg = jobs[j].msg,
           shed \subseteq shed', NEW m, Kept(m)
    PROVE  Kept(m)'
  BY DEF Kept, JobsOf

LEMMA LossyStays == faults \subseteq faults' /\ Lossy => Lossy'
  BY DEF Lossy

\* the routes and the claims are left alone
LEMMA AsideKeeps ==
    ASSUME KeptInv, IInv', UNCHANGED <<acked, route, claimed, shed>>, faults \subseteq faults',
           \A j \in DOMAIN jobs : j \in DOMAIN jobs' /\ jobs'[j].msg = jobs[j].msg
    PROVE  KeptInv'
<1>1. OneCopy' /\ UnclaimIsFault' /\ EachInOneBatch'
  BY DEF KeptInv, OneCopy, UnclaimIsFault, EachInOneBatch, Batch
<1>2. \A r \in Routes : /\ Holding(r)' = Holding(r) /\ Current(r)' = Current(r)
                        /\ \A m : InHand(r, m)' = InHand(r, m)
  BY DEF Holding, Current, Batch, InHand
<1>3. ASSUME ~Lossy' PROVE AllKept'
  <2>1. AllKept
    BY <1>3, LossyStays DEF KeptInv
  <2>2. ClaimedKept'
    BY <1>2, <2>1, KeptStays DEF AllKept, ClaimedKept, Watched
  <2>3. PassedKept'
    BY <1>2, <2>1, KeptStays DEF AllKept, PassedKept, IsMeta, Batch, Processable
  <2>4. AckedKept'
    BY <1>2, <2>1, KeptStays DEF AllKept, AckedKept, Processable
  <2> QED
    BY <2>2, <2>3, <2>4 DEF AllKept
<1> QED
  BY <1>1, <1>3 DEF KeptInv

\* what a step of a route that serves a POST does to the copies
LEMMA CopiesStay ==
    ASSUME KeptInv, NEW r \in Routes, NEW s, route[r].at # "idle", Moves(r, s),
           faults \subseteq faults', acked' \subseteq acked \cup {Batch(r)},
           s.at # "idle" => acked' \subseteq acked,
           s.at = "unclaim" => "enqueue_fails" \in faults'
    PROVE  OneCopy' /\ UnclaimIsFault' /\ EachInOneBatch'
<1>1. route'[r] = s /\ \A q \in Routes : q # r => route'[q] = route[q]
  BY MovedRoutes DEF KeptInv, IInv
<1>2. \A q \in Routes : route'[q].at # "idle" => route[q].at # "idle"
  BY <1>1
<1>3. OneCopy'
  <2> SUFFICES ASSUME "answer_slow" \notin faults'
               PROVE  /\ \A p, q \in Routes : Batch(p) = Batch(q) /\ route'[p].at # "idle"
                                              /\ route'[q].at # "idle" => p = q
                      /\ \A q \in Routes : route'[q].at # "idle" => Batch(q) \notin acked'
    BY DEF OneCopy, Batch
  <2>1. /\ \A p, q \in Routes : Batch(p) = Batch(q) /\ route[p].at # "idle"
                                /\ route[q].at # "idle" => p = q
        /\ \A q \in Routes : route[q].at # "idle" => Batch(q) \notin acked
    BY DEF KeptInv, OneCopy
  <2>2. \A q \in Routes : route'[q].at # "idle" /\ q # r => Batch(q) # Batch(r)
    BY <1>2, <2>1
  <2> QED
    BY <1>1, <1>2, <2>1, <2>2
<1>4. UnclaimIsFault'
  BY <1>1 DEF KeptInv, UnclaimIsFault
<1> QED
  BY <1>3, <1>4 DEF KeptInv, EachInOneBatch

-----------------------------------------------------------------------------
(* A route goes on with its message, or is done with it.                   *)

\* the message stays in hand
LEMMA HoldKeeps ==
    ASSUME KeptInv, IInv', NEW r \in Routes, route[r].at # "idle",
           NEW step \in {"limit", "expire", "enqueue"}, Goto(r, step),
           UNCHANGED <<acked, shed, jobs>>, faults \subseteq faults',
           \/ route[r].at \in {"limit", "expire", "enqueue"} /\ UNCHANGED claimed
           \/ claimed' = claimed \cup {Current(r)}
    PROVE  KeptInv'
<1> DEFINE s == [at |-> step, i |-> route[r].i]
<1>1. Moves(r, s) /\ s.at = step /\ s.i = route[r].i
  BY GoneTo DEF KeptInv, IInv
<1> HIDE DEF s
<1>2. OneCopy' /\ UnclaimIsFault' /\ EachInOneBatch'
  BY <1>1, CopiesStay
<1>3. route'[r] = s /\ \A q \in Routes : q # r => route'[q] = route[q]
  BY <1>1, MovedRoutes DEF KeptInv, IInv
<1>4. \A q \in Routes : /\ Current(q)' = Current(q) /\ (Holding(q) => Holding(q)')
                        /\ \A m : InHand(q, m) => InHand(q, m)'
  BY <1>1, <1>3 DEF Current, Batch, Holding, InHand
<1>5. Holding(r)' /\ \A m : Kept(m)' = Kept(m)
  BY <1>1, <1>3 DEF Holding, Kept, JobsOf
<1>6. ASSUME ~Lossy' PROVE AllKept'
  <2>1. AllKept
    BY <1>6, LossyStays DEF KeptInv
  <2>2. ClaimedKept'
    BY <1>4, <1>5, <2>1 DEF AllKept, ClaimedKept, Watched
  <2>3. PassedKept'
    <3>1. \A q \in Routes : (route'[q].at # "idle" => route[q].at # "idle") /\ route'[q].i = route[q].i
      BY <1>1, <1>3
    <3> QED
      BY <1>4, <1>5, <2>1, <3>1 DEF AllKept, PassedKept, IsMeta, Batch, Processable
  <2>4. AckedKept'
    BY <1>4, <1>5, <2>1 DEF AllKept, AckedKept, Processable
  <2> QED
    BY <2>2, <2>3, <2>4 DEF AllKept
<1> QED
  BY <1>2, <1>6 DEF KeptInv

\* the next message, or the 200 after the last
LEMMA NextOrAnswer ==
    ASSUME IInv, NEW r \in Routes, route[r].at # "idle", NextMessage(r)
    PROVE  \E s : /\ Moves(r, s) /\ faults \subseteq faults' /\ (Lossy' => Lossy)
                  /\ \/ /\ s.at = "claim" /\ s.i = route[r].i + 1 /\ acked' = acked
                     \/ /\ s.at = "idle" /\ route[r].i = Len(Batch(r))
                        /\ acked' \in {acked, acked \cup {Batch(r)}}
<1>1. route[r] \in Serving /\ route[r].i \in 1..Len(Batch(r)) /\ Len(Batch(r)) \in Nat
  BY MessagesAssumption DEF IInv, TypeOK, AtMessage, Routes, Batch
<1>2. CASE route[r].i < Len(Batch(r))
  <2> DEFINE s == [at |-> "claim", i |-> route[r].i + 1]
  <2>1. s \in Serving /\ s.at = "claim" /\ s.i = route[r].i + 1 /\ s.i \in 1..Len(Batch(r))
    BY <1>1, <1>2 DEF Serving
  <2>2. route' = [route EXCEPT ![r] = s] /\ UNCHANGED <<acked, faults>>
    BY <1>1, <1>2 DEF NextMessage, IInv, TypeOK, Serving
  <2> HIDE DEF s
  <2> QED
    BY <2>1, <2>2 DEF Moves, Lossy
<1>3. CASE ~(route[r].i < Len(Batch(r)))
  <2>1. Moves(r, Unused) /\ Unused.at = "idle" /\ route[r].i = Len(Batch(r))
    BY <1>1, <1>3, Answered DEF NextMessage, Unused, IInv
  <2>2. acked' \in {acked, acked \cup {Batch(r)}}
    BY <1>3 DEF NextMessage, Answer
  <2>3. faults \subseteq faults' /\ (Lossy' => Lossy)
    BY <1>3 DEF NextMessage, Answer, Fault, Lossy
  <2> QED
    BY <2>1, <2>2, <2>3
<1> QED
  BY <1>2, <1>3

\* The route is done with its message: one that it held is kept now, and one that it
\* skips cannot be processed, or is kept or in the hands of another.
LEMMA DoneKeeps ==
    ASSUME KeptInv, IInv', NEW r \in Routes, route[r].at # "idle", NextMessage(r),
           NEW m0, m0 = Current(r),
           \A j \in DOMAIN jobs : j \in DOMAIN jobs' /\ jobs'[j].msg = jobs[j].msg,
           shed \subseteq shed',
           claimed' = claimed \/ (claimed' = claimed \cup {m0} /\ ~IsMeta(r)),
           Holding(r) => Kept(m0)',
           ~Lossy /\ IsMeta(r) /\ Processable(m0) =>
             Kept(m0)' \/ \E q \in Routes \ {r} : InHand(q, m0)
    PROVE  KeptInv'
<1>1. PICK s : /\ Moves(r, s) /\ faults \subseteq faults' /\ (Lossy' => Lossy)
               /\ \/ /\ s.at = "claim" /\ s.i = route[r].i + 1 /\ acked' = acked
                  \/ /\ s.at = "idle" /\ route[r].i = Len(Batch(r))
                     /\ acked' \in {acked, acked \cup {Batch(r)}}
  BY NextOrAnswer DEF KeptInv
<1>2. route'[r] = s /\ \A q \in Routes : q # r => route'[q] = route[q]
  BY <1>1, MovedRoutes DEF KeptInv, IInv
<1>3. OneCopy' /\ UnclaimIsFault' /\ EachInOneBatch'
  BY <1>1, CopiesStay
<1>4. \A q \in Routes : q # r => /\ Current(q)' = Current(q) /\ Holding(q)' = Holding(q)
                                 /\ \A m : InHand(q, m)' = InHand(q, m)
  BY <1>2 DEF Current, Batch, Holding, InHand
<1>5. \A m : InHand(r, m) => m = m0 /\ Kept(m0)'
  BY DEF InHand, Holding
<1>6. \A m : Kept(m) => Kept(m)'
  BY KeptStays
<1>7. /\ Batch(r) \in Batches /\ m0 \in ToSet(Batch(r))
      /\ Watched(m0) => IsMeta(r)
  BY OwnBatch DEF KeptInv
<1>8. route[r].i \in 1..Len(Batch(r)) /\ Len(Batch(r)) \in Nat /\ Batch(r) \in Seq(Messages)
  BY MessagesAssumption DEF KeptInv, IInv, AtMessage, Routes, Batch
<1>9. ASSUME ~Lossy' PROVE AllKept'
  <2>0. ~Lossy /\ AllKept
    BY <1>1, <1>9, LossyStays DEF KeptInv
  <2>1. ClaimedKept'
    <3> SUFFICES ASSUME NEW m \in claimed', Watched(m)
                 PROVE  Kept(m)' \/ \E q \in Routes : Holding(q)' /\ Current(q)' = m
      BY DEF ClaimedKept, Watched
    <3>1. m \in claimed
      BY <1>7
    <3>2. Kept(m) \/ \E q \in Routes : Holding(q) /\ Current(q) = m
      BY <2>0, <3>1 DEF AllKept, ClaimedKept
    <3> QED
      BY <1>4, <1>6, <3>2
  <2>2. IsMeta(r) => \A i \in 1..route[r].i : Processable(Batch(r)[i]) =>
          Kept(Batch(r)[i])' \/ \E q \in Routes \ {r} : InHand(q, Batch(r)[i])
    <3> SUFFICES ASSUME IsMeta(r), NEW i \in 1..route[r].i, Processable(Batch(r)[i])
                 PROVE  Kept(Batch(r)[i])' \/ \E q \in Routes \ {r} : InHand(q, Batch(r)[i])
      OBVIOUS
    <3>1. CASE i = route[r].i
      BY <2>0, <3>1 DEF Current
    <3>2. CASE i # route[r].i
      <4>1. i \in 1..(route[r].i - 1)
        BY <1>8, <3>2
      <4> QED
        BY <1>6, <2>0, <4>1 DEF AllKept, PassedKept
    <3> QED
      BY <3>1, <3>2
  <2>3. PassedKept'
    <3> SUFFICES ASSUME NEW q \in Routes, IsMeta(q), route'[q].at # "idle",
                        NEW i \in 1..(route'[q].i - 1), Processable(Batch(q)[i])
                 PROVE  Kept(Batch(q)[i])' \/ \E p \in Routes \ {q} : InHand(p, Batch(q)[i])'
      BY DEF PassedKept, IsMeta, Batch, Processable
    <3>1. CASE q = r
      <4>1. i \in 1..route[r].i
        BY <1>1, <1>2, <1>8, <3>1
      <4> QED
        BY <1>4, <2>2, <3>1, <4>1
    <3>2. CASE q # r
      <4>1. Kept(Batch(q)[i]) \/ \E p \in Routes \ {q} : InHand(p, Batch(q)[i])
        BY <1>2, <2>0, <3>2 DEF AllKept, PassedKept
      <4> QED
        BY <1>4, <1>5, <1>6, <4>1
    <3> QED
      BY <3>1, <3>2
  <2>4. AckedKept'
    <3> SUFFICES ASSUME NEW b \in acked', NEW m \in ToSet(b), Via[b] = "meta", Processable(m)
                 PROVE  Kept(m)' \/ \E q \in Routes : InHand(q, m)'
      BY DEF AckedKept, Processable
    <3>1. CASE b \in acked
      <4>1. Kept(m) \/ \E q \in Routes : InHand(q, m)
        BY <2>0, <3>1 DEF AllKept, AckedKept
      <4> QED
        BY <1>4, <1>5, <1>6, <4>1
    <3>2. CASE b \notin acked
      <4>1. b = Batch(r) /\ route[r].i = Len(b)
        BY <1>1, <3>2
      <4>2. PICK i \in 1..route[r].i : m = Batch(r)[i]
        BY <1>8, <4>1 DEF ToSet
      <4> QED
        BY <1>4, <2>2, <4>1, <4>2 DEF IsMeta
    <3> QED
      BY <3>1, <3>2
  <2> QED
    BY <2>1, <2>3, <2>4 DEF AllKept
<1> QED
  BY <1>3, <1>9 DEF KeptInv

\* The route lets its message go, which stays neither claimed nor, unless something
\* is lost, promised to a copy of the POST.
LEMMA LeaveKeeps ==
    ASSUME KeptInv, IInv', NEW r \in Routes, route[r].at # "idle", NEW m0, m0 = Current(r),
           NEW s, Moves(r, s), UNCHANGED <<shed, jobs>>, claimed' \subseteq claimed,
           faults \subseteq faults', acked' \subseteq acked \cup {Batch(r)},
           IsMeta(r) => acked' \subseteq acked,
           \/ /\ s.at = "idle"
              /\ ~Lossy' /\ IsMeta(r) => m0 \notin claimed' /\ "answer_slow" \notin faults'
           \/ /\ s.at = "unclaim" /\ s.i = route[r].i /\ acked' = acked
              /\ "enqueue_fails" \in faults'
    PROVE  KeptInv'
<1>1. route'[r] = s /\ \A q \in Routes : q # r => route'[q] = route[q]
  BY MovedRoutes DEF KeptInv, IInv
<1>2. OneCopy' /\ UnclaimIsFault' /\ EachInOneBatch'
  BY CopiesStay
<1>3. \A q \in Routes : q # r => /\ Current(q)' = Current(q) /\ Holding(q)' = Holding(q)
                                 /\ \A m : InHand(q, m)' = InHand(q, m)
  BY <1>1 DEF Current, Batch, Holding, InHand
<1>4. \A m : Kept(m)' = Kept(m)
  BY DEF Kept, JobsOf
<1>5. \A m : InHand(r, m) => m = m0
  BY DEF InHand
<1>6. /\ Batch(r) \in Batches /\ (Watched(m0) => IsMeta(r))
      /\ \A b \in Batches : m0 \in ToSet(b) => b = Batch(r)
  BY OwnBatch DEF KeptInv
<1>7. ASSUME ~Lossy' PROVE AllKept'
  <2>0. AllKept
    BY <1>7, LossyStays DEF KeptInv
  <2>1. IsMeta(r) => "answer_slow" \notin faults
    BY <1>7 DEF Lossy
  <2>2. IsMeta(r) => /\ Batch(r) \notin acked
                     /\ \A q \in Routes : Batch(q) = Batch(r) /\ route[q].at # "idle" => q = r
    BY <2>1 DEF KeptInv, OneCopy
  <2>3. ClaimedKept'
    <3> SUFFICES ASSUME NEW m \in claimed', Watched(m)
                 PROVE  Kept(m)' \/ \E q \in Routes : Holding(q)' /\ Current(q)' = m
      BY DEF ClaimedKept, Watched
    <3>1. Kept(m) \/ \E q \in Routes : Holding(q) /\ Current(q) = m
      BY <2>0 DEF AllKept, ClaimedKept
    <3>2. ASSUME Holding(r), Current(r) = m PROVE Holding(r)' /\ Current(r)' = m
      <4>1. s.at = "unclaim" /\ s.i = route[r].i
        BY <1>6, <1>7, <3>2
      <4> QED
        BY <1>1, <3>2, <4>1 DEF Holding, Current, Batch
    <3> QED
      BY <1>3, <1>4, <3>1, <3>2
  <2>4. PassedKept'
    <3> SUFFICES ASSUME NEW q \in Routes, IsMeta(q), route'[q].at # "idle",
                        NEW i \in 1..(route'[q].i - 1), Processable(Batch(q)[i])
                 PROVE  Kept(Batch(q)[i])' \/ \E p \in Routes \ {q} : InHand(p, Batch(q)[i])'
      BY DEF PassedKept, IsMeta, Batch, Processable
    <3>1. route[q].at # "idle" /\ i \in 1..(route[q].i - 1)
      BY <1>1
    <3>2. Kept(Batch(q)[i]) \/ \E p \in Routes \ {q} : InHand(p, Batch(q)[i])
      BY <2>0, <3>1 DEF AllKept, PassedKept
    <3>3. CASE q = r
      BY <1>3, <1>4, <3>2, <3>3
    <3>4. CASE q # r
      <4>1. Batch(q) \in Batches /\ Batch(q)[i] \in ToSet(Batch(q))
        BY <3>1, OwnBatch DEF KeptInv
      <4>2. ~InHand(r, Batch(q)[i])
        <5>1. SUFFICES ASSUME InHand(r, Batch(q)[i]) PROVE FALSE
          OBVIOUS
        <5>2. Batch(q) = Batch(r)
          BY <1>5, <1>6, <4>1, <5>1
        <5>3. IsMeta(r)
          BY <5>2 DEF IsMeta
        <5> QED
          BY <2>2, <3>1, <3>4, <5>2, <5>3
      <4> QED
        BY <1>3, <1>4, <3>2, <4>2
    <3> QED
      BY <3>3, <3>4
  <2>5. AckedKept'
    <3> SUFFICES ASSUME NEW b \in acked', NEW m \in ToSet(b), Via[b] = "meta", Processable(m)
                 PROVE  Kept(m)' \/ \E q \in Routes : InHand(q, m)'
      BY DEF AckedKept, Processable
    <3>1. b \in acked
      BY DEF IsMeta
    <3>2. Kept(m) \/ \E q \in Routes : InHand(q, m)
      BY <2>0, <3>1 DEF AllKept, AckedKept
    <3>3. ~InHand(r, m)
      <4>1. b \in Batches
        BY <3>1 DEF KeptInv, IInv, TypeOK
      <4>2. SUFFICES ASSUME InHand(r, m) PROVE FALSE
        OBVIOUS
      <4>3. b = Batch(r)
        BY <1>5, <1>6, <4>1, <4>2
      <4> QED
        BY <2>2, <3>1, <4>3 DEF IsMeta
    <3> QED
      BY <1>3, <1>4, <3>2, <3>3
  <2> QED
    BY <2>3, <2>4, <2>5 DEF AllKept
<1> QED
  BY <1>2, <1>7 DEF KeptInv

-----------------------------------------------------------------------------
(* The steps. *)

LEMMA ReceiveKeeps ==
    ASSUME KeptInv, IInv', NEW r \in Routes, Receive(r)
    PROVE  KeptInv'
<1> DEFINE s == [at |-> "claim", i |-> 1]
<1>0. /\ route[r].at = "idle" /\ UNCHANGED <<acked, claimed, shed, jobs>>
      /\ faults' = faults \/ "answer_slow" \in faults'
      /\ faults \subseteq faults' /\ Batch(r) \notin acked
  BY DEF Receive, Unused, Fault
<1>1. route'[r] = s /\ \A q \in Routes : q # r => route'[q] = route[q]
  BY DEF Receive, KeptInv, IInv, TypeOK
<1>2. \A q \in Routes : q # r => /\ Current(q)' = Current(q) /\ Holding(q)' = Holding(q)
                                 /\ \A m : InHand(q, m)' = InHand(q, m)
  BY <1>1 DEF Current, Batch, Holding, InHand
<1>3. ~Holding(r) /\ \A m : ~InHand(r, m)
  BY <1>0 DEF Holding, InHand
<1>4. \A m : Kept(m)' = Kept(m)
  BY <1>0 DEF Kept, JobsOf
<1>5. OneCopy'
  <2> SUFFICES ASSUME "answer_slow" \notin faults'
               PROVE  /\ \A p, q \in Routes : Batch(p) = Batch(q) /\ route'[p].at # "idle"
                                              /\ route'[q].at # "idle" => p = q
                      /\ \A q \in Routes : route'[q].at # "idle" => Batch(q) \notin acked
    BY <1>0 DEF OneCopy, Batch
  <2>1. \A q \in Routes : Batch(q) = Batch(r) => route[q] = Unused
    BY DEF Receive, Fault
  <2>2. \A q \in Routes : Batch(q) = Batch(r) => route[q].at = "idle"
    BY <2>1 DEF Unused
  <2> QED
    BY <1>0, <1>1, <2>2 DEF KeptInv, OneCopy
<1>6. UnclaimIsFault' /\ EachInOneBatch'
  BY <1>0, <1>1 DEF KeptInv, UnclaimIsFault, EachInOneBatch
<1>7. ASSUME ~Lossy' PROVE AllKept'
  <2>0. AllKept
    BY <1>0, <1>7, LossyStays DEF KeptInv
  <2>1. ClaimedKept'
    BY <1>0, <1>2, <1>3, <1>4, <2>0 DEF AllKept, ClaimedKept, Watched
  <2>2. PassedKept'
    <3> SUFFICES ASSUME NEW q \in Routes, IsMeta(q), route'[q].at # "idle",
                        NEW i \in 1..(route'[q].i - 1), Processable(Batch(q)[i])
                 PROVE  Kept(Batch(q)[i])' \/ \E p \in Routes \ {q} : InHand(p, Batch(q)[i])'
      BY DEF PassedKept, IsMeta, Batch, Processable
    <3>1. q # r
      BY <1>1
    <3>2. Kept(Batch(q)[i]) \/ \E p \in Routes \ {q} : InHand(p, Batch(q)[i])
      BY <1>1, <2>0, <3>1 DEF AllKept, PassedKept
    <3> QED
      BY <1>2, <1>3, <1>4, <3>2
  <2>3. AckedKept'
    BY <1>0, <1>2, <1>3, <1>4, <2>0 DEF AllKept, AckedKept, Processable
  <2> QED
    BY <2>1, <2>2, <2>3 DEF AllKept
<1> QED
  BY <1>5, <1>6, <1>7 DEF KeptInv

LEMMA ClaimKeeps ==
    ASSUME KeptInv, IInv', NEW r \in Routes, Claim(r) \/ ClaimLegacy(r)
    PROVE  KeptInv'
<1>0. route[r].at = "claim" /\ UNCHANGED <<jobs, shed>> /\ ~Holding(r)
  BY DEF Claim, ClaimLegacy, Holding
<1>1. PICK m0 : m0 = Current(r)
  OBVIOUS
<1>2. CASE \/ Claim(r) /\ (~Processable(m0) \/ m0 \in claimed)
           \/ ClaimLegacy(r) /\ (~Processable(m0) \/ m0 \in claimed)
  <2>1. NextMessage(r)
    BY <1>1, <1>2 DEF Claim, ClaimLegacy
  <2>2. claimed' = claimed \/ (claimed' = claimed \cup {m0} /\ ~IsMeta(r))
    BY <1>1, <1>2 DEF Claim, ClaimLegacy
  <2>3. ASSUME ~Lossy, IsMeta(r), Processable(m0)
        PROVE  Kept(m0) \/ \E q \in Routes \ {r} : InHand(q, m0)
    <3>1. m0 \in claimed
      BY <1>2, <2>3
    <3>2. Watched(m0) /\ \A b \in Batches : m0 \in ToSet(b) => b = Batch(r)
      BY <1>0, <1>1, <2>3, OwnBatch DEF KeptInv, Watched, IsMeta
    <3>3. CASE Kept(m0)
      BY <3>3
    <3>4. ASSUME NEW q \in Routes, Holding(q), Current(q) = m0 PROVE InHand(q, m0) /\ q # r
      <4>1. q # r
        BY <1>0, <3>4
      <4>2. route[q].at # "unclaim"
        <5>1. SUFFICES ASSUME route[q].at = "unclaim" PROVE FALSE
          OBVIOUS
        <5>2. "answer_slow" \notin faults
          BY <2>3, <5>1 DEF KeptInv, UnclaimIsFault, Lossy
        <5>3. Batch(q) = Batch(r)
          BY <3>2, <3>4, <5>1, OwnBatch DEF KeptInv
        <5> QED
          BY <1>0, <4>1, <5>1, <5>2, <5>3 DEF KeptInv, OneCopy
      <4> QED
        BY <3>4, <4>1, <4>2 DEF Holding, InHand
    <3> QED
      BY <2>3, <3>1, <3>2, <3>3, <3>4 DEF KeptInv, AllKept, ClaimedKept
  <2>4. \A j \in DOMAIN jobs : j \in DOMAIN jobs' /\ jobs'[j].msg = jobs[j].msg
    BY <1>0
  <2>5. Kept(m0)' = Kept(m0)
    BY <1>0 DEF Kept, JobsOf
  <2> QED
    BY <1>0, <1>1, <2>1, <2>2, <2>3, <2>4, <2>5, DoneKeeps
<1>3. CASE ~(\/ Claim(r) /\ (~Processable(m0) \/ m0 \in claimed)
             \/ ClaimLegacy(r) /\ (~Processable(m0) \/ m0 \in claimed))
  <2>1. Goto(r, "limit") /\ UNCHANGED <<acked, faults>> /\ claimed' = claimed \cup {Current(r)}
    BY <1>1, <1>3 DEF Claim, ClaimLegacy
  <2> QED
    BY <1>0, <2>1, HoldKeeps
<1> QED
  BY <1>2, <1>3

LEMMA ClaimFailsKeeps ==
    ASSUME KeptInv, IInv', NEW r \in Routes, ClaimFails(r)
    PROVE  KeptInv'
<1>1. /\ route[r].at = "claim" /\ Moves(r, Unused) /\ Unused.at = "idle"
      /\ UNCHANGED <<jobs, shed>> /\ faults \subseteq faults'
      /\ acked' \subseteq acked \cup {Batch(r)} /\ (IsMeta(r) => acked' = acked)
      /\ (claimed' = claimed \/ Lossy')
  BY DEF ClaimFails, Moves, Unused, Serving, Fault, Lossy
<1>2. OneCopy' /\ UnclaimIsFault' /\ EachInOneBatch'
  BY <1>1, CopiesStay
<1>3. route'[r].at = "idle" /\ \A q \in Routes : q # r => route'[q] = route[q]
  BY <1>1, MovedRoutes DEF KeptInv, IInv
<1>4. \A q \in Routes : /\ Holding(q) => Holding(q)' /\ Current(q)' = Current(q)
                        /\ \A m : InHand(q, m) => InHand(q, m)'
  <2>1. ASSUME NEW q \in Routes, q # r
        PROVE  /\ Holding(q) => Holding(q)' /\ Current(q)' = Current(q)
               /\ \A m : InHand(q, m) => InHand(q, m)'
    BY <1>3, <2>1 DEF Current, Batch, Holding, InHand
  <2>2. ~Holding(r) /\ \A m : ~InHand(r, m)
    BY <1>1 DEF Holding, InHand
  <2> QED
    BY <2>1, <2>2
<1>5. \A m : Kept(m)' = Kept(m)
  BY <1>1 DEF Kept, JobsOf
<1>6. ASSUME ~Lossy' PROVE AllKept'
  <2>1. AllKept /\ claimed' = claimed
    BY <1>1, <1>6, LossyStays DEF KeptInv
  <2>2. ClaimedKept'
    BY <1>4, <1>5, <2>1 DEF AllKept, ClaimedKept, Watched
  <2>3. PassedKept'
    <3>1. \A q \in Routes : route'[q].at # "idle" => q # r /\ route'[q] = route[q]
      BY <1>3
    <3> QED
      BY <1>4, <1>5, <2>1, <3>1 DEF AllKept, PassedKept, IsMeta, Batch, Processable
  <2>4. AckedKept'
    BY <1>1, <1>4, <1>5, <2>1 DEF AllKept, AckedKept, Processable, IsMeta
  <2> QED
    BY <2>2, <2>3, <2>4 DEF AllKept
<1> QED
  BY <1>2, <1>6 DEF KeptInv

LEMMA CountHitKeeps ==
    ASSUME KeptInv, IInv', NEW r \in Routes, CountHit(r)
    PROVE  KeptInv'
<1>0. route[r].at = "limit" /\ UNCHANGED <<jobs, claimed>>
  BY DEF CountHit
<1>1. PICK m0 : m0 = Current(r)
  OBVIOUS
<1>2. CASE NextMessage(r) /\ shed' = shed \cup {m0}
  <2>1. Kept(m0)'
    BY <1>2 DEF Kept
  <2>2. \A j \in DOMAIN jobs : j \in DOMAIN jobs' /\ jobs'[j].msg = jobs[j].msg
    BY <1>0
  <2> QED
    BY <1>0, <1>1, <1>2, <2>1, <2>2, DoneKeeps
<1>3. CASE ~(NextMessage(r) /\ shed' = shed \cup {m0})
  <2>1. PICK step \in {"expire", "enqueue"} : Goto(r, step) /\ UNCHANGED <<acked, faults, shed>>
    BY <1>1, <1>3 DEF CountHit
  <2> QED
    BY <1>0, <2>1, HoldKeeps
<1> QED
  BY <1>2, <1>3

LEMMA EnqueueKeeps ==
    ASSUME KeptInv, IInv', NEW r \in Routes, Enqueue(r)
    PROVE  KeptInv'
<1>1. PICK m0 : m0 = Current(r)
  OBVIOUS
<1> DEFINE new == [msg |-> m0, at |-> "queued", tries |-> 0]
<1>2. /\ route[r].at = "enqueue" /\ jobs' = Append(jobs, new) /\ NextMessage(r)
      /\ UNCHANGED <<claimed, shed>> /\ new.msg = m0
  BY <1>1 DEF Enqueue
<1> HIDE DEF new
<1>3. jobs \in Seq(Job)
  BY DEF KeptInv, IInv, TypeOK
<1>4. \A j \in DOMAIN jobs : j \in DOMAIN jobs' /\ jobs'[j] = jobs[j]
  BY <1>2, <1>3
<1>5. Len(jobs) + 1 \in DOMAIN jobs' /\ jobs'[Len(jobs) + 1] = new
  BY <1>2, <1>3
<1>6. Kept(m0)'
  BY <1>2, <1>5 DEF Kept, JobsOf
<1> QED
  BY <1>1, <1>2, <1>4, <1>6, DoneKeeps

LEMMA LeavingKeep ==
    ASSUME KeptInv, IInv', NEW r \in Routes,
           EnqueueFails(r) \/ EnqueueFailsLegacy(r) \/ Unclaim(r) \/ RouteDies(r)
    PROVE  KeptInv'
<1>1. PICK m0 : m0 = Current(r)
  OBVIOUS
<1>2. Moves(r, Unused) <=> route' = [route EXCEPT ![r] = Unused]
  BY DEF Moves, Unused, Serving
<1>3. Unused.at = "idle"
  BY DEF Unused
<1>4. CASE EnqueueFails(r)
  <2> DEFINE s == [at |-> "unclaim", i |-> route[r].i]
  <2>1. /\ route[r].at = "enqueue" /\ Goto(r, "unclaim")
        /\ UNCHANGED <<acked, claimed, shed, jobs>>
        /\ faults \subseteq faults' /\ "enqueue_fails" \in faults'
    BY <1>4 DEF EnqueueFails, Fault
  <2>2. Moves(r, s) /\ s.at = "unclaim" /\ s.i = route[r].i
    BY <2>1, GoneTo DEF KeptInv, IInv
  <2> HIDE DEF s
  <2> QED
    BY <1>1, <2>1, <2>2, LeaveKeeps
<1>5. CASE EnqueueFailsLegacy(r)
  <2>1. /\ route[r].at = "enqueue" /\ Moves(r, Unused) /\ ~IsMeta(r)
        /\ UNCHANGED <<claimed, shed, jobs>> /\ faults \subseteq faults'
        /\ acked' = acked \cup {Batch(r)}
    BY <1>2, <1>5 DEF EnqueueFailsLegacy, Fault
  <2> QED
    BY <1>1, <1>3, <2>1, LeaveKeeps
<1>6. CASE Unclaim(r)
  <2>1. /\ route[r].at = "unclaim" /\ UNCHANGED <<acked, shed, jobs>> /\ Moves(r, Unused)
        /\ \/ claimed' = claimed \ {m0} /\ faults' = faults
           \/ claimed' = claimed /\ Lossy' /\ faults \subseteq faults'
    BY <1>1, <1>2, <1>6 DEF Unclaim, Answer, Fault, Lossy
  <2>2. "enqueue_fails" \in faults
    BY <2>1 DEF KeptInv, UnclaimIsFault
  <2>3. ~Lossy' => m0 \notin claimed' /\ "answer_slow" \notin faults'
    BY <2>1, <2>2 DEF Lossy
  <2> QED
    BY <1>1, <1>3, <2>1, <2>3, LeaveKeeps
<1>7. CASE RouteDies(r)
  <2>1. /\ route[r] # Unused /\ UNCHANGED <<acked, claimed, shed, jobs>> /\ Moves(r, Unused)
        /\ faults \subseteq faults' /\ Lossy'
    BY <1>2, <1>7 DEF RouteDies, Fault, Lossy
  <2>2. CASE route[r].at # "idle"
    BY <1>1, <1>3, <2>1, <2>2, LeaveKeeps
  <2>3. CASE route[r].at = "idle"
    <3>1. route'[r].at = "idle" /\ \A q \in Routes : q # r => route'[q] = route[q]
      BY <1>3, <2>1, MovedRoutes DEF KeptInv, IInv
    <3>2. OneCopy' /\ UnclaimIsFault' /\ EachInOneBatch'
      BY <2>1, <2>3, <3>1 DEF KeptInv, OneCopy, UnclaimIsFault, EachInOneBatch, Batch
    <3> QED
      BY <2>1, <3>2 DEF KeptInv
  <2> QED
    BY <2>2, <2>3
<1> QED
  BY <1>4, <1>5, <1>6, <1>7

LEMMA WorkerKeeps ==
    ASSUME KeptInv, IInv',
           \/ \E j \in DOMAIN jobs : JobStep(j)
           \/ \E c \in Chats : WindowEnds(c) \/ LockExpires(c)
           \/ WorkerDies
    PROVE  KeptInv'
<1>1. UNCHANGED <<acked, route, claimed, shed>>
  BY DEF JobStep, Pick, FetchMedia, StoreMedia, AcquireLock, Finish, WindowEnds, LockExpires,
         WorkerDies, WorkerOnly
<1>2. faults \subseteq faults'
  BY DEF JobStep, Pick, FetchMedia, StoreMedia, AcquireLock, Finish, WindowEnds, LockExpires,
         WorkerDies, Fault
<1>3. jobs \in Seq(Job)
  BY DEF KeptInv, IInv, TypeOK
<1>4. DOMAIN jobs' = DOMAIN jobs /\ \A j \in DOMAIN jobs : jobs'[j].msg = jobs[j].msg
  <2>1. ASSUME NEW j \in DOMAIN jobs, NEW step, JobTo(j, step)
        PROVE  DOMAIN jobs' = DOMAIN jobs /\ \A i \in DOMAIN jobs : jobs'[i].msg = jobs[i].msg
    <3>1. \A i \in DOMAIN jobs : jobs[i] \in Job
      BY <1>3
    <3>2. [jobs[j] EXCEPT !.at = step].msg = jobs[j].msg
      BY <3>1 DEF Job
    <3> QED
      BY <1>3, <2>1, <3>2 DEF JobTo
  <2>2. ASSUME NEW j \in DOMAIN jobs, Pick(j)
        PROVE  DOMAIN jobs' = DOMAIN jobs /\ \A i \in DOMAIN jobs : jobs'[i].msg = jobs[i].msg
    <3>1. PICK t, step : jobs' = [jobs EXCEPT ![j] = [jobs[j] EXCEPT !.tries = t, !.at = step]]
                         \/ JobTo(j, step)
      BY <2>2 DEF Pick
    <3>2. jobs[j] \in Job
      BY <1>3
    <3>3. [jobs[j] EXCEPT !.tries = t, !.at = step].msg = jobs[j].msg
      BY <3>2 DEF Job
    <3> QED
      BY <1>3, <2>1, <3>1, <3>3
  <2>3. ASSUME WorkerDies
        PROVE  DOMAIN jobs' = DOMAIN jobs /\ \A i \in DOMAIN jobs : jobs'[i].msg = jobs[i].msg
    <3>1. \A i \in DOMAIN jobs : [jobs[i] EXCEPT !.at = "queued"].msg = jobs[i].msg
      BY <1>3 DEF Job
    <3> QED
      BY <2>3, <3>1 DEF WorkerDies
  <2>4. ASSUME NEW j \in DOMAIN jobs, JobStep(j), ~Pick(j) PROVE \E step : JobTo(j, step)
    BY <2>4 DEF JobStep, FetchMedia, StoreMedia, AcquireLock, Finish
  <2> QED
    BY <2>1, <2>2, <2>3, <2>4 DEF WindowEnds, LockExpires
<1> QED
  BY <1>1, <1>2, <1>4, AsideKeeps

LEMMA KeptNext == KeptInv /\ [Next]_vars => KeptInv'
<1> SUFFICES ASSUME KeptInv, [Next]_vars PROVE KeptInv'
  OBVIOUS
<1>0. IInv'
  BY InvNext DEF KeptInv
<1>1. CASE UNCHANGED vars
  BY <1>0, <1>1, AsideKeeps DEF vars
<1>2. ASSUME NEW r \in Routes, StartWindow(r) \/ LimitFails(r) PROVE KeptInv'
  <2>1. /\ route[r].at \in {"limit", "expire"} /\ Goto(r, "enqueue")
        /\ UNCHANGED <<acked, shed, jobs, claimed>> /\ faults \subseteq faults'
    BY <1>2 DEF StartWindow, LimitFails, Fault
  <2> QED
    BY <1>0, <2>1, HoldKeeps
<1>3. ASSUME NEW r \in Routes, RouteStep(r) PROVE KeptInv'
  BY <1>0, <1>2, <1>3, ClaimKeeps, ClaimFailsKeeps, CountHitKeeps, EnqueueKeeps, LeavingKeep
     DEF RouteStep
<1> QED
  BY <1>0, <1>1, <1>3, ReceiveKeeps, LeavingKeep, WorkerKeeps DEF Next, Work

LEMMA KeptInit == EachInOneBatch /\ Init => KeptInv
<1> SUFFICES ASSUME EachInOneBatch, Init PROVE KeptInv
  OBVIOUS
<1>1. OneCopy /\ UnclaimIsFault /\ AllKept
  BY DEF Init, Unused, OneCopy, UnclaimIsFault, AllKept, ClaimedKept, PassedKept, AckedKept
<1> QED
  BY <1>1, InvInit DEF KeptInv

\* The claim of the Meta route loses no message: once the provider has its 200 and
\* repeats nothing, every message has a job, was shed or is still with a copy of the
\* POST, whatever failed but for the failures named in Lossy.  It rests on the
\* provider repeating a POST as it was: TLC finds a lost message when two POSTs
\* share one (Accounted).
THEOREM NothingIsLost == EachInOneBatch /\ Spec => []Accounted
<1>1. KeptInv => Accounted
  BY AcknowledgedIs DEF KeptInv, AllKept
<1> QED
  BY <1>1, KeptInit, KeptNext, PTL DEF Spec

=============================================================================
