------------------------------- MODULE Pipeline -------------------------------
(***************************************************************************)
(* From the provider's webhook POST to the orchestrator.                   *)
(*                                                                         *)
(* The provider POSTs batches of messages and repeats a batch until it is  *)
(* answered 200.  A webhook route claims each message id in Redis, counts  *)
(* the chat's messages and enqueues one ARQ job per message.  The worker   *)
(* runs several jobs at once; a job takes the Redis lock of its chat, runs *)
(* the orchestrator and releases the lock, or is deferred while the lock   *)
(* is taken.  Every Redis or queue call is a step of its own.              *)
(*                                                                         *)
(* Each kind of failure happens at most once in an execution and is        *)
(* recorded in faults; the properties name the failures that excuse them.  *)
(***************************************************************************)
EXTENDS Naturals, FiniteSets, Sequences, SequencesExt

CONSTANTS
    Messages,      \* the provider's message ids
    ChatOf,        \* ChatOf[m]: the chat that m belongs to
    Sort,          \* Sort[m]: "text", "media" or "other" (reaction, sticker...)
    Batches,       \* the POSTs, each a sequence of messages
    Via,           \* Via[b]: the route of the POST, "meta" or "legacy"
    Copies,        \* deliveries of one batch that are served at the same time
    RateLimit,     \* messages of a chat per window (50)
    MaxTries,      \* WorkerSettings.max_tries (5)
    MaxPosts,      \* bound: deliveries of a batch
    MaxFaults      \* bound: failures in an execution

FaultKinds == {"answer_lost",    \* the provider does not get the answer
               "answer_slow",    \* the provider repeats a POST that is being served
               "route_dies",     \* the API process stops between two calls
               "claim_fails",    \* SET webhook:<id> raises and nothing is written,
               "claim_unheard",  \* or it is written and only the reply is lost
               "limit_error",    \* check_rate_limit meets a Redis error
               "enqueue_fails", "unclaim_fails",
               "worker_dies",
               "lock_expires",   \* a job outlives the TTL of its lock (10 s)
               "lock_error"}     \* acquire_chat_lock meets a Redis error

Chats == {ChatOf[m] : m \in Messages}
Routes == Batches \X (1..Copies)    \* the coroutines serving POSTs

ASSUME MessagesAssumption ==
    /\ Sort \in [Messages -> {"text", "media", "other"}]
    /\ Batches \subseteq (Seq(Messages) \ {<<>>})
    /\ Via \in [Batches -> {"meta", "legacy"}]
ASSUME PipelineBounds ==
    /\ Copies \in Nat \ {0}
    /\ RateLimit \in Nat \ {0} /\ MaxTries \in Nat \ {0}
    /\ MaxPosts \in Nat /\ MaxFaults \in Nat

VARIABLES
    posts,     \* deliveries of each batch so far
    acked,     \* batches the provider will not repeat
    route,     \* what each route coroutine is doing
    claimed,   \* message ids with a key webhook:<id>
    hits,      \* rate_limit:<chat>
    expiring,  \* chats whose rate_limit key has an expiry
    shed,      \* history: messages the shield dropped
    jobs,      \* the ARQ jobs in the order they were enqueued
    lock,      \* chats with a key lock:chat:<chat>
    handled,   \* history: messages given to the orchestrator, in that order
    faults     \* the kinds of failures that happened

vars == <<posts, acked, route, claimed, hits, expiring, shed, jobs, lock,
          handled, faults>>

-----------------------------------------------------------------------------
Serving == [at: {"idle", "claim", "limit", "expire", "enqueue", "unclaim"},
            i: Nat]    \* the message of the batch being worked on
Unused == [at |-> "idle", i |-> 0]

Job == [msg: Messages, tries: Nat,
        at: {"queued", "media", "upload", "lock", "run", "done", "dropped"}]
Settled == {"done", "dropped"}
InWorker == {"media", "upload", "lock", "run"}

Init ==
    /\ posts = [b \in Batches |-> 0] /\ acked = {}
    /\ route = [r \in Routes |-> Unused]
    /\ claimed = {} /\ shed = {}
    /\ hits = [c \in Chats |-> 0] /\ expiring = {}
    /\ jobs = <<>> /\ lock = {} /\ handled = <<>>
    /\ faults = {}

Fault(kind) ==
    /\ kind \notin faults /\ Cardinality(faults) < MaxFaults
    /\ faults' = faults \cup {kind}

-----------------------------------------------------------------------------
(* The routes.                                                             *)

Batch(r)   == r[1]
Current(r) == Batch(r)[route[r].i]
ChatAt(r)  == ChatOf[Current(r)]
IsMeta(r)  == Via[Batch(r)] = "meta"

\* normalize_meta_message: not None
Processable(m) == Sort[m] # "other"

Goto(r, step) == route' = [route EXCEPT ![r].at = step]

\* the answer: 200 ends the delivery of the batch, unless it is lost
Answer(r, code) ==
    /\ route' = [route EXCEPT ![r] = Unused]
    /\ \/ /\ acked' = IF code = 200 THEN acked \cup {Batch(r)} ELSE acked
          /\ UNCHANGED faults
       \/ code = 200 /\ Fault("answer_lost") /\ UNCHANGED acked

\* go on with the next message of the batch, or answer 200 after the last
NextMessage(r) ==
    IF route[r].i < Len(Batch(r))
    THEN /\ route' = [route EXCEPT ![r].i = @ + 1, ![r].at = "claim"]
         /\ UNCHANGED <<acked, faults>>
    ELSE Answer(r, 200)

\* the provider POSTs a batch it has had no 200 for (copies are numbered from 1)
Receive(r) ==
    /\ route[r] = Unused /\ Batch(r) \notin acked /\ posts[Batch(r)] < MaxPosts
    /\ \A k \in 1..(r[2] - 1) : route[<<Batch(r), k>>] # Unused
    /\ IF \E q \in Routes : Batch(q) = Batch(r) /\ route[q] # Unused
       THEN Fault("answer_slow") ELSE UNCHANGED faults
    /\ posts' = [posts EXCEPT ![Batch(r)] = @ + 1]
    /\ route' = [route EXCEPT ![r] = [at |-> "claim", i |-> 1]]
    /\ UNCHANGED <<acked, claimed, hits, expiring, shed, jobs, lock, handled>>

\* mutants: the id is looked up but the key is written without NX; the key is
\* written only once the job is queued
ClaimWithoutNX(r) ==
    /\ route[r].at = "claim" /\ IsMeta(r)
    /\ IF ~Processable(Current(r))
       THEN NextMessage(r) /\ UNCHANGED claimed
       ELSE /\ claimed' = claimed \cup {Current(r)}
            /\ Goto(r, "limit") /\ UNCHANGED <<acked, faults>>
    /\ UNCHANGED <<posts, hits, expiring, shed, jobs, lock, handled>>
ClaimNothing(r) ==
    /\ route[r].at = "claim" /\ IsMeta(r)
    /\ IF ~Processable(Current(r)) \/ Current(r) \in claimed
       THEN NextMessage(r)
       ELSE Goto(r, "limit") /\ UNCHANGED <<acked, faults>>
    /\ UNCHANGED <<posts, claimed, hits, expiring, shed, jobs, lock, handled>>

\* SET webhook:<id> NX, after skipping what cannot be processed
Claim(r) ==
    /\ route[r].at = "claim" /\ IsMeta(r)
    /\ IF ~Processable(Current(r)) \/ Current(r) \in claimed
       THEN NextMessage(r) /\ UNCHANGED claimed
       ELSE /\ claimed' = claimed \cup {Current(r)}
            /\ Goto(r, "limit") /\ UNCHANGED <<acked, faults>>
    /\ UNCHANGED <<posts, hits, expiring, shed, jobs, lock, handled>>

\* the legacy route claims first and looks at the message afterwards
ClaimLegacy(r) ==
    /\ route[r].at = "claim" /\ ~IsMeta(r)
    /\ IF Current(r) \in claimed
       THEN NextMessage(r) /\ UNCHANGED claimed
       ELSE /\ claimed' = claimed \cup {Current(r)}
            /\ IF ~Processable(Current(r))
               THEN NextMessage(r)
               ELSE Goto(r, "limit") /\ UNCHANGED <<acked, faults>>
    /\ UNCHANGED <<posts, hits, expiring, shed, jobs, lock, handled>>

\* SET raises: the Meta route answers 503 and releases no claim, the legacy route 200
ClaimFails(r) ==
    /\ route[r].at = "claim" /\ (IsMeta(r) => Processable(Current(r)))
    /\ \/ Fault("claim_fails") /\ UNCHANGED claimed
       \/ /\ Current(r) \notin claimed /\ Fault("claim_unheard")
          /\ claimed' = claimed \cup {Current(r)}
    /\ route' = [route EXCEPT ![r] = Unused]
    /\ acked' = IF IsMeta(r) THEN acked ELSE acked \cup {Batch(r)}
    /\ UNCHANGED <<posts, hits, expiring, shed, jobs, lock, handled>>

\* check_rate_limit: INCR, and after it EXPIRE when the counter is new
CountHit(r) ==
    /\ route[r].at = "limit"
    /\ hits' = [hits EXCEPT ![ChatAt(r)] = @ + 1]
    /\ CASE hits[ChatAt(r)] = 0 ->
              Goto(r, "expire") /\ UNCHANGED <<acked, faults, shed>>
         [] hits[ChatAt(r)] \in 1..(RateLimit - 1) ->
              Goto(r, "enqueue") /\ UNCHANGED <<acked, faults, shed>>
         [] OTHER -> shed' = shed \cup {Current(r)} /\ NextMessage(r)
    /\ UNCHANGED <<posts, claimed, expiring, jobs, lock, handled>>

\* mutant: the counter gets no expiry
StartWindowForgotten(r) ==
    /\ route[r].at = "expire"
    /\ Goto(r, "enqueue")
    /\ UNCHANGED <<posts, acked, claimed, hits, expiring, shed, jobs, lock, handled, faults>>

StartWindow(r) ==
    /\ route[r].at = "expire"
    /\ expiring' = expiring \cup {ChatAt(r)}
    /\ Goto(r, "enqueue")
    /\ UNCHANGED <<posts, acked, claimed, hits, shed, jobs, lock, handled, faults>>

\* check_rate_limit fails open: INCR, done or not, or EXPIRE raises, and the
\* message goes on; a counter of one may be left without an expiry
LimitFails(r) ==
    /\ route[r].at \in {"limit", "expire"}
    /\ Fault("limit_error")
    /\ \/ UNCHANGED hits
       \/ route[r].at = "limit" /\ hits' = [hits EXCEPT ![ChatAt(r)] = @ + 1]
    /\ Goto(r, "enqueue")
    /\ UNCHANGED <<posts, acked, claimed, expiring, shed, jobs, lock, handled>>

Enqueue(r) ==
    /\ route[r].at = "enqueue"
    /\ jobs' = Append(jobs, [msg |-> Current(r), at |-> "queued", tries |-> 0])
    /\ NextMessage(r)
    /\ UNCHANGED <<posts, claimed, hits, expiring, shed, lock, handled>>

\* mutant: 503 without releasing the claim
EnqueueFailsKeepingClaim(r) ==
    /\ route[r].at = "enqueue" /\ IsMeta(r)
    /\ Fault("enqueue_fails")
    /\ route' = [route EXCEPT ![r] = Unused]
    /\ UNCHANGED <<posts, acked, claimed, hits, expiring, shed, jobs, lock, handled>>

\* the Meta route goes on to release the claim
EnqueueFails(r) ==
    /\ route[r].at = "enqueue" /\ IsMeta(r)
    /\ Fault("enqueue_fails")
    /\ Goto(r, "unclaim")
    /\ UNCHANGED <<posts, acked, claimed, hits, expiring, shed, jobs, lock, handled>>

\* the legacy route answers 200 to whatever was raised, and keeps the claim
EnqueueFailsLegacy(r) ==
    /\ route[r].at = "enqueue" /\ ~IsMeta(r)
    /\ Fault("enqueue_fails")
    /\ route' = [route EXCEPT ![r] = Unused]
    /\ acked' = acked \cup {Batch(r)}
    /\ UNCHANGED <<posts, claimed, hits, expiring, shed, jobs, lock, handled>>

\* mutant: the claim is released but the answer is 200
UnclaimAnswering200(r) ==
    /\ route[r].at = "unclaim"
    /\ claimed' = claimed \ {Current(r)} /\ Answer(r, 200)
    /\ UNCHANGED <<posts, hits, expiring, shed, jobs, lock, handled>>

\* DELETE webhook:<id> and 503; when the delete raises too, only the 503
Unclaim(r) ==
    /\ route[r].at = "unclaim"
    /\ \/ claimed' = claimed \ {Current(r)} /\ Answer(r, 503)
       \/ /\ Fault("unclaim_fails") /\ UNCHANGED <<claimed, acked>>
          /\ route' = [route EXCEPT ![r] = Unused]
    /\ UNCHANGED <<posts, hits, expiring, shed, jobs, lock, handled>>

RouteDies(r) ==
    /\ route[r] # Unused
    /\ Fault("route_dies")
    /\ route' = [route EXCEPT ![r] = Unused]
    /\ UNCHANGED <<posts, acked, claimed, hits, expiring, shed, jobs, lock, handled>>

\* the counter's key expires 60 s after its first hit
WindowEnds(c) ==
    /\ c \in expiring
    /\ expiring' = expiring \ {c}
    /\ hits' = [hits EXCEPT ![c] = 0]
    /\ UNCHANGED <<posts, acked, route, claimed, shed, jobs, lock, handled, faults>>

-----------------------------------------------------------------------------
(* The worker.                                                             *)

JobsOf(m) == {j \in DOMAIN jobs : jobs[j].msg = m}
ChatOfJob(j) == ChatOf[jobs[j].msg]
JobTo(j, step) == jobs' = [jobs EXCEPT ![j].at = step]
WorkerOnly == UNCHANGED <<posts, acked, route, claimed, hits, expiring, shed>>

\* ARQ starts a job, or fails it for good when it was started MaxTries times;
\* the lock is asked for only after the media is fetched
Pick(j) ==
    /\ jobs[j].at = "queued"
    /\ IF jobs[j].tries < MaxTries
       THEN jobs' = [jobs EXCEPT ![j].tries = @ + 1,
                         ![j].at = IF Sort[jobs[j].msg] = "media" THEN "media" ELSE "lock"]
       ELSE JobTo(j, "dropped")
    /\ WorkerOnly /\ UNCHANGED <<lock, handled, faults>>

\* fetch_meta_media: two calls to Meta.  A picture that is too large or cannot be
\* fetched is left out of its message.
FetchMedia(j) ==
    /\ jobs[j].at = "media"
    /\ JobTo(j, "upload") \/ JobTo(j, "lock")
    /\ WorkerOnly /\ UNCHANGED <<lock, handled, faults>>

\* _resolve_inbound_media goes on to store it; it never raises.
StoreMedia(j) ==
    /\ jobs[j].at = "upload"
    /\ JobTo(j, "lock")
    /\ WorkerOnly /\ UNCHANGED <<lock, handled, faults>>

\* mutants: the release in the finally clause also runs when the lock was busy;
\* Retry is raised after the lock was taken
AcquireLockReleasing(j) ==
    /\ jobs[j].at = "lock"
    /\ IF ChatOfJob(j) \in lock
       THEN JobTo(j, "queued") /\ lock' = lock \ {ChatOfJob(j)} /\ UNCHANGED handled
       ELSE /\ lock' = lock \cup {ChatOfJob(j)}
            /\ JobTo(j, "run") /\ handled' = Append(handled, jobs[j].msg)
    /\ WorkerOnly /\ UNCHANGED faults
AcquireLockAndRetry(j) ==
    /\ jobs[j].at = "lock"
    /\ lock' = lock \cup {ChatOfJob(j)}
    /\ IF ChatOfJob(j) \in lock \/ Sort[jobs[j].msg] = "media"
       THEN JobTo(j, "queued") /\ UNCHANGED handled
       ELSE JobTo(j, "run") /\ handled' = Append(handled, jobs[j].msg)
    /\ WorkerOnly /\ UNCHANGED faults

\* acquire_chat_lock: taken, busy (Retry), or a Redis error: go on without it
AcquireLock(j) ==
    /\ jobs[j].at = "lock"
    /\ \/ /\ ChatOfJob(j) \notin lock
          /\ lock' = lock \cup {ChatOfJob(j)}
          /\ JobTo(j, "run") /\ handled' = Append(handled, jobs[j].msg)
          /\ UNCHANGED faults
       \/ /\ ChatOfJob(j) \in lock
          /\ JobTo(j, "queued") /\ UNCHANGED <<lock, handled, faults>>
       \/ /\ Fault("lock_error")
          /\ JobTo(j, "run") /\ handled' = Append(handled, jobs[j].msg)
          /\ UNCHANGED lock
    /\ WorkerOnly

\* the orchestrator returns, or raises (a timeout of the job included) and the
\* customer gets an apology; release_chat_lock deletes the key, whoever set it
Finish(j) ==
    /\ jobs[j].at = "run"
    /\ JobTo(j, "done")
    /\ lock' = lock \ {ChatOfJob(j)}
    /\ WorkerOnly /\ UNCHANGED <<handled, faults>>

\* the key expires under a running job, or after the worker that set it died
LockExpires(c) ==
    /\ c \in lock
    /\ IF \E j \in DOMAIN jobs : jobs[j].at = "run" /\ ChatOfJob(j) = c
       THEN Fault("lock_expires") ELSE UNCHANGED faults
    /\ lock' = lock \ {c}
    /\ WorkerOnly /\ UNCHANGED <<jobs, handled>>

\* ARQ starts the jobs of a dead worker again; their locks stay
WorkerDies ==
    /\ \E j \in DOMAIN jobs : jobs[j].at \in InWorker
    /\ Fault("worker_dies")
    /\ jobs' = [j \in DOMAIN jobs |->
                  IF jobs[j].at \in InWorker
                  THEN [jobs[j] EXCEPT !.at = "queued"] ELSE jobs[j]]
    /\ WorkerOnly /\ UNCHANGED <<lock, handled>>

-----------------------------------------------------------------------------
RouteStep(r) == \/ Claim(r) \/ ClaimLegacy(r) \/ ClaimFails(r)
                \/ CountHit(r) \/ StartWindow(r) \/ LimitFails(r)
                \/ Enqueue(r) \/ EnqueueFails(r) \/ EnqueueFailsLegacy(r) \/ Unclaim(r)
JobStep(j)   == Pick(j) \/ FetchMedia(j) \/ StoreMedia(j) \/ AcquireLock(j) \/ Finish(j)

\* what the program, the provider and the expiry of keys do by themselves
Work ==
    \/ \E r \in Routes : Receive(r) \/ RouteStep(r)
    \/ \E c \in Chats : WindowEnds(c) \/ LockExpires(c)
    \/ \E j \in DOMAIN jobs : JobStep(j)

Next == Work \/ (\E r \in Routes : RouteDies(r)) \/ WorkerDies

Spec == Init /\ [][Next]_vars

(* Something goes on while something can: a coroutine is resumed, the      *)
(* provider repeats what was not answered, keys with an expiry expire, and *)
(* ARQ starts what is in the queue.  No step is promised before another.   *)
FairSpec == Spec /\ WF_vars(Work)

-----------------------------------------------------------------------------
(* Properties                                                              *)

TypeOK ==
    /\ posts \in [Batches -> 0..MaxPosts] /\ acked \subseteq Batches
    /\ route \in [Routes -> Serving]
    /\ claimed \subseteq Messages /\ shed \subseteq claimed
    /\ hits \in [Chats -> Nat] /\ expiring \subseteq Chats
    /\ jobs \in Seq(Job) /\ lock \subseteq Chats /\ handled \in Seq(Messages)
    /\ faults \subseteq FaultKinds

Times(m) == Cardinality({i \in DOMAIN handled : handled[i] = m})

\* What may lose a message: the process stops between claim and job, or the claim
\* is written although its call raised, or the release of a claim fails like the
\* enqueueing did; or the enqueueing fails while a copy of the POST, which has found
\* the claim, is answered with 200.
Lossy == \/ faults \cap {"route_dies", "claim_unheard", "unclaim_fails"} # {}
         \/ {"answer_slow", "enqueue_fails"} \subseteq faults

\* A batch the Meta route has answered with 200 is not sent again.  Every message
\* of it that can be processed has a job by then, or was shed by the rate limit,
\* or is still with another copy of the POST: a claim does not outlive its failed
\* enqueueing.
Accounted ==
    ~Lossy =>
        \A b \in acked : \A m \in ToSet(b) :
            Via[b] = "meta" /\ Processable(m) =>
                \/ JobsOf(m) # {} \/ m \in shed
                \/ \E r \in Routes : route[r].at \in {"limit", "expire", "enqueue"} /\ Current(r) = m

\* However often a batch is repeated, and whatever failed in between, a message
\* is enqueued once, and is given to the orchestrator more than once only when
\* a worker died with it.
HandledOnce ==
    \A m \in Messages : /\ Cardinality(JobsOf(m)) <= 1
                        /\ Times(m) > 1 => "worker_dies" \in faults

\* The chat lock: two messages of one chat are in the orchestrator together only
\* if a job outlived the TTL of its lock or Redis failed, never because a worker
\* died and left its lock behind.
OneJobPerChat ==
    faults \cap {"lock_expires", "lock_error"} = {} =>
        \A j, k \in DOMAIN jobs :
            jobs[j].at = "run" /\ jobs[k].at = "run" /\ j # k => ChatOfJob(j) # ChatOfJob(k)

\* A message is given up after MaxTries starts only because others of its
\* chat got through meanwhile, or because a worker died: two messages never
\* starve each other of the lock.
DroppedBehindAnother ==
    \A j \in DOMAIN jobs : jobs[j].at = "dropped" =>
        \/ "worker_dies" \in faults
        \/ \E i \in DOMAIN handled :
             handled[i] # jobs[j].msg /\ ChatOf[handled[i]] = ChatOfJob(j)

\* Through failed enqueueings, lost answers and dead workers there always comes
\* a moment when every message the Meta route has received is handled (or ended
\* by an apology), given up behind a busy chat, or shed; but for the
\* failures that may lose a message.
Received(m) == \E b \in Batches : Via[b] = "meta" /\ m \in ToSet(b) /\ posts[b] > 0
Ended(m) == m \in shed \/ \E j \in JobsOf(m) : jobs[j].at \in Settled
BacklogDrains ==
    []<>(~Lossy =>
           \A m \in Messages : Processable(m) /\ Received(m) => Ended(m))

\* A chat that has reached the rate limit is let through again, unless a route has
\* counted a first hit without giving the counter its expiry: it died there, or
\* Redis failed it and check_rate_limit let the message through.
ShieldLifts == \A c \in Chats : hits[c] >= RateLimit ~>
                                  hits[c] = 0 \/ faults \cap {"route_dies", "limit_error"} # {}

=============================================================================
