-------------------------- MODULE Conversation_proofs --------------------------
(***************************************************************************)
(* What the order of the gates, the history's cutoff and the questions of  *)
(* the intake promise for any number of leads and any order of messages.   *)
(***************************************************************************)
EXTENDS Conversation, Integers, FiniteSetTheorems, SequenceTheorems, WellFoundedInduction, TLAPS

-----------------------------------------------------------------------------
(* The inductive invariant.                                                *)

Present == Having(Statuses \ {"absent"})

\* the order lists exactly the leads there are
Listed == order \in Seq(Requests) /\ Range(order) = Present /\ IsInjective(order)

\* a lead is being worked on by the handler
AtWork == {"address", "facts", "assigned", "matched", "deal", "park"}

\* the handler's copy of the state is one of those a gate falls through with,
\* and the lead it works on is there
JobWhole == /\ job.s \in {"idle", "fresh", "address_left", "customer_mode"}
            /\ job.lead \in Present \cup {0} /\ (job.at \in AtWork => job.lead # 0)
            /\ job.at \in Reading => job.ask \in Asks
            /\ job.at \in Reading /\ job.ask # "dispatch" => job.lead # 0

\* a customer is asked for consent only without having given it, and has no menu
Consenting == role = "customer" => /\ state # "pro_mode"
                                   /\ consent = "accepted" => state # "awaiting_consent"

\* ConsentFirst, up to the end of the handler
ConsentGiven == job.at \in Reading \cup Thinking \cup {"deal", "park"} \/ Present # {}
                    => role # "customer" \/ consent = "accepted"

\* a lead ended in an era that is over; nothing is to be cleared before there is one
Past == \A l \in Requests : /\ lead[l].ended < era
                            /\ lead[l].status = "absent" => ~lead[l].clears

\* a history that is read from the database is younger than the jobs that were
\* completed when its message came, and a message without a lead reads it there
ReadsPast ==
    /\ job.at \in Reading => job.began <= era
    /\ job.at = "history" /\ job.lead = 0 => context = 0
    /\ job.at = "cache" => \A l \in Requests :
          lead[l].status \in Rated /\ lead[l].ended < job.began => lead[l].ended < job.given

\* a handler that found no active lead still finds none being taken in
OneContacted ==
    /\ \A k, l \in Having({"contacted"}) : k = l
    /\ job.at \in Reading \cup {"dispatch"} /\ job.lead = 0 => Having({"contacted"}) = {}

\* what was booked when the text was read has been asked about, or has ended
SeenAsked == job.at \in Reading \cup {"dispatch"} /\ job.lead = 0 /\ job.msg = "text"
                => \A b \in job.seen : lead[b].status \in Ended \/ lead[b].prompted

IInv == /\ TypeOK /\ JobWhole /\ Consenting /\ ConsentGiven /\ Past /\ ReadsPast
        /\ OneContacted /\ SeenAsked

\* what a step may do to the cache: the step of NothingOfAFinishedJob
NoneOlder == \A l \in Requests :
                OlderThan(l)' => OlderThan(l) \/ (Cache /\ job.began <= lead[l].ended)

\* what is shown of every step
Well == IInv' /\ NoneOlder

-----------------------------------------------------------------------------
(* Extremes, and the first element of a sequence.                          *)

LEMMA Smallest ==
    ASSUME NEW S \in SUBSET Nat, S # {}
    PROVE  Min(S) \in S /\ \A y \in S : Min(S) <= y
<1>1. PICK x \in S : \A y \in S : ~(<<y, x>> \in OpToRel(<, Nat))
  BY NatLessThanWellFounded, WFMin
<1>2. ASSUME NEW y \in S
      PROVE  x <= y
  <2>1. <<y, x>> \in Nat \X Nat /\ <<y, x>> \notin {ss \in Nat \X Nat : ss[1] < ss[2]}
    BY <1>1 DEF OpToRel
  <2>2. ~(y < x)
    BY <2>1
  <2> QED
    BY <2>2
<1> QED
  BY <1>2 DEF Min

LEMMA Largest ==
    ASSUME NEW S \in SUBSET Nat, S # {}, NEW b \in Nat, \A y \in S : y <= b
    PROVE  Max(S) \in S /\ \A y \in S : Max(S) >= y
<1> DEFINE T == {b - y : y \in S}
<1>1. T \in SUBSET Nat /\ T # {}
  <2>1. \A y \in S : b - y \in Nat
    OBVIOUS
  <2> QED
    BY <2>1
<1>2. Min(T) \in T /\ \A t \in T : Min(T) <= t
  BY <1>1, Smallest
<1>3. PICK x \in S : Min(T) = b - x
  BY <1>2
<1>4. ASSUME NEW y \in S
      PROVE  x >= y
  <2>1. b - y \in T
    OBVIOUS
  <2>2. b - x <= b - y
    BY <1>2, <1>3, <2>1
  <2> QED
    BY <2>2
<1> QED
  BY <1>4 DEF Max

LEMMA FirstInSeq ==
    ASSUME NEW X, NEW s \in Seq(X), NEW e, \E i \in 1..Len(s) : s[i] = e
    PROVE  LET i == SelectInSeq(s, LAMBDA v : v = e)
           IN i \in 1..Len(s) /\ s[i] = e
<1> DEFINE I == {i \in 1..Len(s) : s[i] = e}
<1>1. I \in SUBSET Nat /\ I # {}
  OBVIOUS
<1>2. Min(I) \in I
  BY <1>1, Smallest
<1> QED
  BY <1>1, <1>2 DEF SelectInSeq

LEMMA Removed ==
    ASSUME NEW X, NEW s \in Seq(X), NEW k \in 1..Len(s)
    PROVE  /\ RemoveAt(s, k) \in Seq(X)
           /\ Len(RemoveAt(s, k)) = Len(s) - 1
           /\ \A i \in 1..(Len(s) - 1) : RemoveAt(s, k)[i] = IF i < k THEN s[i] ELSE s[i + 1]
<1>1. /\ SubSeq(s, 1, k - 1) \in Seq(X) /\ Len(SubSeq(s, 1, k - 1)) = k - 1
      /\ \A i \in 1..(k - 1) : SubSeq(s, 1, k - 1)[i] = s[i]
  BY SubSeqProperties
<1>2. /\ SubSeq(s, k + 1, Len(s)) \in Seq(X) /\ Len(SubSeq(s, k + 1, Len(s))) = Len(s) - k
      /\ \A i \in 1..(Len(s) - k) : SubSeq(s, k + 1, Len(s))[i] = s[k + i]
  BY SubSeqProperties
<1> DEFINE a == SubSeq(s, 1, k - 1)
           c == SubSeq(s, k + 1, Len(s))
<1> HIDE DEF a, c
<1>3. RemoveAt(s, k) = a \o c
  BY DEF RemoveAt, a, c
<1>4. /\ a \o c \in Seq(X) /\ Len(a \o c) = Len(a) + Len(c)
      /\ \A i \in 1..(Len(a) + Len(c)) : (a \o c)[i] = IF i <= Len(a) THEN a[i] ELSE c[i - Len(a)]
  BY <1>1, <1>2, ConcatProperties DEF a, c
<1>5. Len(a) = k - 1 /\ Len(c) = Len(s) - k /\ Len(s) \in Nat
  BY <1>1, <1>2 DEF a, c
<1>6. ASSUME NEW i \in 1..(Len(s) - 1)
      PROVE  (a \o c)[i] = IF i < k THEN s[i] ELSE s[i + 1]
  <2>1. CASE i < k
    BY <1>1, <1>4, <1>5, <2>1 DEF a
  <2>2. CASE ~(i < k)
    <3>1. (a \o c)[i] = c[i - (k - 1)] /\ i - (k - 1) \in 1..(Len(s) - k)
      BY <1>4, <1>5, <2>2
    <3>2. c[i - (k - 1)] = s[k + (i - (k - 1))]
      BY <1>2, <3>1 DEF c
    <3>3. k + (i - (k - 1)) = i + 1
      OBVIOUS
    <3> QED
      BY <2>2, <3>1, <3>2, <3>3
  <2> QED
    BY <2>1, <2>2
<1> QED
  BY <1>3, <1>4, <1>5, <1>6

-----------------------------------------------------------------------------
(* The first gate that catches a message.                                  *)

LEMMA GateIsFirst ==
    ASSUME NEW w, NEW s
    PROVE  \E k \in 1..24 : /\ Gate(w, s) = Gates(w, s)[k][1]
                            /\ Gates(w, s)[k][2]
                            /\ \A j \in 1..(k - 1) : ~Gates(w, s)[j][2]
<1> DEFINE gates == Gates(w, s)
           caught == {i \in 1..Len(gates) : gates[i][2]}
<1>1. Len(gates) = 24 /\ gates[24][2]
  BY DEF Gates
<1> HIDE DEF gates
<1>2. caught \in SUBSET Nat /\ caught # {}
  BY <1>1
<1>3. Min(caught) \in caught /\ \A j \in caught : Min(caught) <= j
  BY <1>2, Smallest
<1>4. Gate(w, s) = gates[Min(caught)][1]
  BY <1>2 DEF Gate, SelectInSeq, gates
<1>5. \A j \in 1..(Min(caught) - 1) : ~gates[j][2]
  BY <1>1, <1>3
<1> QED
  BY <1>1, <1>3, <1>4, <1>5 DEF gates

\* the gates' names, and the conditions that are spoken of below
LEMMA GateNames ==
    ASSUME NEW w, NEW s
    PROVE  /\ Gates(w, s)[1][1] = "reset" /\ Gates(w, s)[2][1] = "intent"
           /\ Gates(w, s)[3][1] = "consent" /\ Gates(w, s)[4][1] = "thanks"
           /\ Gates(w, s)[5][1] = "status" /\ Gates(w, s)[6][1] = "sos"
           /\ Gates(w, s)[7][1] = "hold" /\ Gates(w, s)[8][1] = "paused"
           /\ Gates(w, s)[9][1] = "reschedule" /\ Gates(w, s)[10][1] = "loyalty"
           /\ Gates(w, s)[11][1] = "new_or_existing" /\ Gates(w, s)[12][1] = "intercept"
           /\ Gates(w, s)[13][1] = "switch" /\ Gates(w, s)[14][1] = "pro"
           /\ Gates(w, s)[15][1] = "onboarding" /\ Gates(w, s)[16][1] = "address"
           /\ Gates(w, s)[17][1] = "register" /\ Gates(w, s)[18][1] = "detect"
           /\ Gates(w, s)[19][1] = "review" /\ Gates(w, s)[20][1] = "completion"
           /\ Gates(w, s)[21][1] = "rating" /\ Gates(w, s)[22][1] = "comment"
           /\ Gates(w, s)[23][1] = "second" /\ Gates(w, s)[24][1] = "intake"
  BY DEF Gates

LEMMA GateConditions ==
    ASSUME NEW w, NEW s
    PROVE  /\ Gates(w, s)[3][2] <=> s # "pro_mode" /\ ~Professional /\ MustConsent(s)
           /\ Gates(w, s)[12][2] => Having({"booked"}) # {}
           /\ Gates(w, s)[14][2] <=> ProGate(w, s)
           /\ Gates(w, s)[18][2] => RegisteredPro
           /\ Gates(w, s)[20][2] => Having({"booked"}) # {}
           /\ Gates(w, s)[23][2] <=> AboutAJob(w) /\ ActiveLead = 0 /\ Unprompted # {}
  BY DEF Gates

LEMMA GateFacts ==
    ASSUME NEW w, NEW s
    PROVE  /\ Gate(w, s) \notin {"reset", "intent", "consent"}
                => s = "pro_mode" \/ Professional \/ ~MustConsent(s)
           /\ Gate(w, s) = "consent" => ~Professional /\ MustConsent(s)
           /\ Gate(w, s) = "pro" => ProGate(w, s)
           /\ Gate(w, s) = "detect" => RegisteredPro
           /\ Gate(w, s) \in {"intercept", "completion"} => Having({"booked"}) # {}
           /\ Gate(w, s) = "second" => Unprompted # {}
           /\ Gate(w, s) = "intake" => ~AboutAJob(w) \/ ActiveLead # 0 \/ Unprompted = {}
<1>1. PICK k \in 1..24 : /\ Gate(w, s) = Gates(w, s)[k][1]
                         /\ Gates(w, s)[k][2]
                         /\ \A j \in 1..(k - 1) : ~Gates(w, s)[j][2]
  BY GateIsFirst
<1>2. k \in 4..24 => ~Gates(w, s)[3][2]
  BY <1>1
<1>3. k = 24 => ~Gates(w, s)[23][2]
  BY <1>1
<1>4. /\ Gates(w, s)[k][1] \notin {"reset", "intent", "consent"} => k \in 4..24
      /\ Gates(w, s)[k][1] = "consent" => k = 3
      /\ Gates(w, s)[k][1] = "pro" => k = 14
      /\ Gates(w, s)[k][1] = "detect" => k = 18
      /\ Gates(w, s)[k][1] \in {"intercept", "completion"} => k \in {12, 20}
      /\ Gates(w, s)[k][1] = "second" => k = 23
      /\ Gates(w, s)[k][1] = "intake" => k = 24
  BY GateNames
<1> QED
  BY <1>1, <1>2, <1>3, <1>4, GateConditions

-----------------------------------------------------------------------------
(* Leads in their order.                                                   *)

LEMMA NewestOf ==
    ASSUME TypeOK, NEW S \in SUBSET Present, S # {}
    PROVE  Newest(S) \in S
<1> DEFINE places == {i \in 1..Len(order) : order[i] \in S}
<1>1. order \in Seq(Requests) /\ Len(order) \in Nat /\ Range(order) = Present
  BY DEF TypeOK, Present
<1>2. \A l \in Present : \E i \in 1..Len(order) : order[i] = l
  BY <1>1 DEF Range
<1>3. places \in SUBSET Nat /\ places # {} /\ \A i \in places : i <= Len(order)
  BY <1>1, <1>2
<1>4. Max(places) \in places
  BY <1>1, <1>3, Largest
<1>5. Newest(S) = order[Max(places)]
  BY <1>3 DEF Newest, SelectLastInSeq
<1> QED
  BY <1>4, <1>5

LEMMA ActiveLeadIsActive ==
    ASSUME TypeOK, ActiveLead # 0
    PROVE  ActiveLead \in Having(Active)
<1>1. Having(Active) \in SUBSET Present
  BY DEF Having, Active, Statuses, Present
<1> QED
  BY <1>1, NewestOf DEF ActiveLead

LEMMA ActiveLeadFound ==
    ASSUME TypeOK, Having(Active) # {}
    PROVE  ActiveLead \in Having(Active) /\ ActiveLead # 0
<1>1. Having(Active) \in SUBSET Present
  BY DEF Having, Active, Statuses, Present
<1> QED
  BY <1>1, NewestOf DEF ActiveLead, Having, Requests

LEMMA AppendedOrder ==
    ASSUME TypeOK, NEW l \in Requests, l \notin Present
    PROVE  /\ Append(order, l) \in Seq(Requests) /\ Range(Append(order, l)) = Present \cup {l}
           /\ IsInjective(Append(order, l))
<1>1. order \in Seq(Requests) /\ Len(order) \in Nat /\ DOMAIN order = 1..Len(order)
  BY DEF TypeOK
<1>2. Range(order) = Present /\ IsInjective(order)
  BY DEF TypeOK, Present
<1>3. \A i, j \in 1..Len(order) : order[i] = order[j] => i = j
  BY <1>1, <1>2 DEF IsInjective
<1>4. Present = {order[i] : i \in 1..Len(order)}
  BY <1>1, <1>2 DEF Range
<1> DEFINE longer == Append(order, l)
<1>5. /\ longer \in Seq(Requests) /\ DOMAIN longer = 1..(Len(order) + 1)
      /\ \A i \in 1..Len(order) : longer[i] = order[i]
      /\ longer[Len(order) + 1] = l
  BY <1>1
<1> HIDE DEF longer
<1>6. \A i \in 1..(Len(order) + 1) : i \in 1..Len(order) \/ i = Len(order) + 1
  BY <1>1
<1>7. Range(longer) = Present \cup {l}
  BY <1>4, <1>5, <1>6 DEF Range
<1>8. IsInjective(longer)
  BY <1>3, <1>4, <1>5, <1>6 DEF IsInjective
<1> QED
  BY <1>5, <1>7, <1>8 DEF longer

LEMMA RedatedOrder ==
    ASSUME TypeOK, NEW l \in Present
    PROVE  Redated(l) \in Seq(Requests) /\ Range(Redated(l)) = Present /\ IsInjective(Redated(l))
<1>1. /\ order \in Seq(Requests) /\ Len(order) \in Nat /\ Range(order) = Present
      /\ \A i, j \in 1..Len(order) : order[i] = order[j] => i = j
  BY DEF TypeOK, Present, IsInjective
<1>2. \E i \in 1..Len(order) : order[i] = l
  BY <1>1 DEF Range
<1> DEFINE k == SelectInSeq(order, LAMBDA v : v = l)
           rest == RemoveAt(order, k)
<1>3. k \in 1..Len(order) /\ order[k] = l
  BY <1>1, <1>2, FirstInSeq
<1>4. /\ rest \in Seq(Requests) /\ Len(rest) = Len(order) - 1
      /\ \A i \in 1..(Len(order) - 1) : rest[i] = IF i < k THEN order[i] ELSE order[i + 1]
  BY <1>1, <1>3, Removed
<1>5. Redated(l) = Append(rest, l) /\ l \in Requests
  BY <1>2 DEF Redated, RemoveFirst, Present, Having
<1> HIDE DEF k, rest
<1> DEFINE dated == Append(rest, l)
<1>6. /\ dated \in Seq(Requests) /\ Len(dated) = Len(order)
      /\ \A i \in 1..(Len(order) - 1) : dated[i] = IF i < k THEN order[i] ELSE order[i + 1]
      /\ dated[Len(order)] = l
  BY <1>1, <1>3, <1>4, <1>5
<1> HIDE DEF dated
<1>7. DOMAIN dated = 1..Len(order) /\ DOMAIN order = 1..Len(order)
  BY <1>1, <1>6
<1>8. IsInjective(dated)
  <2> SUFFICES ASSUME NEW i \in 1..Len(order), NEW j \in 1..Len(order), dated[i] = dated[j]
               PROVE  i = j
    BY <1>7 DEF IsInjective
  <2>1. CASE i = Len(order) \/ j = Len(order)
    BY <1>1, <1>3, <1>6, <2>1
  <2>2. CASE i # Len(order) /\ j # Len(order)
    BY <1>1, <1>3, <1>6, <2>2
  <2> QED
    BY <2>1, <2>2
<1>9. Range(dated) = Range(order)
  <2>1. ASSUME NEW i \in 1..Len(order)
        PROVE  \E j \in 1..Len(order) : order[j] = dated[i]
    BY <1>3, <1>6
  <2>2. ASSUME NEW j \in 1..Len(order)
        PROVE  \E i \in 1..Len(order) : dated[i] = order[j]
    <3>1. CASE j = k
      BY <1>3, <1>6, <3>1
    <3>2. CASE j < k
      BY <1>3, <1>6, <3>2
    <3>3. CASE j > k
      <4>1. j - 1 \in 1..(Len(order) - 1) /\ ~(j - 1 < k) /\ (j - 1) + 1 = j
        BY <1>3, <3>3
      <4> QED
        BY <1>6, <4>1
    <3> QED
      BY <1>3, <3>1, <3>2, <3>3
  <2> QED
    BY <1>7, <2>1, <2>2 DEF Range
<1> QED
  BY <1>1, <1>5, <1>6, <1>8, <1>9 DEF dated

-----------------------------------------------------------------------------
(* What keeps the invariant, whichever action does it.                     *)

Roles == {"customer", "pro", "away", "pending"}
Consents == {"none", "accepted", "declined"}
Fallen == {"idle", "fresh", "address_left", "customer_mode"}

\* the handler rests, gives up its lead, or closes the deal about it
RestsOrDeals == /\ job' \in Job /\ job'.s \in Fallen
                /\ \/ job'.at \in {"idle", "gates", "intent"} /\ job'.lead = 0
                   \/ /\ job.at \in AtWork /\ job'.at \in {"matched", "deal", "park"}
                      /\ job'.lead = job.lead

\* the handler goes on undisturbed
KeepsHandler == job' = job /\ context' \in {0, context}

\* a step that leaves the leads alone
LEMMA ChatStep ==
    ASSUME IInv, UNCHANGED leadVars, context' \in {0, context, era},
           role' \in Roles, role # "customer" => role' # "customer",
           consent' \in Consents,
           consent' = consent \/ (role = "customer" /\ consent # "accepted"),
           state' \in States, reprompted' \in BOOLEAN,
           role' = "customer" => /\ state' # "pro_mode"
                                 /\ consent' = "accepted" => state' # "awaiting_consent",
           KeepsHandler \/ RestsOrDeals
    PROVE  Well
<1> USE DEF IInv, KeepsHandler
<1>1. lead' = lead /\ order' = order /\ era' = era
  BY DEF leadVars
<1>2. Present' = Present /\ \A S : Having(S)' = Having(S)
  BY <1>1 DEF Present, Having
<1>3. TypeOK'
  <2>1. context' \in 0..era /\ era \in 1..MaxEras
    BY DEF TypeOK
  <2>2. job' \in Job
    BY DEF TypeOK, RestsOrDeals
  <2> QED
    BY <1>1, <2>1, <2>2 DEF TypeOK, Having, Roles, Consents
<1>4. JobWhole'
  BY <1>2 DEF JobWhole, RestsOrDeals, AtWork, Fallen, Reading
<1>5. Consenting'
  BY DEF Consenting
<1>6. ConsentGiven'
  BY <1>2 DEF ConsentGiven, RestsOrDeals, Thinking, Asks, Reading, JobWhole, AtWork
<1>7. Past'
  BY <1>1 DEF Past
<1>8. ReadsPast'
  BY <1>1 DEF ReadsPast, RestsOrDeals, Reading
<1>9. OneContacted' /\ SeenAsked'
  BY <1>1, <1>2 DEF OneContacted, SeenAsked, RestsOrDeals, Reading
<1>10. NoneOlder
  BY <1>1 DEF NoneOlder, OlderThan, Past, TypeOK, Lead
<1> QED
  BY <1>3, <1>4, <1>5, <1>6, <1>7, <1>8, <1>9, <1>10 DEF Well

\* a step that writes a lead there is
LEMMA WriteStep ==
    ASSUME IInv, NEW l \in Present, NEW r \in Lead, lead' = [lead EXCEPT ![l] = r],
           r.status # "absent", r.status = "contacted" => lead[l].status = "contacted",
           order' \in Seq(Requests), Range(order') = Present, IsInjective(order'),
           era' \in era..MaxEras, context' \in {0, context, era'}, r.ended < era',
           r.status \in Rated =>
              \/ /\ lead[l].status \in Rated /\ r.ended = lead[l].ended
                 /\ r.clears = lead[l].clears \/ context' = 0
              \/ r.ended = era /\ (r.clears \/ context' \in {0, era'}),
           UNCHANGED <<role, consent>>, reprompted' \in BOOLEAN,
           state' \in {state} \cup (States \ {"pro_mode", "awaiting_consent"}),
           \/ /\ KeepsHandler
              /\ lead[l].status \in Ended => r.status \in Ended
              /\ lead[l].prompted => r.prompted \/ r.status \in Ended
           \/ RestsOrDeals
    PROVE  Well
<1> USE DEF IInv, KeepsHandler
<1>1. /\ lead \in [Requests -> Lead] /\ lead' \in [Requests -> Lead] /\ l \in Requests
      /\ lead'[l] = r /\ \A k \in Requests : k # l => lead'[k] = lead[k]
  BY DEF TypeOK, Present, Having
<1>2. Present' = Present
  BY <1>1 DEF Present, Having, Lead
<1>3. \A k \in Having({"contacted"})' : k \in Having({"contacted"})
  BY <1>1 DEF Having
<1>4. TypeOK'
  <2>1. context' \in 0..era' /\ era' \in 1..MaxEras
    BY DEF TypeOK
  <2>2. job' \in Job /\ state' \in States
    BY DEF TypeOK, RestsOrDeals
  <2> QED
    BY <1>1, <1>2, <2>1, <2>2 DEF TypeOK, Present
<1>5. JobWhole'
  BY <1>2 DEF JobWhole, RestsOrDeals, AtWork, Fallen, Reading
<1>6. Consenting'
  BY DEF Consenting
<1>7. ConsentGiven'
  BY <1>2 DEF ConsentGiven
<1>8. /\ \A k \in Requests : lead[k].ended \in Nat /\ lead[k].ended < era
      /\ r.ended \in Nat /\ era \in Nat /\ era' \in Nat /\ era <= era' /\ context \in Nat
      /\ job.began \in Nat /\ job.given \in Nat
  BY <1>1 DEF TypeOK, Past, Lead, Job
<1>9. Past'
  <2> SUFFICES ASSUME NEW k \in Requests
               PROVE  lead'[k].ended < era' /\ (lead'[k].status = "absent" => ~lead'[k].clears)
    BY DEF Past
  <2> QED
    BY <1>1, <1>8 DEF Past
<1>10. ReadsPast'
  <2>1. CASE RestsOrDeals
    BY <2>1 DEF ReadsPast, RestsOrDeals, Reading
  <2>2. CASE KeepsHandler
    <3>1. job.at \in Reading => job.began <= era /\ job.began <= era'
      BY <1>8 DEF ReadsPast
    <3>2. ASSUME job.at = "cache", NEW k \in Requests,
                 lead'[k].status \in Rated, lead'[k].ended < job.began
          PROVE  lead'[k].ended < job.given
      <4>1. CASE k = l /\ r.ended = era
        BY <1>1, <1>8, <3>1, <3>2, <4>1 DEF Reading
      <4>2. CASE k # l \/ (lead[l].status \in Rated /\ r.ended = lead[l].ended)
        BY <1>1, <3>2, <4>2 DEF ReadsPast
      <4> QED
        BY <1>1, <3>2, <4>1, <4>2
    <3> QED
      BY <2>2, <3>1, <3>2 DEF ReadsPast
  <2> QED
    BY <2>1, <2>2
<1>11. OneContacted'
  BY <1>3 DEF OneContacted, RestsOrDeals, Reading
<1>12. SeenAsked'
  BY <1>1 DEF SeenAsked, RestsOrDeals, Reading
<1>13. NoneOlder
  <2> SUFFICES ASSUME NEW k \in Requests, OlderThan(k)'
               PROVE  OlderThan(k)
    BY DEF NoneOlder
  <2>1. lead'[k].status \in Rated /\ ~lead'[k].clears /\ context' \in 1..lead'[k].ended
    BY DEF OlderThan
  <2>2. lead'[k].ended < era'
    BY <1>9 DEF Past
  <2>3. context' = context /\ context' # 0 /\ context' # era'
    BY <1>1, <1>8, <2>1, <2>2
  <2>4. CASE k # l
    BY <1>1, <2>1, <2>3, <2>4 DEF OlderThan
  <2>5. CASE k = l
    BY <1>1, <2>1, <2>3, <2>5 DEF OlderThan
  <2> QED
    BY <2>4, <2>5
<1> QED
  BY <1>4, <1>5, <1>6, <1>7, <1>9, <1>10, <1>11, <1>12, <1>13 DEF Well

\* the fields a write leaves: those of the lead, but for the status, the pro
\* and the age of the review
Rewritten(l, status, pro) ==
    [status |-> status, pro |-> pro, prompted |-> lead[l].prompted, loyal |-> lead[l].loyal,
     stale |-> FALSE, ended |-> lead[l].ended, dated |-> lead[l].dated, clears |-> lead[l].clears]

LEMMA RewrittenLead ==
    ASSUME TypeOK, NEW l \in Requests, NEW status \in Statuses, NEW pro \in BOOLEAN
    PROVE  /\ Rewritten(l, status, pro) \in Lead
           /\ [lead EXCEPT ![l].status = status, ![l].pro = pro, ![l].stale = FALSE]
                  = [lead EXCEPT ![l] = Rewritten(l, status, pro)]
           /\ [lead EXCEPT ![l].status = status, ![l].stale = FALSE]
                  = [lead EXCEPT ![l] = Rewritten(l, status, lead[l].pro)]
<1>1. lead[l] \in Lead
  BY DEF TypeOK
<1> DEFINE a == [status |-> status, pro |-> lead[l].pro, prompted |-> lead[l].prompted,
                 loyal |-> lead[l].loyal, stale |-> lead[l].stale, ended |-> lead[l].ended, dated |-> lead[l].dated,
                 clears |-> lead[l].clears]
           b == [a EXCEPT !.pro = pro]
           c == [status |-> status, pro |-> pro, prompted |-> lead[l].prompted,
                 loyal |-> lead[l].loyal, stale |-> lead[l].stale, ended |-> lead[l].ended, dated |-> lead[l].dated,
                 clears |-> lead[l].clears]
<1>2. [lead[l] EXCEPT !.status = status] = a
  BY <1>1 DEF Lead
<1>3. [a EXCEPT !.pro = pro] = c
  OBVIOUS
<1>4. ASSUME NEW no
      PROVE  /\ [c EXCEPT !.stale = no] =
                   [status |-> status, pro |-> pro, prompted |-> lead[l].prompted,
                    loyal |-> lead[l].loyal, stale |-> no, ended |-> lead[l].ended, dated |-> lead[l].dated,
                 clears |-> lead[l].clears]
             /\ [a EXCEPT !.stale = no] =
                   [status |-> status, pro |-> lead[l].pro, prompted |-> lead[l].prompted,
                    loyal |-> lead[l].loyal, stale |-> no, ended |-> lead[l].ended, dated |-> lead[l].dated,
                 clears |-> lead[l].clears]
  OBVIOUS
<1>5. /\ [c EXCEPT !.stale = FALSE] = Rewritten(l, status, pro)
      /\ [a EXCEPT !.stale = FALSE] = Rewritten(l, status, lead[l].pro)
  BY <1>4, Zenon DEF Rewritten
<1>6. Rewritten(l, status, pro) \in Lead
  BY <1>1 DEF Rewritten, Lead
<1>7. [lead EXCEPT ![l].status = status, ![l].pro = pro, ![l].stale = FALSE]
         = [lead EXCEPT ![l] = [[[lead[l] EXCEPT !.status = status] EXCEPT !.pro = pro] EXCEPT !.stale = FALSE]]
  BY DEF TypeOK
<1>8. [lead EXCEPT ![l].status = status, ![l].stale = FALSE]
         = [lead EXCEPT ![l] = [[lead[l] EXCEPT !.status = status] EXCEPT !.stale = FALSE]]
  BY DEF TypeOK
<1> HIDE DEF a, c
<1> QED
  BY <1>2, <1>3, <1>4, <1>5, <1>6, <1>7, <1>8

\* a lead that has ended
Closed(l, status, dated, clears) ==
    [NoRequest EXCEPT !.status = status, !.pro = lead[l].pro, !.ended = era,
                      !.dated = dated, !.clears = clears]

LEMMA EndedLead ==
    ASSUME TypeOK, NEW l \in Requests, NEW status \in Statuses, NEW dated \in Nat,
           NEW clears \in BOOLEAN
    PROVE  LET r == Closed(l, status, dated, clears)
           IN r \in Lead /\ r.status = status /\ r.ended = era /\ r.clears = clears
<1>1. lead[l].pro \in BOOLEAN /\ era \in Nat
  BY DEF TypeOK, Lead
<1> DEFINE a == [NoRequest EXCEPT !.status = status]
           b == [a EXCEPT !.pro = lead[l].pro]
           c == [b EXCEPT !.ended = era]
           d == [c EXCEPT !.dated = dated]
           e == [d EXCEPT !.clears = clears]
<1>2. NoRequest \in Lead
  BY DEF NoRequest, Lead, Statuses
<1>3. a \in Lead /\ a.status = status
  BY <1>2 DEF Lead
<1>4. Closed(l, status, dated, clears) = e
  BY <1>2 DEF Lead, Closed
<1> HIDE DEF a
<1>5. b \in Lead /\ b.status = status
  BY <1>1, <1>3 DEF Lead
<1> HIDE DEF b
<1>6. c \in Lead /\ c.status = status /\ c.ended = era
  BY <1>1, <1>5 DEF Lead
<1> HIDE DEF c
<1>7. d \in Lead /\ d.status = status /\ d.ended = era
  BY <1>6 DEF Lead
<1> HIDE DEF d
<1>8. e \in Lead /\ e.status = status /\ e.ended = era /\ e.clears = clears
  BY <1>7 DEF Lead
<1> HIDE DEF e
<1> QED
  BY <1>4, <1>8

\* a step that leaves who the chat's owner is and asks for no consent
LEMMA ParkStep ==
    ASSUME IInv, UNCHANGED leadVars, UNCHANGED <<role, consent>>,
           context' \in {0, context, era}, reprompted' \in BOOLEAN,
           state' \in {state} \cup (States \ {"pro_mode", "awaiting_consent"}),
           KeepsHandler \/ RestsOrDeals
    PROVE  Well
<1>1. role' \in Roles /\ consent' \in Consents /\ state' \in States
  BY DEF IInv, TypeOK, Roles, Consents
<1>2. role' = "customer" => /\ state' # "pro_mode"
                            /\ consent' = "accepted" => state' # "awaiting_consent"
  BY DEF IInv, Consenting
<1> QED
  BY <1>1, <1>2, ChatStep

LEMMA EndsStep ==
    ASSUME IInv, NEW l \in Present, NEW status \in Ended, NEW dated \in Nat,
           NEW clears \in BOOLEAN, EndsDated(l, status, dated, clears),
           context' \in {0, context, era'},
           status \in Rated => clears \/ context' \in {0, era'},
           UNCHANGED <<role, consent, order>>, reprompted' \in BOOLEAN,
           state' \in {state} \cup (States \ {"pro_mode", "awaiting_consent"}),
           KeepsHandler \/ RestsOrDeals
    PROVE  Well
<1> DEFINE r == Closed(l, status, dated, clears)
<1>1. l \in Requests /\ status \in Statuses /\ status \notin {"absent", "contacted"}
  BY DEF Present, Having, Ended, Rated, Statuses
<1>2. r \in Lead /\ r.status = status /\ r.ended = era /\ r.clears = clears
  BY <1>1, EndedLead DEF IInv
<1>3. lead' = [lead EXCEPT ![l] = r] /\ era' = era + 1 /\ era < MaxEras
  BY DEF EndsDated, Closed
<1> HIDE DEF r
<1>4. era \in Nat /\ era' \in era..MaxEras
  BY <1>3, ConversationAssumption DEF IInv, TypeOK
<1>5. order' \in Seq(Requests) /\ Range(order') = Present /\ IsInjective(order')
  BY DEF IInv, TypeOK, Present
<1>6. r.status # "absent" /\ r.status # "contacted" /\ r.status \in Ended /\ r.ended < era'
  BY <1>1, <1>2, <1>3, <1>4
<1>7. r.status \in Rated => r.ended = era /\ (r.clears \/ context' \in {0, era'})
  BY <1>2
<1>8. UNCHANGED <<role, consent>>
  OBVIOUS
<1> QED
  BY <1>2, <1>3, <1>4, <1>5, <1>6, <1>7, <1>8, WriteStep

\* a lead's status is set, to one that has not just ended
LEMMA SetStep ==
    ASSUME IInv, NEW l \in Present, NEW status \in Statuses \ {"absent", "contacted"},
           NEW pro \in BOOLEAN, lead' = [lead EXCEPT ![l] = Rewritten(l, status, pro)],
           status \in Rated => lead[l].status \in Rated,
           UNCHANGED <<role, consent, era>>, context' \in {0, context, era},
           order' \in Seq(Requests), Range(order') = Present, IsInjective(order'),
           reprompted' \in BOOLEAN,
           state' \in {state} \cup (States \ {"pro_mode", "awaiting_consent"}),
           \/ KeepsHandler /\ (lead[l].status \in Ended => status \in Ended)
           \/ RestsOrDeals
    PROVE  Well
<1> DEFINE r == Rewritten(l, status, pro)
<1>1. l \in Requests
  BY DEF Present, Having
<1>2. /\ r \in Lead /\ r.status = status /\ r.ended = lead[l].ended
      /\ r.prompted = lead[l].prompted /\ r.clears = lead[l].clears
  BY <1>1, RewrittenLead DEF Rewritten, IInv
<1>3. era' \in era..MaxEras /\ r.ended < era'
  BY <1>1, <1>2, ConversationAssumption DEF IInv, TypeOK, Past
<1> HIDE DEF r
<1>4. lead' = [lead EXCEPT ![l] = r] /\ (r.status = "contacted" => lead[l].status = "contacted")
  BY <1>2 DEF r
<1>5. context' \in {0, context, era'} /\ UNCHANGED <<role, consent>>
  OBVIOUS
<1>6. /\ r.status # "absent"
      /\ r.status \in Rated => /\ lead[l].status \in Rated /\ r.ended = lead[l].ended
                               /\ r.clears = lead[l].clears
  BY <1>2
<1>7. \/ /\ KeepsHandler
         /\ lead[l].status \in Ended => r.status \in Ended
         /\ lead[l].prompted => r.prompted \/ r.status \in Ended
      \/ RestsOrDeals
  BY <1>2
<1> QED
  BY <1>2, <1>3, <1>4, <1>5, <1>6, <1>7, WriteStep

LEMMA OrderKept ==
    ASSUME TypeOK, UNCHANGED order
    PROVE  order' \in Seq(Requests) /\ Range(order') = Present /\ IsInjective(order')
  BY DEF TypeOK, Present

LEMMA ReassignStep ==
    ASSUME IInv, NEW l \in Having(Active), Reassign(l), UNCHANGED <<role, consent>>,
           KeepsHandler \/ RestsOrDeals
    PROVE  Well
<1>1. /\ l \in Present /\ l \in Requests /\ lead[l].status \notin Ended
      /\ TypeOK /\ lead[l].pro \in BOOLEAN
  BY DEF Present, Having, Active, Statuses, Ended, Rated, IInv, TypeOK, Lead
<1>2. state' = "idle" /\ reprompted' = FALSE /\ era' = era
  BY DEF Reassign, ClearState
<1>3. CASE /\ lead' = [lead EXCEPT ![l].status = "new", ![l].pro = TRUE, ![l].stale = FALSE]
           /\ order' = Redated(l) /\ UNCHANGED context
  <2>1. lead' = [lead EXCEPT ![l] = Rewritten(l, "new", TRUE)]
    BY <1>1, <1>3, RewrittenLead DEF Statuses, Active
  <2> QED
    BY <1>1, <1>2, <1>3, <2>1, RedatedOrder, SetStep DEF Statuses, Active, Rated, States
<1>4. CASE /\ lead' = [lead EXCEPT ![l].status = "pending_admin_review", ![l].stale = FALSE]
           /\ context' \in {0, context} /\ UNCHANGED order
  <2>1. lead' = [lead EXCEPT ![l] = Rewritten(l, "pending_admin_review", lead[l].pro)]
    BY <1>1, <1>4, RewrittenLead DEF Statuses
  <2> QED
    BY <1>1, <1>2, <1>4, <2>1, OrderKept, SetStep DEF Statuses, Active, Rated, States
<1> QED
  BY <1>3, <1>4 DEF Reassign

-----------------------------------------------------------------------------
(* The rest of the system.                                                 *)

LEMMA ProApprovesStep ==
    ASSUME IInv, NEW l \in Requests, ProApproves(l)
    PROVE  Well
<1> DEFINE a == [lead[l] EXCEPT !.status = "booked"]
           b == [a EXCEPT !.stale = FALSE]
           r == [b EXCEPT !.dated = era - 1]
<1>1. /\ l \in Present /\ lead[l] \in Lead /\ lead[l].status \notin Ended /\ TypeOK
      /\ era - 1 \in Nat
  BY DEF ProApproves, Present, Having, Statuses, Active, Ended, Rated, IInv, TypeOK
<1>2. lead' = [lead EXCEPT ![l] = r] /\ UNCHANGED <<role, consent, order, era, context, job>>
  BY <1>1 DEF ProApproves, KeepWho, TypeOK
<1>3. /\ a \in Lead /\ a.status = "booked" /\ a.ended = lead[l].ended
      /\ a.prompted = lead[l].prompted
  BY <1>1 DEF Lead, Statuses
<1> HIDE DEF a
<1>4. /\ b \in Lead /\ b.status = "booked" /\ b.ended = lead[l].ended
      /\ b.prompted = lead[l].prompted
  BY <1>3 DEF Lead
<1> HIDE DEF b
<1>5. /\ r \in Lead /\ r.status = "booked" /\ r.ended = lead[l].ended
      /\ r.prompted = lead[l].prompted
  BY <1>1, <1>4 DEF Lead
<1> HIDE DEF r
<1>6. era' \in era..MaxEras /\ r.ended < era' /\ context' \in {0, context, era'}
  BY <1>1, <1>2, <1>5, ConversationAssumption DEF IInv, TypeOK, Past, Present, Having
<1>7. KeepsHandler /\ state' = "idle" /\ reprompted' = FALSE
  BY <1>2 DEF ProApproves, ClearState, KeepsHandler
<1> QED
  BY <1>1, <1>2, <1>5, <1>6, <1>7, OrderKept, WriteStep DEF Rated, States

LEMMA ProDropsStep ==
    ASSUME IInv, NEW l \in Requests, ProDrops(l) \/ ProFinishes(l) \/ PanelCompletes(l)
    PROVE  Well
<1>1. l \in Present /\ lead[l].dated \in Nat
  BY DEF ProDrops, ProFinishes, PanelCompletes, Present, Having, Statuses, Active, IInv, TypeOK, Lead
<1>2. /\ KeepsHandler /\ UNCHANGED <<role, consent, order>> /\ UNCHANGED <<state, reprompted>>
      /\ context' = context
  BY DEF ProDrops, ProFinishes, PanelCompletes, KeepChat, KeepWho, KeepsHandler
<1>3. CASE EndsDated(l, "rejected", 0, TRUE) \/ EndsDated(l, "cancelled", 0, TRUE)
  BY <1>1, <1>2, <1>3, EndsStep DEF Ended, IInv, TypeOK
<1>4. CASE EndsDated(l, "rating", 0, TRUE)
  BY <1>1, <1>2, <1>4, EndsStep DEF Ended, Rated, IInv, TypeOK
<1>5. CASE EndsDated(l, "filed", lead[l].dated, FALSE)
  BY <1>1, <1>2, <1>5, EndsStep DEF Ended, Rated, IInv, TypeOK
<1> QED
  BY <1>3, <1>4, <1>5 DEF ProDrops, ProFinishes, PanelCompletes

LEMMA ProClearsStep ==
    ASSUME IInv, NEW l \in Requests, ProClears(l)
    PROVE  Well
<1> DEFINE r == [lead[l] EXCEPT !.clears = FALSE]
<1>1. lead[l] \in Lead /\ TypeOK
  BY DEF IInv, TypeOK
<1>2. CASE lead[l].status = "absent"
  BY <1>2 DEF ProClears, IInv, Past
<1>3. CASE lead[l].status # "absent"
  <2>1. l \in Present
    BY <1>1, <1>3 DEF Present, Having, Lead
  <2>2. /\ r \in Lead /\ r.status = lead[l].status /\ r.ended = lead[l].ended
        /\ r.prompted = lead[l].prompted
    BY <1>1 DEF Lead
  <2>3. /\ lead' = [lead EXCEPT ![l] = r] /\ UNCHANGED <<role, consent, order, era>>
        /\ context' = 0 /\ KeepsHandler /\ reprompted' \in BOOLEAN /\ state' \in {state, "idle"}
    BY <1>1 DEF ProClears, KeepWho, KeepChat, ClearState, KeepsHandler, TypeOK
  <2> HIDE DEF r
  <2>4. era' \in era..MaxEras /\ r.ended < era' /\ context' \in {0, context, era'}
    BY <2>2, <2>3, ConversationAssumption DEF IInv, TypeOK, Past
  <2> QED
    BY <1>1, <1>3, <2>1, <2>2, <2>3, <2>4, OrderKept, WriteStep DEF States
<1> QED
  BY <1>2, <1>3

LEMMA ProPausesStep ==
    ASSUME IInv, NEW l \in Requests, ProPauses(l)
    PROVE  Well
  BY ParkStep DEF ProPauses, Park, ClearState, KeepWho, KeepsHandler, States, IInv, TypeOK

LEMMA HealStep ==
    ASSUME IInv, NEW l \in Requests, Heal(l)
    PROVE  Well
  BY ReassignStep DEF Heal, Having, KeepWho, KeepsHandler, Reassign

LEMMA TakeOverStep ==
    ASSUME IInv, NEW l \in Requests, TakeOver(l)
    PROVE  Well
<1>1. /\ l \in Present /\ lead[l].status \notin Ended /\ TypeOK
  BY DEF TakeOver, Present, Having, Statuses, Ended, Rated, IInv
<1>2. lead' = [lead EXCEPT ![l] = Rewritten(l, "new", TRUE)]
  BY <1>1, RewrittenLead DEF TakeOver, Statuses, Active
<1> QED
  BY <1>1, <1>2, RedatedOrder, SetStep
     DEF TakeOver, KeepWho, KeepChat, KeepsHandler, Statuses, Active, Rated, IInv, TypeOK

LEMMA ReviewAgesStep ==
    ASSUME IInv, NEW l \in Requests, ReviewAges(l)
    PROVE  Well
<1> DEFINE r == [lead[l] EXCEPT !.stale = TRUE]
<1>1. l \in Present /\ lead[l] \in Lead
  BY DEF ReviewAges, Present, Having, Statuses, IInv, TypeOK
<1>2. /\ r \in Lead /\ r.status = "pending_admin_review" /\ r.ended = lead[l].ended
      /\ r.prompted = lead[l].prompted /\ r.clears = lead[l].clears
  BY <1>1 DEF Lead, ReviewAges
<1>3. lead' = [lead EXCEPT ![l] = r] /\ era' \in era..MaxEras /\ r.ended < era'
  BY <1>2, ConversationAssumption DEF ReviewAges, IInv, TypeOK, Past
<1> HIDE DEF r
<1> QED
  BY <1>1, <1>2, <1>3, OrderKept, WriteStep
     DEF ReviewAges, KeepWho, KeepChat, KeepsHandler, Ended, Rated, IInv, TypeOK

LEMMA AdmitProStep ==
    ASSUME IInv, AdmitPro
    PROVE  Well
  BY ChatStep DEF AdmitPro, KeepChat, KeepsHandler, Roles, Consents, leadVars, IInv, TypeOK

LEMMA StateExpiresStep ==
    ASSUME IInv, StateExpires
    PROVE  Well
  BY ParkStep DEF StateExpires, Park, KeepWho, KeepsHandler, States, IInv, TypeOK

LEMMA ContextExpiresStep ==
    ASSUME IInv, ContextExpires
    PROVE  Well
  BY ParkStep DEF ContextExpires, KeepChat, KeepWho, KeepsHandler, IInv, TypeOK

-----------------------------------------------------------------------------
(* The gates that need no AI.                                              *)

LEMMA IdleRests ==
    ASSUME Done
    PROVE  RestsOrDeals
  BY DEF Done, RestsOrDeals, Idle, Job, Words, Texts, States, Fallen

LEMMA GoOnRests ==
    ASSUME NEW w \in Words, NEW s \in {"fresh", "address_left", "customer_mode"}, GoOn(w, s)
    PROVE  RestsOrDeals
<1> DEFINE m == IF s = "fresh" THEN w ELSE Below(w)
           a == [Idle EXCEPT !.at = "gates"]
           b == [a EXCEPT !.s = s]
           c == [b EXCEPT !.msg = m]
<1>1. m \in Words
  BY DEF Below, Words, Texts
<1> HIDE DEF m
<1>2. Idle \in Job /\ Idle.lead = 0
  BY DEF Idle, Job, Words, Texts, States
<1>3. job' = c
  BY DEF GoOn, m
<1>4. a \in Job /\ a.at = "gates" /\ a.lead = 0
  BY <1>2 DEF Job
<1> HIDE DEF a
<1>5. b \in Job /\ b.at = "gates" /\ b.lead = 0 /\ b.s = s
  BY <1>4 DEF Job, States
<1> HIDE DEF b
<1>6. c \in Job /\ c.at = "gates" /\ c.lead = 0 /\ c.s = s
  BY <1>1, <1>5 DEF Job
<1> QED
  BY <1>3, <1>6 DEF RestsOrDeals, Fallen

LEMMA IntentRests ==
    ASSUME job' = [Idle EXCEPT !.at = "intent"]
    PROVE  RestsOrDeals
<1>1. Idle \in Job /\ Idle.lead = 0 /\ Idle.s = "idle"
  BY DEF Idle, Job, Words, Texts, States
<1>2. job' \in Job /\ job'.at = "intent" /\ job'.s = "idle" /\ job'.lead = 0
  BY <1>1 DEF Job
<1> QED
  BY <1>2 DEF RestsOrDeals, Fallen

LEMMA LogKeeps ==
    ASSUME Log
    PROVE  context' \in {context, era}
  BY DEF Log, Logged

\* where a message is routed from
LEMMA LocalState ==
    ASSUME IInv, NEW w, Open(w)
    PROVE  /\ job.at \in {"idle", "gates"}
           /\ Local = state \/ Local \in {"idle", "address_left", "customer_mode"}
           /\ role = "customer" => /\ Local # "pro_mode"
                                   /\ consent = "accepted" => Local # "awaiting_consent"
  BY DEF IInv, JobWhole, Consenting, Open, Local

\* past the consent gate a customer has accepted the terms
LEMMA PastConsent ==
    ASSUME IInv, NEW w, Open(w), Gate(w, Local) \notin {"reset", "intent", "consent"}
    PROVE  role # "customer" \/ consent = "accepted"
  BY LocalState, GateFacts DEF MustConsent, Professional

LEMMA ResetStep ==
    ASSUME IInv, NEW w, Reset(w)
    PROVE  Well
  BY IdleRests, ParkStep DEF Reset, ClearState, KeepWho, States

LEMMA ConfirmIntentStep ==
    ASSUME IInv, NEW w \in Words, ConfirmIntent(w)
    PROVE  Well
<1>1. RestsOrDeals
  <2>1. CASE GoOn(w, "fresh")
    BY <2>1, GoOnRests
  <2>2. CASE Done
    BY <2>2, IdleRests
  <2> QED
    BY <2>1, <2>2, Zenon DEF ConfirmIntent
<1> QED
  BY <1>1, ParkStep DEF ConfirmIntent, ClearState, KeepWho, States, IInv, TypeOK

LEMMA AskConsentStep ==
    ASSUME IInv, NEW w, Open(w), Gate(w, Local) = "consent", AskConsent(w)
    PROVE  Well
<1>1. role = "customer" /\ consent # "accepted"
  BY LocalState, GateFacts DEF MustConsent, Professional, IInv
<1>2. RestsOrDeals /\ UNCHANGED <<role, context>> /\ UNCHANGED leadVars
  BY IdleRests DEF AskConsent
<1>3. CASE state = "awaiting_consent" /\ w \in {"yes", "abort"}
  BY <1>1, <1>2, <1>3, ChatStep
     DEF AskConsent, ClearState, Consents, Roles, States, IInv, TypeOK
<1>4. CASE ~(state = "awaiting_consent" /\ w \in {"yes", "abort"})
  BY <1>1, <1>2, <1>4, ChatStep
     DEF AskConsent, Park, Consents, Roles, States, IInv, TypeOK
<1> QED
  BY <1>3, <1>4

LEMMA AnswerSteps ==
    ASSUME IInv, NEW w, Thanked(w) \/ Told(w) \/ Declined(w) \/ KeepSilent(w) \/ UnderReview(w)
    PROVE  Well
<1>1. /\ RestsOrDeals /\ UNCHANGED <<role, consent, state, reprompted>> /\ UNCHANGED leadVars
      /\ context' \in {context, era}
  BY IdleRests, LogKeeps
     DEF Thanked, Told, Declined, KeepSilent, UnderReview, KeepWho, KeepChat
<1> QED
  BY <1>1, ParkStep DEF IInv, TypeOK

LEMMA ParkingSteps ==
    ASSUME IInv, NEW w,
           CallHuman(w) \/ PickSlot(w) \/ AnswerNewOrExisting(w) \/ SwitchToCustomer(w) \/ Register(w)
    PROVE  Well
<1>1. /\ RestsOrDeals /\ UNCHANGED <<role, consent>> /\ UNCHANGED leadVars
      /\ context' \in {0, context, era} /\ reprompted' \in BOOLEAN
  BY IdleRests, LogKeeps
     DEF CallHuman, PickSlot, AnswerNewOrExisting, SwitchToCustomer, Register, KeepWho, KeepChat,
         Park, ClearState, IInv, TypeOK
<1>2. state' \in {state} \cup (States \ {"pro_mode", "awaiting_consent"})
  BY DEF CallHuman, PickSlot, AnswerNewOrExisting, SwitchToCustomer, Register, KeepChat,
         Park, ClearState, States, Onboarding
<1> QED
  BY <1>1, <1>2, ParkStep

LEMMA HoldStep ==
    ASSUME IInv, NEW w, Hold(w)
    PROVE  Well
<1>1. RestsOrDeals /\ UNCHANGED <<role, consent>>
  BY IdleRests DEF Hold, KeepWho
<1>2. CASE Having({"new"}) # {} /\ Reassign(Newest(Having({"new"})))
  <2>1. Having({"new"}) \in SUBSET Present /\ Having({"new"}) \in SUBSET Having(Active)
    BY DEF Having, Present, Statuses, Active
  <2>2. Newest(Having({"new"})) \in Having(Active)
    BY <1>2, <2>1, NewestOf DEF IInv
  <2> QED
    BY <1>1, <1>2, <2>2, ReassignStep
<1>3. CASE KeepChat /\ UNCHANGED <<leadVars, context>>
  BY <1>1, <1>3, ParkStep DEF KeepChat, IInv, TypeOK
<1> QED
  BY <1>2, <1>3 DEF Hold

\* a write that leaves the status and the era a lead ended in
LEMMA MarkStep ==
    ASSUME IInv, NEW l \in Present, NEW r \in Lead, lead' = [lead EXCEPT ![l] = r],
           r.status = lead[l].status, r.ended = lead[l].ended, r.clears = lead[l].clears,
           lead[l].prompted => r.prompted,
           UNCHANGED <<role, consent, order, era>>, context' \in {0, context, era},
           reprompted' \in BOOLEAN,
           state' \in {state} \cup (States \ {"pro_mode", "awaiting_consent"}),
           KeepsHandler \/ RestsOrDeals
    PROVE  Well
<1>1. l \in Requests /\ r.status # "absent"
  BY DEF Present, Having, Statuses
<1>2. era' \in era..MaxEras /\ r.ended < era' /\ context' \in {0, context, era'}
  BY <1>1, ConversationAssumption DEF IInv, TypeOK, Past
<1>3. UNCHANGED <<role, consent>>
  OBVIOUS
<1>4. order' \in Seq(Requests) /\ Range(order') = Present /\ IsInjective(order')
  BY OrderKept DEF IInv
<1> QED
  BY <1>1, <1>2, <1>3, <1>4, WriteStep

LEMMA AnswerLoyaltyStep ==
    ASSUME IInv, NEW w, AnswerLoyalty(w)
    PROVE  Well
<1>1. /\ RestsOrDeals /\ UNCHANGED <<role, consent, order, era>> /\ reprompted' \in BOOLEAN
      /\ state' \in {state} \cup (States \ {"pro_mode", "awaiting_consent"})
      /\ context' \in {context, era}
  BY IdleRests, LogKeeps DEF AnswerLoyalty, KeepWho, KeepChat, Park, States, IInv, TypeOK
<1>2. CASE lead' = lead
  BY <1>1, <1>2, ParkStep DEF leadVars
<1>3. CASE ActiveLead # 0 /\ lead' = [lead EXCEPT ![ActiveLead].pro = TRUE]
  <2> DEFINE r == [lead[ActiveLead] EXCEPT !.pro = TRUE]
  <2>1. ActiveLead \in Present /\ lead[ActiveLead] \in Lead
    BY <1>3, ActiveLeadIsActive DEF IInv, TypeOK, Having, Active, Present, Statuses
  <2>2. /\ r \in Lead /\ r.status = lead[ActiveLead].status /\ r.ended = lead[ActiveLead].ended
        /\ r.prompted = lead[ActiveLead].prompted /\ r.clears = lead[ActiveLead].clears
    BY <2>1 DEF Lead
  <2>3. lead' = [lead EXCEPT ![ActiveLead] = r]
    BY <1>3
  <2> HIDE DEF r
  <2> QED
    BY <1>1, <2>1, <2>2, <2>3, MarkStep
<1> QED
  BY <1>2, <1>3 DEF AnswerLoyalty

LEMMA NewestBooked ==
    ASSUME IInv, Having({"booked"}) # {}
    PROVE  Newest(Having({"booked"})) \in Present
<1>1. Having({"booked"}) \in SUBSET Present
  BY DEF Having, Present, Statuses
<1> QED
  BY <1>1, NewestOf DEF IInv

LEMMA InterceptStep ==
    ASSUME IInv, NEW w, Intercept(w), Having({"booked"}) # {}
    PROVE  Well
<1>1. RestsOrDeals /\ UNCHANGED <<role, consent, order>>
  BY IdleRests DEF Intercept, KeepWho
<1>2. CASE Ends(Newest(Having({"booked"})), "cancelled") /\ ClearState /\ context' = 0
  BY <1>1, <1>2, NewestBooked, EndsStep DEF Ends, ClearState, Ended, Rated, States
<1>3. CASE /\ KeepChat \/ Park("awaiting_reschedule_time")
           /\ UNCHANGED <<lead, era, context>>
  BY <1>1, <1>3, ParkStep DEF leadVars, KeepChat, Park, States, Prompts, IInv, TypeOK
<1> QED
  BY <1>2, <1>3 DEF Intercept

LEMMA CompleteStep ==
    ASSUME IInv, NEW w, Complete(w), Having({"booked"}) # {}
    PROVE  Well
<1>1. RestsOrDeals /\ UNCHANGED <<role, consent, order>>
  BY IdleRests DEF Complete, KeepWho
<1> QED
  BY <1>1, NewestBooked, EndsStep DEF Complete, Ends, KeepChat, Ended, Rated, IInv, TypeOK

LEMMA RateStep ==
    ASSUME IInv, NEW w, Rate(w) \/ Comment(w)
    PROVE  Well
<1>1. /\ RestsOrDeals /\ UNCHANGED <<role, consent, order>> /\ UNCHANGED <<state, reprompted>>
      /\ context' \in {context, era}
  BY IdleRests, LogKeeps DEF Rate, Comment, KeepWho, KeepChat
<1>2. PICK l \in Having({"rating", "comment"}), status \in {"comment", "completed"} : Set(l, status)
  BY DEF Rate, Comment, Having
<1>3. l \in Present /\ l \in Requests /\ lead[l].status \in Rated /\ lead[l].pro \in BOOLEAN
  BY <1>2 DEF Having, Present, Statuses, Rated, IInv, TypeOK, Lead
<1>4. status \in Statuses \ {"absent", "contacted"}
  BY DEF Statuses, Ended, Rated
<1>5. lead' = [lead EXCEPT ![l] = Rewritten(l, status, lead[l].pro)] /\ era' = era
  BY <1>2, <1>3, <1>4, RewrittenLead DEF Set, IInv
<1> QED
  BY <1>1, <1>3, <1>4, <1>5, OrderKept, SetStep DEF IInv, TypeOK

LEMMA AskNewOrExistingStep ==
    ASSUME IInv, NEW w, AskNewOrExisting(w), Unprompted # {}
    PROVE  Well
<1> DEFINE l == Newest(Unprompted)
           r == [lead[l] EXCEPT !.prompted = TRUE]
<1>1. /\ RestsOrDeals /\ UNCHANGED <<role, consent, order, era>> /\ reprompted' \in BOOLEAN
      /\ state' \in States \ {"pro_mode", "awaiting_consent"}
      /\ context' \in {context, era}
  BY IdleRests, LogKeeps DEF AskNewOrExisting, KeepWho, Park, States, Prompts, IInv, TypeOK
<1>2. Unprompted \in SUBSET Present
  BY DEF Unprompted, Having, Present, Statuses
<1>3. l \in Present /\ lead[l] \in Lead
  BY <1>2, NewestOf DEF IInv, TypeOK, Present, Having
<1>4. lead' = [lead EXCEPT ![l].prompted = TRUE]
  BY DEF AskNewOrExisting
<1> HIDE DEF l
<1>5. /\ r \in Lead /\ r.status = lead[l].status /\ r.ended = lead[l].ended /\ r.prompted
      /\ r.clears = lead[l].clears
  BY <1>3 DEF Lead
<1>6. lead' = [lead EXCEPT ![l] = r]
  BY <1>4
<1> HIDE DEF r
<1> QED
  BY <1>1, <1>3, <1>5, <1>6, MarkStep

\* the pro's menu is a pro's
LEMMA ProCommandStep ==
    ASSUME IInv, NEW w, role # "customer", ProCommand(w)
    PROVE  Well
<1>1. UNCHANGED <<consent, context>> /\ UNCHANGED leadVars
  BY DEF ProCommand
<1>2. RestsOrDeals
  BY IdleRests, IntentRests
     DEF ProCommand, ActOnLead, Toggle, FinishJob, CancelJob, ListJobs, ShowReport, AskIntent, ShowDashboard
<1>3. role' \in Roles /\ role' # "customer"
  BY DEF ProCommand, ActOnLead, Toggle, FinishJob, CancelJob, ListJobs, ShowReport, AskIntent,
         ShowDashboard, Roles, IInv, TypeOK
<1>4. state' \in States /\ reprompted' \in BOOLEAN
  BY DEF ProCommand, ActOnLead, Toggle, FinishJob, CancelJob, ListJobs, ShowReport, AskIntent,
         ShowDashboard, Park, States, IInv, TypeOK
<1> QED
  BY <1>1, <1>2, <1>3, <1>4, ChatStep DEF Consents, IInv, TypeOK

LEMMA OnboardStep ==
    ASSUME IInv, NEW w, Onboard(w)
    PROVE  Well
<1>1. RestsOrDeals /\ UNCHANGED <<consent, context>> /\ UNCHANGED leadVars
  BY IdleRests DEF Onboard
<1>2. /\ state' \in {state} \cup (States \ {"pro_mode", "awaiting_consent"})
      /\ reprompted' \in BOOLEAN /\ role' \in {role, "pending"}
  BY DEF Onboard, KeepChat, Park, ClearState, States, Onboarding, IInv, TypeOK
<1>3. CASE role' = role
  BY <1>1, <1>2, <1>3, ParkStep
<1>4. CASE role' = "pending"
  BY <1>1, <1>2, <1>4, ChatStep DEF Roles, Consents, IInv, TypeOK
<1> QED
  BY <1>2, <1>3, <1>4

LEMMA DetectStep ==
    ASSUME IInv, NEW w \in Words, RegisteredPro, Detect(w)
    PROVE  Well
<1>1. CASE Having(OwnOpen) # {}
  BY <1>1, GoOnRests, ParkStep DEF Detect, Park, KeepWho, States, IInv, TypeOK
<1>2. CASE Having(OwnOpen) = {}
  BY <1>2, ProCommandStep DEF Detect, RegisteredPro
<1> QED
  BY <1>1, <1>2

-----------------------------------------------------------------------------
(* Messages for the AI.                                                    *)

\* the cutoff of the history is not before a finished job
LEMMA CutoffBounds ==
    ASSUME IInv
    PROVE  Cutoff \in Nat /\ \A l \in Having(Rated) : lead[l].ended <= Cutoff
<1>1. \A l \in Requests : lead[l].ended \in Nat /\ lead[l].ended < era
  BY DEF IInv, Past, TypeOK, Lead
<1>2. era \in Nat /\ \A l \in Requests : lead[l].dated \in Nat
  BY DEF IInv, TypeOK, Lead
<1>3. CASE Having(Rated) # {}
  <2> DEFINE ages == {lead[l].ended : l \in Having(Rated)}
  <2>1. ages \in SUBSET Nat /\ ages # {} /\ \A a \in ages : a <= era
    BY <1>1, <1>2, <1>3 DEF Having
  <2>2. Max(ages) \in ages /\ \A a \in ages : Max(ages) >= a
    BY <1>2, <2>1, Largest
  <2>3. Cutoff = Max(ages)
    BY <1>3 DEF Cutoff
  <2>4. \A l \in Having(Rated) : lead[l].ended \in ages
    OBVIOUS
  <2> HIDE DEF ages
  <2> QED
    BY <2>1, <2>2, <2>3, <2>4
<1>4. CASE Having(Rated) = {} /\ Having(Ended) # {}
  <2>1. Having(Ended) \in SUBSET Present
    BY DEF Having, Present, Statuses, Ended, Rated
  <2>2. Newest(Having(Ended)) \in Requests
    BY <1>4, <2>1, NewestOf DEF IInv, Having
  <2> QED
    BY <1>1, <1>2, <1>4, <2>2 DEF Cutoff, Dated
<1>5. CASE Having(Rated) = {} /\ Having(Ended) = {}
  BY <1>5 DEF Cutoff
<1> QED
  BY <1>3, <1>4, <1>5

\* the message is to read the history, with a lead, or with none being taken in
Starts == /\ job' \in Job /\ job'.s = "idle" /\ job'.at = "history" /\ job'.ask \in Asks
          /\ job'.lead \in Present \cup {0} /\ (job'.ask # "dispatch" => job'.lead # 0)
          /\ job'.began = era
          /\ job'.lead = 0 => context' = 0 /\ Having({"contacted"}) = {}
          /\ job'.lead = 0 /\ job'.msg = "text" => \A b \in job'.seen : lead[b].prompted

LEMMA StartsStep ==
    ASSUME IInv, UNCHANGED leadVars, UNCHANGED <<role, consent, state, reprompted>>,
           role # "customer" \/ consent = "accepted",
           context' \in {0, context, era}, Starts
    PROVE  Well
<1> USE DEF IInv
<1>1. lead' = lead /\ order' = order /\ era' = era
  BY DEF leadVars
<1>2. Present' = Present /\ \A S : Having(S)' = Having(S)
  BY <1>1 DEF Present, Having
<1>3. context' \in 0..era /\ job' \in Job
  BY DEF TypeOK, Starts
<1>4. TypeOK'
  BY <1>1, <1>3 DEF TypeOK, Having
<1>5. JobWhole'
  BY <1>2 DEF JobWhole, Starts, AtWork, Reading
<1>6. Consenting' /\ ConsentGiven'
  BY DEF Consenting, ConsentGiven
<1>7. Past'
  BY <1>1 DEF Past
<1>8. ReadsPast'
  BY <1>1 DEF ReadsPast, Starts, TypeOK
<1>9. OneContacted' /\ SeenAsked'
  BY <1>1, <1>2 DEF OneContacted, SeenAsked, Starts
<1>10. NoneOlder
  BY <1>1 DEF NoneOlder, OlderThan, Past, TypeOK, Lead
<1> QED
  BY <1>4, <1>5, <1>6, <1>7, <1>8, <1>9, <1>10 DEF Well

LEMMA AskAIStarts ==
    ASSUME IInv, NEW w, NEW l \in {ActiveLead}, NEW ask \in Asks,
           ask # "dispatch" => l # 0, AskAI(ask, w, l), l = 0 => context' = 0,
           l = 0 => ~AboutAJob(w) \/ Unprompted = {}
    PROVE  Starts
<1> DEFINE m == IF ask = "dispatch" /\ w \in {"media", "urgent"} THEN "media" ELSE "text"
           q == IF l = 0 THEN Having({"booked"}) ELSE {}
           a == [Idle EXCEPT !.at = "history"]
           b == [a EXCEPT !.ask = ask]
           c == [b EXCEPT !.lead = l]
           d == [c EXCEPT !.began = era]
           e == [d EXCEPT !.msg = m]
           f == [e EXCEPT !.seen = q]
<1>1. l \in Present \cup {0} /\ Present \subseteq Requests
  BY ActiveLeadIsActive DEF IInv, Having, Active, Present, Statuses
<1>2. l = 0 => Having({"contacted"}) = {}
  BY ActiveLeadFound DEF IInv, Having, Active
<1>3. m \in {"media", "text"} /\ q \subseteq Requests /\ era \in Nat
  BY DEF Having, IInv, TypeOK
<1>4. l = 0 /\ m = "text" => \A x \in q : lead[x].prompted
  BY DEF AboutAJob, Unprompted, Having
<1>5. job' = f
  BY DEF AskAI
<1> HIDE DEF m, q
<1>6. Idle \in Job /\ Idle.s = "idle"
  BY DEF Idle, Job, Words, Texts, States
<1>7. a \in Job /\ a.s = "idle" /\ a.at = "history"
  BY <1>6 DEF Job
<1> HIDE DEF a
<1>8. b \in Job /\ b.s = "idle" /\ b.at = "history" /\ b.ask = ask
  BY <1>7 DEF Job
<1> HIDE DEF b
<1>9. c \in Job /\ c.s = "idle" /\ c.at = "history" /\ c.ask = ask /\ c.lead = l
  BY <1>1, <1>8 DEF Job
<1> HIDE DEF c
<1>10. /\ d \in Job /\ d.s = "idle" /\ d.at = "history" /\ d.ask = ask /\ d.lead = l
       /\ d.began = era
  BY <1>3, <1>9 DEF Job
<1> HIDE DEF d
<1>11. /\ e \in Job /\ e.s = "idle" /\ e.at = "history" /\ e.ask = ask /\ e.lead = l
       /\ e.began = era /\ e.msg = m
  BY <1>3, <1>10 DEF Job, Words, Texts
<1> HIDE DEF e
<1>12. /\ f \in Job /\ f.s = "idle" /\ f.at = "history" /\ f.ask = ask /\ f.lead = l
       /\ f.began = era /\ f.msg = m /\ f.seen = q
  BY <1>3, <1>11 DEF Job
<1> HIDE DEF f
<1> QED
  BY <1>1, <1>2, <1>4, <1>5, <1>12 DEF Starts

LEMMA IntakeStep ==
    ASSUME IInv, NEW w, Open(w), Gate(w, Local) = "intake", Intake(w)
    PROVE  Well
<1>1. ActiveLead = 0 => ~AboutAJob(w) \/ Unprompted = {}
  BY GateFacts
<1>2. context' \in {0, context, era} /\ (ActiveLead = 0 => context' = 0)
  BY DEF Intake, Logged
<1>3. Starts
  BY <1>1, <1>2, AskAIStarts DEF Intake, Asks
<1>4. role # "customer" \/ consent = "accepted"
  BY PastConsent
<1> QED
  BY <1>2, <1>3, <1>4, StartsStep DEF Intake, KeepWho, KeepChat

LEMMA AddressStep ==
    ASSUME IInv, NEW w \in Words, Open(w), Gate(w, Local) = "address", Address(w)
    PROVE  Well
<1>1. role # "customer" \/ consent = "accepted"
  BY PastConsent
<1>2. UNCHANGED <<role, consent, order>>
  BY DEF Address, KeepWho
<1>3. CASE ActiveLead # 0 /\ Ends(ActiveLead, "cancelled") /\ ClearState /\ context' = 0 /\ Done
  <2>1. ActiveLead \in Present
    BY <1>3, ActiveLeadIsActive DEF IInv, Having, Active, Present, Statuses
  <2> QED
    BY <1>2, <1>3, <2>1, IdleRests, EndsStep DEF Ends, ClearState, Ended, Rated, States
<1>4. CASE UNCHANGED <<lead, era>> /\ ClearState /\ context' = 0 /\ Done
  BY <1>2, <1>4, IdleRests, ParkStep DEF ClearState, States, leadVars
<1>5. CASE Done /\ KeepChat /\ UNCHANGED <<lead, era, context>>
  BY <1>2, <1>5, IdleRests, ParkStep DEF KeepChat, leadVars, IInv, TypeOK
<1>6. CASE ClearState /\ GoOn(w, "address_left") /\ UNCHANGED <<lead, era, context>>
  BY <1>2, <1>6, GoOnRests, ParkStep DEF ClearState, States, leadVars
<1>7. CASE /\ ActiveLead # 0 /\ Log /\ AskAI("address", w, ActiveLead)
           /\ KeepChat /\ UNCHANGED <<lead, era>>
  <2>1. Starts
    BY <1>7, AskAIStarts DEF Asks
  <2> QED
    BY <1>1, <1>2, <1>7, <2>1, LogKeeps, StartsStep DEF KeepChat, leadVars
<1>8. CASE Log /\ Done /\ KeepChat /\ UNCHANGED <<lead, era>>
  BY <1>2, <1>8, LogKeeps, IdleRests, ParkStep DEF KeepChat, leadVars, IInv, TypeOK
<1> QED
  BY <1>3, <1>4, <1>5, <1>6, <1>7, <1>8 DEF Address

-----------------------------------------------------------------------------
(* The history is read.                                                    *)

\* a step of get_chat_history: to the cache, to the AI or, over the cap, to the end
LEMMA ReadStep ==
    ASSUME IInv, job.at \in Reading, UNCHANGED leadVars,
           UNCHANGED <<role, consent, state, reprompted>>, context' \in 0..era,
           \/ context' \in {0, context}
           \/ Cache /\ job.at = "cache" /\ context' = job.given /\ job.given <= job.began,
           \/ /\ job' \in Job /\ job'.s = job.s /\ job'.lead = job.lead
              /\ job'.msg = job.msg /\ job'.seen = job.seen
              /\ \/ job'.at = job.ask
                 \/ /\ job'.at = "cache" /\ job'.ask = job.ask /\ job'.began = job.began
                    /\ \A l \in Having(Rated) : lead[l].ended < job'.given
           \/ RestsOrDeals
    PROVE  Well
<1> USE DEF IInv
<1>1. lead' = lead /\ order' = order /\ era' = era
  BY DEF leadVars
<1>2. Present' = Present /\ \A S : Having(S)' = Having(S)
  BY <1>1 DEF Present, Having
<1>3. TypeOK'
  <2>1. job' \in Job
    BY DEF RestsOrDeals
  <2> QED
    BY <1>1, <2>1 DEF TypeOK, Having
<1>4. job.ask \in Asks /\ (job.ask # "dispatch" => job.lead # 0)
  BY DEF JobWhole
<1>5. JobWhole'
  BY <1>2, <1>4 DEF JobWhole, RestsOrDeals, AtWork, Fallen, Reading, Asks
<1>6. Consenting' /\ ConsentGiven'
  BY <1>2 DEF Consenting, ConsentGiven
<1>7. Past'
  BY <1>1 DEF Past
<1>8. ReadsPast'
  BY <1>1, <1>4 DEF ReadsPast, RestsOrDeals, Reading, Asks, Having
<1>9. OneContacted' /\ SeenAsked'
  BY <1>1, <1>2, <1>4 DEF OneContacted, SeenAsked, RestsOrDeals, Reading, Asks
<1>10. NoneOlder
  <2>1. CASE context' \in {0, context}
    BY <1>1, <2>1 DEF NoneOlder, OlderThan
  <2>2. CASE Cache /\ job.at = "cache" /\ context' = job.given /\ job.given <= job.began
    <3> SUFFICES ASSUME NEW l \in Requests, OlderThan(l)'
                 PROVE  job.began <= lead[l].ended
      BY <2>2 DEF NoneOlder
    <3>1. lead[l].status \in Rated /\ job.given <= lead[l].ended
      BY <1>1, <2>2 DEF OlderThan
    <3>2. lead[l].ended \in Nat /\ job.began \in Nat /\ job.given \in Nat
      BY DEF TypeOK, Lead, Job
    <3>3. ~(lead[l].ended < job.began)
      BY <2>2, <3>1, <3>2 DEF ReadsPast
    <3> QED
      BY <3>2, <3>3
  <2> QED
    BY <2>1, <2>2
<1> QED
  BY <1>3, <1>5, <1>6, <1>7, <1>8, <1>9, <1>10 DEF Well

LEMMA PromptGives ==
    ASSUME IInv, job.at \in Reading, NEW given \in Nat, Prompt(given)
    PROVE  \/ /\ job' \in Job /\ job'.s = job.s /\ job'.lead = job.lead
              /\ job'.msg = job.msg /\ job'.seen = job.seen
              /\ job'.at = job.ask /\ job'.given = given
           \/ RestsOrDeals
<1> DEFINE a == [job EXCEPT !.at = job.ask]
           b == [a EXCEPT !.ask = "none"]
           c == [b EXCEPT !.began = 0]
           d == [c EXCEPT !.given = given]
<1>1. CASE job' = d
  <2>1. job \in Job /\ job.ask \in Asks
    BY DEF IInv, TypeOK, JobWhole
  <2>2. /\ a \in Job /\ a.s = job.s /\ a.lead = job.lead /\ a.msg = job.msg
        /\ a.seen = job.seen /\ a.at = job.ask
    BY <2>1 DEF Job, Asks
  <2> HIDE DEF a
  <2>3. /\ b \in Job /\ b.s = job.s /\ b.lead = job.lead /\ b.msg = job.msg
        /\ b.seen = job.seen /\ b.at = job.ask
    BY <2>2 DEF Job
  <2> HIDE DEF b
  <2>4. /\ c \in Job /\ c.s = job.s /\ c.lead = job.lead /\ c.msg = job.msg
        /\ c.seen = job.seen /\ c.at = job.ask
    BY <2>3 DEF Job
  <2> HIDE DEF c
  <2>5. /\ d \in Job /\ d.s = job.s /\ d.lead = job.lead /\ d.msg = job.msg
        /\ d.seen = job.seen /\ d.at = job.ask /\ d.given = given
    BY <2>4 DEF Job
  <2> HIDE DEF d
  <2> QED
    BY <1>1, <2>5
<1>2. CASE Done
  BY <1>2, IdleRests
<1> QED
  BY <1>1, <1>2 DEF Prompt

LEMMA LookUpStep ==
    ASSUME IInv, LookUp
    PROVE  Well
<1>1. /\ job.at = "history" /\ job.at \in Reading /\ context \in 0..era /\ era \in Nat
      /\ job \in Job
  BY DEF LookUp, Reading, IInv, TypeOK
<1>2. UNCHANGED leadVars /\ UNCHANGED <<role, consent, state, reprompted>> /\ context' = context
  BY DEF LookUp, KeepWho, KeepChat
<1>3. CASE Prompt(context)
  BY <1>1, <1>2, <1>3, PromptGives, ReadStep
<1>4. CASE job' = [job EXCEPT !.at = "cache", !.given = Cutoff + 1]
  <2> DEFINE a == [job EXCEPT !.at = "cache"]
             b == [a EXCEPT !.given = Cutoff + 1]
  <2>1. Cutoff + 1 \in Nat
    BY CutoffBounds
  <2>2. /\ a \in Job /\ a.s = job.s /\ a.lead = job.lead /\ a.msg = job.msg
        /\ a.seen = job.seen /\ a.at = "cache" /\ a.ask = job.ask /\ a.began = job.began
    BY <1>1 DEF Job
  <2> HIDE DEF a
  <2>3. /\ b \in Job /\ b.s = job.s /\ b.lead = job.lead /\ b.msg = job.msg
        /\ b.seen = job.seen /\ b.at = "cache" /\ b.ask = job.ask /\ b.began = job.began
        /\ b.given = Cutoff + 1
    BY <2>1, <2>2 DEF Job
  <2>4. job' = b
    BY <1>1, <1>4 DEF a
  <2> HIDE DEF b
  <2>5. \A l \in Having(Rated) : lead[l].ended < Cutoff + 1
    BY CutoffBounds DEF Having, IInv, TypeOK, Lead
  <2> QED
    BY <1>1, <1>2, <2>3, <2>4, <2>5, ReadStep
<1> QED
  BY <1>3, <1>4 DEF LookUp

LEMMA CacheStep ==
    ASSUME IInv, Cache
    PROVE  Well
<1>1. /\ job.at = "cache" /\ job.at \in Reading /\ job.given \in Nat /\ job.began \in Nat
      /\ era \in Nat /\ job.began <= era
  BY DEF Cache, Reading, IInv, TypeOK, Job, ReadsPast
<1>2. UNCHANGED leadVars /\ UNCHANGED <<role, consent, state, reprompted>>
  BY DEF Cache, KeepWho, KeepChat
<1>3. context' \in 0..era /\ (context' = 0 \/ (context' = job.given /\ job.given <= job.began))
  BY <1>1 DEF Cache
<1>4. Prompt(job.given)
  BY DEF Cache
<1> QED
  BY <1>1, <1>2, <1>3, <1>4, PromptGives, ReadStep

-----------------------------------------------------------------------------
(* The AI answers.                                                         *)

LEMMA AnswerEnds ==
    ASSUME IInv,
           IntentAnswered \/ Overload \/ (\E complete \in BOOLEAN : AddressAnswered(complete))
              \/ Reply \/ ParkDeal
    PROVE  Well
<1>1. /\ RestsOrDeals /\ UNCHANGED <<role, consent>> /\ UNCHANGED leadVars
      /\ context' \in {context, era} /\ reprompted' \in BOOLEAN
  BY IdleRests, LogKeeps
     DEF IntentAnswered, Overload, AddressAnswered, Reply, ParkDeal, KeepWho, KeepChat, ClearState,
         Park, IInv, TypeOK
<1>2. state' \in {state} \cup (States \ {"pro_mode", "awaiting_consent"})
  BY DEF IntentAnswered, Overload, AddressAnswered, Reply, ParkDeal, KeepChat, ClearState,
         Park, States
<1> QED
  BY <1>1, <1>2, ParkStep

LEMMA ProVoiceStep ==
    ASSUME IInv, ProVoice
    PROVE  Well
<1>1. job.at \in AtWork /\ job \in Job
  BY DEF ProVoice, AtWork, IInv, TypeOK
<1>2. CASE job' = [Idle EXCEPT !.at = "deal", !.lead = job.lead]
  <2> DEFINE a == [Idle EXCEPT !.at = "deal"]
  <2>1. Idle \in Job /\ Idle.s = "idle"
    BY DEF Idle, Job, Words, Texts, States
  <2>2. a \in Job /\ a.s = "idle" /\ a.at = "deal"
    BY <2>1 DEF Job
  <2>3. job' = [a EXCEPT !.lead = job.lead]
    BY <1>2, <2>1 DEF Job
  <2> HIDE DEF a
  <2>4. job' \in Job /\ job'.s = "idle" /\ job'.at = "deal" /\ job'.lead = job.lead
    BY <1>1, <2>2, <2>3 DEF Job
  <2>5. RestsOrDeals
    BY <1>1, <2>4 DEF RestsOrDeals, Fallen
  <2> QED
    BY <2>5, LogKeeps, ParkStep DEF ProVoice, KeepWho, KeepChat, IInv, TypeOK
<1>3. CASE Done
  BY <1>3, IdleRests, LogKeeps, ParkStep DEF ProVoice, KeepWho, KeepChat, IInv, TypeOK
<1> QED
  BY <1>2, <1>3 DEF ProVoice

\* the lead the handler works on
LEMMA LeadAtWork ==
    ASSUME IInv, job.at \in AtWork
    PROVE  /\ job.lead \in Present /\ job.lead \in Requests /\ lead[job.lead] \in Lead
           /\ lead[job.lead].pro \in BOOLEAN /\ job \in Job /\ job.s \in Fallen
  BY DEF IInv, JobWhole, Present, Having, TypeOK, Lead, Fallen

LEMMA OfferLoyaltyStep ==
    ASSUME IInv, OfferLoyalty
    PROVE  Well
<1> DEFINE l == job.lead
           r == [lead[l] EXCEPT !.loyal = TRUE]
<1>1. l \in Present /\ lead[l] \in Lead
  BY LeadAtWork DEF OfferLoyalty, AtWork
<1>2. /\ RestsOrDeals /\ UNCHANGED <<role, consent, order, era>> /\ reprompted' \in BOOLEAN
      /\ state' \in States \ {"pro_mode", "awaiting_consent"} /\ context' \in {context, era}
  BY IdleRests, LogKeeps DEF OfferLoyalty, KeepWho, Park, States, Prompts, IInv, TypeOK
<1>3. lead' = [lead EXCEPT ![l].loyal = TRUE]
  BY DEF OfferLoyalty
<1> HIDE DEF l
<1>4. /\ r \in Lead /\ r.status = lead[l].status /\ r.ended = lead[l].ended
      /\ r.prompted = lead[l].prompted /\ r.clears = lead[l].clears
  BY <1>1 DEF Lead
<1>5. lead' = [lead EXCEPT ![l] = r]
  BY <1>3
<1> HIDE DEF r
<1> QED
  BY <1>1, <1>2, <1>4, <1>5, MarkStep

LEMMA EscalateStep ==
    ASSUME IInv, Escalate
    PROVE  Well
<1>1. job.lead \in Present /\ job.lead \in Requests /\ lead[job.lead].pro \in BOOLEAN
  BY LeadAtWork DEF Escalate, AtWork
<1>2. lead' = [lead EXCEPT ![job.lead] = Rewritten(job.lead, "pending_admin_review", lead[job.lead].pro)]
  BY <1>1, RewrittenLead DEF Escalate, Set, Statuses, IInv
<1>3. /\ RestsOrDeals /\ UNCHANGED <<role, consent, order, era>> /\ UNCHANGED <<state, reprompted>>
      /\ context' \in {context, era}
  BY IdleRests, LogKeeps DEF Escalate, Set, KeepWho, KeepChat
<1> QED
  BY <1>1, <1>2, <1>3, OrderKept, SetStep DEF Statuses, Rated, IInv, TypeOK

LEMMA MatchStep ==
    ASSUME IInv, Match
    PROVE  Well
<1> DEFINE l == job.lead
           r == [lead[l] EXCEPT !.pro = TRUE]
<1>1. l \in Present /\ lead[l] \in Lead /\ job \in Job /\ job.s \in Fallen /\ job.at \in AtWork
  BY LeadAtWork DEF Match, AtWork
<1>2. job'.at = "matched" /\ job'.s = job.s /\ job'.lead = job.lead /\ job' \in Job
  BY <1>1 DEF Match, Job
<1>3. RestsOrDeals
  BY <1>1, <1>2 DEF RestsOrDeals
<1>4. UNCHANGED <<role, consent, order, era>> /\ UNCHANGED <<state, reprompted, context>>
  BY DEF Match, KeepWho, KeepChat
<1>5. lead' = [lead EXCEPT ![l].pro = TRUE]
  BY DEF Match
<1> HIDE DEF l
<1>6. /\ r \in Lead /\ r.status = lead[l].status /\ r.ended = lead[l].ended
      /\ r.prompted = lead[l].prompted /\ r.clears = lead[l].clears
  BY <1>1 DEF Lead
<1>7. lead' = [lead EXCEPT ![l] = r]
  BY <1>5
<1> HIDE DEF r
<1> QED
  BY <1>1, <1>3, <1>4, <1>6, <1>7, MarkStep DEF IInv, TypeOK

LEMMA FinalizeDealStep ==
    ASSUME IInv, FinalizeDeal
    PROVE  Well
<1>1. /\ job.lead \in Present /\ job.lead \in Requests /\ job \in Job /\ job.s \in Fallen
      /\ job.at \in AtWork
  BY LeadAtWork DEF FinalizeDeal, AtWork
<1>2. UNCHANGED <<role, consent, order, era, context>>
  BY DEF FinalizeDeal, KeepWho
<1>3. CASE Park("awaiting_address") /\ Done /\ UNCHANGED lead
  BY <1>2, <1>3, IdleRests, ParkStep DEF leadVars, Park, States, IInv, TypeOK
<1>4. CASE /\ lead' = [lead EXCEPT ![job.lead].status = "new", ![job.lead].pro = TRUE,
                                   ![job.lead].stale = FALSE]
           /\ job' = [job EXCEPT !.at = "park"] /\ KeepChat
  <2>1. lead' = [lead EXCEPT ![job.lead] = Rewritten(job.lead, "new", TRUE)]
    BY <1>1, <1>4, RewrittenLead DEF Statuses, Active, IInv
  <2>2. job' \in Job /\ job'.at = "park" /\ job'.s = job.s /\ job'.lead = job.lead
    BY <1>1, <1>4 DEF Job
  <2>3. RestsOrDeals
    BY <1>1, <2>2 DEF RestsOrDeals
  <2> QED
    BY <1>1, <1>2, <1>4, <2>1, <2>3, OrderKept, SetStep
       DEF KeepChat, Statuses, Active, Rated, IInv, TypeOK
<1> QED
  BY <1>3, <1>4 DEF FinalizeDeal

\* a lead is taken in only when no other is, and joins the order as the newest
LEMMA SaveFactsStep ==
    ASSUME IInv, NEW l \in Requests, SaveFacts(l)
    PROVE  Well
<1>1. /\ job.at = "dispatch" /\ UNCHANGED <<role, consent, state, reprompted, era, context>>
      /\ job' = [Idle EXCEPT !.at = "facts", !.lead = l]
  BY DEF SaveFacts, KeepWho, KeepChat
<1>2. job' \in Job /\ job'.s \in Fallen /\ job'.lead = l /\ l # 0 /\ job'.at = "facts"
  <2> DEFINE a == [Idle EXCEPT !.at = "facts"]
  <2>1. Idle \in Job /\ Idle.s = "idle"
    BY DEF Idle, Job, Words, Texts, States
  <2>2. a \in Job /\ a.s = "idle" /\ a.at = "facts"
    BY <2>1 DEF Job
  <2>3. job' = [a EXCEPT !.lead = l]
    BY <1>1, <2>1 DEF Job
  <2> HIDE DEF a
  <2> QED
    BY <2>2, <2>3 DEF Job, Fallen, Requests
<1>3. role # "customer" \/ consent = "accepted"
  BY <1>1 DEF IInv, ConsentGiven, Thinking, Asks
<1>4. CASE job.lead # 0
  <2>1. l = job.lead /\ lead' = lead /\ order' = order
    BY <1>4 DEF SaveFacts
  <2>2. Present' = Present /\ \A S : Having(S)' = Having(S)
    BY <2>1 DEF Present, Having
  <2>3. TypeOK'
    BY <1>1, <1>2, <2>1 DEF TypeOK, IInv, Having
  <2>4. JobWhole'
    BY <1>2, <1>4, <2>1, <2>2 DEF JobWhole, IInv, Fallen, Reading
  <2>5. Consenting' /\ ConsentGiven'
    BY <1>1, <1>3 DEF Consenting, ConsentGiven, IInv
  <2>6. Past'
    BY <1>1, <2>1 DEF Past, IInv
  <2>7. OneContacted' /\ SeenAsked' /\ ReadsPast'
    BY <1>2, <2>2 DEF OneContacted, SeenAsked, ReadsPast, Reading, IInv
  <2>8. NoneOlder
    BY <1>1, <2>1 DEF NoneOlder, OlderThan
  <2> QED
    BY <2>3, <2>4, <2>5, <2>6, <2>7, <2>8 DEF IInv, Well
<1>5. CASE job.lead = 0
  <2>1. Having({"contacted"}) = {}
    BY <1>1, <1>5 DEF IInv, OneContacted
  <2>2. /\ lead[l].status = "absent" /\ lead' = [lead EXCEPT ![l].status = "contacted"]
        /\ order' = Append(order, l)
    BY <1>5, <2>1 DEF SaveFacts, Upsert
  <2> DEFINE r == [lead[l] EXCEPT !.status = "contacted"]
  <2>3. lead[l] \in Lead /\ lead \in [Requests -> Lead]
    BY DEF IInv, TypeOK
  <2>4. /\ r \in Lead /\ r.status = "contacted" /\ r.ended = lead[l].ended
        /\ lead' = [lead EXCEPT ![l] = r]
    BY <2>2, <2>3 DEF Lead, Statuses, Active
  <2> HIDE DEF r
  <2>5. /\ lead' \in [Requests -> Lead] /\ lead'[l] = r
        /\ \A k \in Requests : k # l => lead'[k] = lead[k]
    BY <2>3, <2>4
  <2>6. Present' = Present \cup {l} /\ l \notin Present
    BY <2>2, <2>4, <2>5 DEF Present, Having, Statuses, Active
  <2>7. Having({"contacted"})' = {l}
    BY <2>1, <2>4, <2>5 DEF Having
  <2>8. order' \in Seq(Requests) /\ Range(order') = Present \cup {l} /\ IsInjective(order')
    BY <2>2, <2>6, AppendedOrder DEF IInv
  <2>9. TypeOK'
    BY <1>1, <1>2, <2>5, <2>6, <2>8 DEF TypeOK, IInv, Present
  <2>10. JobWhole'
    BY <1>2, <2>6 DEF JobWhole, Fallen, Reading
  <2>11. Consenting' /\ ConsentGiven'
    BY <1>1, <1>3 DEF Consenting, ConsentGiven, IInv
  <2>12. Past'
    BY <1>1, <2>4, <2>5 DEF Past, IInv
  <2>13. OneContacted' /\ SeenAsked' /\ ReadsPast'
    BY <1>2, <2>7 DEF OneContacted, SeenAsked, ReadsPast, Reading
  <2>14. NoneOlder
    BY <1>1, <2>4, <2>5 DEF NoneOlder, OlderThan, Rated
  <2> QED
    BY <2>9, <2>10, <2>11, <2>12, <2>13, <2>14 DEF IInv, Well
<1> QED
  BY <1>4, <1>5

-----------------------------------------------------------------------------
(* The invariant is inductive.                                             *)

\* a pro's menu is open to pros only
LEMMA MenuIsAPros ==
    ASSUME IInv, NEW w, Open(w), Gate(w, Local) = "pro"
    PROVE  role # "customer"
  BY LocalState, GateFacts DEF ProGate, RegisteredPro

LEMMA HandleStep ==
    ASSUME IInv, NEW w \in Words, Handle(w)
    PROVE  Well
<1>1. Open(w)
  BY DEF Handle
<1> DEFINE gate == Gate(w, Local)
<1>2. CASE Reset(w) \/ ConfirmIntent(w)
  BY <1>2, ResetStep, ConfirmIntentStep
<1>3. CASE gate = "consent" /\ AskConsent(w)
  BY <1>1, <1>3, AskConsentStep
<1>4. CASE Thanked(w) \/ Told(w) \/ Declined(w) \/ KeepSilent(w) \/ UnderReview(w)
  BY <1>4, AnswerSteps
<1>5. CASE CallHuman(w) \/ PickSlot(w) \/ AnswerNewOrExisting(w) \/ SwitchToCustomer(w) \/ Register(w)
  BY <1>5, ParkingSteps
<1>6. CASE Hold(w) \/ AnswerLoyalty(w) \/ Onboard(w)
  BY <1>6, HoldStep, AnswerLoyaltyStep, OnboardStep
<1>7. CASE gate = "intercept" /\ Intercept(w)
  BY <1>7, InterceptStep, GateFacts
<1>8. CASE gate = "completion" /\ Complete(w)
  BY <1>8, CompleteStep, GateFacts
<1>9. CASE gate = "pro" /\ ProCommand(w)
  BY <1>1, <1>9, MenuIsAPros, ProCommandStep
<1>10. CASE gate = "address" /\ Address(w)
  BY <1>1, <1>10, AddressStep
<1>11. CASE gate = "detect" /\ Detect(w)
  BY <1>11, DetectStep, GateFacts
<1>12. CASE Rate(w) \/ Comment(w)
  BY <1>12, RateStep
<1>13. CASE gate = "second" /\ AskNewOrExisting(w)
  BY <1>13, AskNewOrExistingStep, GateFacts
<1>14. CASE gate = "intake" /\ Intake(w)
  BY <1>1, <1>14, IntakeStep
<1> HIDE DEF gate
<1> QED
  BY <1>2, <1>3, <1>4, <1>5, <1>6, <1>7, <1>8, <1>9, <1>10, <1>11, <1>12, <1>13, <1>14, Zenon
     DEF Handle, gate

LEMMA InvInit ==
    ASSUME Init
    PROVE  IInv
<1>1. /\ \A l \in Requests : lead[l] = NoRequest
      /\ lead = [l \in Requests |-> NoRequest]
  BY DEF Init
<1>2. \A l \in Requests : lead[l].status = "absent" /\ lead[l].ended = 0 /\ ~lead[l].clears
  BY <1>1 DEF NoRequest
<1>3. Present = {} /\ Having({"contacted"}) = {}
  BY <1>2 DEF Present, Having
<1>4. order \in Seq(Requests) /\ Range(order) = Present /\ IsInjective(order)
  BY <1>3 DEF Init, Range, IsInjective
<1>5. NoRequest \in Lead
  BY DEF NoRequest, Lead, Statuses
<1>6. job \in Job /\ job.s = "idle" /\ job.at = "idle" /\ job.lead = 0
  BY DEF Init, Idle, Job, Words, Texts, States
<1>7. TypeOK
  <2>1. era \in 1..MaxEras /\ context \in 0..era
    BY ConversationAssumption DEF Init
  <2>2. state \in States /\ reprompted \in BOOLEAN /\ consent = "none"
    BY DEF Init, States
  <2>3. role \in {"customer", "pro", "away", "pending"}
    BY ConversationAssumption DEF Init
  <2> QED
    BY <1>1, <1>4, <1>5, <1>6, <2>1, <2>2, <2>3 DEF TypeOK, Present
<1>8. JobWhole
  BY <1>6 DEF JobWhole, AtWork, Reading
<1>9. Consenting
  BY DEF Consenting, Init
<1>10. ConsentGiven
  BY <1>3, <1>6 DEF ConsentGiven, Thinking, Asks, Reading
<1>11. Past
  BY <1>2 DEF Past, Init
<1>12. OneContacted /\ SeenAsked /\ ReadsPast
  BY <1>3, <1>6 DEF OneContacted, SeenAsked, ReadsPast, Reading
<1> QED
  BY <1>7, <1>8, <1>9, <1>10, <1>11, <1>12 DEF IInv

LEMMA StutterKeeps ==
    ASSUME IInv, UNCHANGED vars
    PROVE  Well
  BY ParkStep DEF vars, leadVars, KeepsHandler, IInv, TypeOK

LEMMA AnswerStep ==
    ASSUME IInv, Answer
    PROVE  Well
<1>1. CASE IntentAnswered \/ Overload \/ (\E complete \in BOOLEAN : AddressAnswered(complete))
              \/ Reply \/ ParkDeal
  BY <1>1, AnswerEnds
<1>2. CASE \E l \in Requests : SaveFacts(l)
  BY <1>2, SaveFactsStep
<1>3. CASE LookUp \/ Cache \/ OfferLoyalty \/ Escalate \/ Match \/ ProVoice \/ FinalizeDeal
  BY <1>3, LookUpStep, CacheStep, OfferLoyaltyStep, EscalateStep, MatchStep, ProVoiceStep, FinalizeDealStep
<1> QED
  BY <1>1, <1>2, <1>3, Zenon DEF Answer

LEMMA WorldStep ==
    ASSUME IInv, World
    PROVE  Well
<1>1. ASSUME NEW l \in Requests,
             \/ ProApproves(l) \/ ProDrops(l) \/ ProFinishes(l) \/ ProClears(l)
             \/ PanelCompletes(l) \/ ProPauses(l) \/ Heal(l) \/ TakeOver(l) \/ ReviewAges(l)
      PROVE  Well
  BY <1>1, ProApprovesStep, ProDropsStep, ProClearsStep, ProPausesStep, HealStep, TakeOverStep,
     ReviewAgesStep
<1>2. CASE AdmitPro \/ StateExpires \/ ContextExpires
  BY <1>2, AdmitProStep, StateExpiresStep, ContextExpiresStep
<1> QED
  BY <1>1, <1>2, Zenon DEF World

LEMMA InvNext ==
    ASSUME IInv, [Next]_vars
    PROVE  Well
<1>1. CASE Limited \/ UNCHANGED vars
  BY <1>1, StutterKeeps DEF Limited
<1>2. CASE \E w \in Words : Handle(w)
  BY <1>2, HandleStep
<1>3. CASE Answer
  BY <1>3, AnswerStep
<1>4. CASE World
  BY <1>4, WorldStep
<1> QED
  BY <1>1, <1>2, <1>3, <1>4, Zenon DEF Next

LEMMA Inductive == Spec => []IInv
<1>1. IInv /\ [Next]_vars => IInv'
  BY InvNext DEF Well
<1> QED
  BY <1>1, InvInit, PTL DEF Spec

-----------------------------------------------------------------------------
(* What follows.                                                           *)

\* Every variable keeps its type and the order lists the leads there are,
\* whatever the messages, the AI, the pro, the Healer and the TTLs do.
THEOREM TypeCorrect == Spec => []TypeOK
<1>1. IInv => TypeOK
  BY DEF IInv
<1> QED
  BY <1>1, Inductive, PTL

\* The consent gate of _process_incoming_message_inner stands before every path
\* to the AI and to a lead, the prompts that bypass later gates included.
THEOREM ConsentComesFirst == Spec => []ConsentFirst
<1>1. IInv => ConsentFirst
  BY DEF IInv, ConsentFirst, ConsentGiven, Present
<1> QED
  BY <1>1, Inductive, PTL

\* get_chat_history, set_history and clear_context together: a step makes the
\* cached history reach back before a job that was completed and cleared only when
\* the job ended while a message of the chat was reading the history.
THEOREM HistoryStaysApart == Spec => NothingOfAFinishedJob
<1> DEFINE Young == \A l \in Requests :
                       OlderThan(l)' => OlderThan(l) \/ (Cache /\ job.began <= lead[l].ended)
<1>1. IInv /\ [Next]_vars => [Young]_vars
  BY InvNext DEF Well, NoneOlder
<1> QED
  BY <1>1, Inductive, PTL DEF NothingOfAFinishedJob, Spec

\* Only get_chat_history hands a message to the AI.
LEMMA OnlyReadingPrompts ==
    ASSUME IInv, [Next]_vars, job.at \in Reading, job'.at = "dispatch"
    PROVE  LookUp \/ Cache
<1>1. job' # job
  BY DEF Reading
<1>2. \A w \in Words : ~Handle(w)
  BY DEF Handle, Open, Reading
<1>3. ~World /\ ~Limited /\ ~UNCHANGED vars
  BY <1>1 DEF World, ProApproves, ProDrops, ProFinishes, ProClears, PanelCompletes, ProPauses, Heal,
              TakeOver, ReviewAges, AdmitPro, StateExpires, ContextExpires, Limited, vars, Reading
<1>4. ~\E l \in Requests : SaveFacts(l)
  BY DEF SaveFacts, Reading
<1>5. ~Overload /\ ~IntentAnswered /\ ~\E complete \in BOOLEAN : AddressAnswered(complete)
  BY DEF Overload, IntentAnswered, AddressAnswered, Asks, Reading
<1>6. /\ ~Reply /\ ~OfferLoyalty /\ ~Escalate /\ ~Match /\ ~ProVoice /\ ~FinalizeDeal
      /\ ~ParkDeal
  BY DEF Reply, OfferLoyalty, Escalate, Match, ProVoice, FinalizeDeal, ParkDeal, Reading
<1> QED
  BY <1>2, <1>3, <1>4, <1>5, <1>6 DEF Next, Answer

\* The fresh-start guard and the cutoff: a message without an active lead reads the
\* database, from the last completed job on, whatever ends while it reads.
THEOREM NewRequestStartsFresh == Spec => FreshStart
<1> DEFINE Fresh == (job.at \in Reading /\ job'.at = "dispatch" /\ job.lead = 0)
                       => \A l \in Having(Rated) :
                             lead[l].ended < job.began => lead[l].ended < job'.given
<1>1. ASSUME IInv, [Next]_vars
      PROVE  Fresh
  <2> SUFFICES ASSUME job.at \in Reading, job'.at = "dispatch", job.lead = 0,
                      NEW l \in Having(Rated), lead[l].ended < job.began
               PROVE  lead[l].ended < job'.given
    OBVIOUS
  <2>1. CASE LookUp
    <3>1. context = 0 /\ job \in Job
      BY <1>1, <2>1 DEF LookUp, IInv, ReadsPast, TypeOK
    <3>2. job' = [job EXCEPT !.at = "cache", !.given = Cutoff + 1]
      BY <2>1, <3>1 DEF LookUp
    <3> QED
      BY <3>1, <3>2 DEF Job
  <2>2. CASE Cache
    <3>1. job.at = "cache" /\ job.given \in Nat /\ Prompt(job.given)
      BY <1>1, <2>2 DEF Cache, IInv, TypeOK, Job
    <3>2. ~RestsOrDeals
      BY <3>1 DEF RestsOrDeals
    <3>3. job'.given = job.given
      BY <1>1, <3>1, <3>2, PromptGives
    <3> QED
      BY <1>1, <3>1, <3>3 DEF IInv, ReadsPast, Having
  <2> QED
    BY <1>1, <2>1, <2>2, OnlyReadingPrompts
<1>2. IInv /\ [Next]_vars => [Fresh]_vars
  BY <1>1
<1> QED
  BY <1>2, Inductive, PTL DEF FreshStart, Spec

\* Step 4 of the intake and create_lead_from_dict: a handler that found no
\* active lead still finds none when it takes one in, so there is never a twin.
THEOREM OneIntake == Spec => []OneRequestTakenIn
<1>1. ASSUME IInv
      PROVE  OneRequestTakenIn
  <2> DEFINE S == Having({"contacted"})
  <2>1. \A k, l \in S : k = l
    BY <1>1 DEF IInv, OneContacted
  <2>2. CASE S = {}
    BY <2>2, FS_EmptySet DEF OneRequestTakenIn
  <2>3. ASSUME NEW l \in S
        PROVE  OneRequestTakenIn
    <3>1. S = {l}
      BY <2>1, <2>3
    <3>2. Cardinality({l}) = 1
      BY FS_Singleton
    <3> QED
      BY <3>1, <3>2 DEF OneRequestTakenIn
  <2> QED
    BY <2>2, <2>3
<1> QED
  BY <1>1, Inductive, PTL

\* Only SaveFacts takes a lead in.
LEMMA OnlyFactsTakeIn ==
    ASSUME IInv, [Next]_vars, NEW k \in Requests,
           lead[k].status = "absent", lead'[k].status = "contacted"
    PROVE  \E l \in Requests : SaveFacts(l)
<1>1. \A l \in Requests, status \in Ended, dated \in Nat, clears \in BOOLEAN :
         ~EndsDated(l, status, dated, clears)
  <2> SUFFICES ASSUME NEW l \in Requests, NEW status \in Ended, NEW dated \in Nat,
                      NEW clears \in BOOLEAN, EndsDated(l, status, dated, clears)
               PROVE  FALSE
    OBVIOUS
  <2> DEFINE r == Closed(l, status, dated, clears)
  <2>1. status \in Statuses /\ status # "contacted" /\ TypeOK
    BY DEF Statuses, Ended, Rated, IInv
  <2>2. r \in Lead /\ r.status = status /\ r.ended = era /\ r.clears = clears
    BY <2>1, EndedLead
  <2>3. lead' = [lead EXCEPT ![l] = r]
    BY DEF EndsDated, Closed
  <2> HIDE DEF r
  <2> QED
    BY <2>1, <2>2, <2>3 DEF IInv, TypeOK
<1>2. ASSUME NEW l \in Requests, NEW status \in Statuses \ {"contacted"}, NEW pro \in BOOLEAN,
             lead' = [lead EXCEPT ![l] = Rewritten(l, status, pro)]
      PROVE  FALSE
  BY <1>2 DEF Rewritten, IInv, TypeOK
<1>3. ASSUME NEW l \in Requests, NEW status \in Statuses \ {"contacted"},
             \/ lead' = [lead EXCEPT ![l].status = status, ![l].pro = TRUE, ![l].stale = FALSE]
             \/ lead' = [lead EXCEPT ![l].status = status, ![l].stale = FALSE]
      PROVE  FALSE
  <2>1. lead[l].pro \in BOOLEAN /\ TRUE \in BOOLEAN /\ TypeOK
    BY DEF IInv, TypeOK, Lead
  <2>2. \/ lead' = [lead EXCEPT ![l] = Rewritten(l, status, TRUE)]
        \/ lead' = [lead EXCEPT ![l] = Rewritten(l, status, lead[l].pro)]
    BY <1>3, <2>1, RewrittenLead, Zenon
  <2> QED
    BY <1>2, <2>1, <2>2
<1>4. {"new", "booked", "pending_admin_review", "comment", "completed"} \subseteq Statuses \ {"contacted"}
  BY DEF Statuses, Active, Ended, Rated
<1>5. \A l \in Requests : ~Reassign(l)
  BY <1>3, <1>4 DEF Reassign
<1>6. ASSUME NEW l, NEW r, lead' = [lead EXCEPT ![l] = r], l = k => r.status = lead[k].status
      PROVE  FALSE
  BY <1>6 DEF IInv, TypeOK
<1>7. ASSUME NEW l, \/ lead' = [lead EXCEPT ![l].pro = TRUE]
                    \/ lead' = [lead EXCEPT ![l].loyal = TRUE]
                    \/ lead' = [lead EXCEPT ![l].prompted = TRUE]
                    \/ lead' = [lead EXCEPT ![l].stale = TRUE]
                    \/ lead' = [lead EXCEPT ![l].clears = FALSE]
      PROVE  FALSE
  <2>1. lead[k] \in Lead
    BY DEF IInv, TypeOK
  <2>2. CASE lead' = [lead EXCEPT ![l].pro = TRUE]
    BY <1>6, <2>1, <2>2 DEF Lead
  <2>3. CASE lead' = [lead EXCEPT ![l].loyal = TRUE]
    BY <1>6, <2>1, <2>3 DEF Lead
  <2>4. CASE lead' = [lead EXCEPT ![l].prompted = TRUE]
    BY <1>6, <2>1, <2>4 DEF Lead
  <2>5. CASE lead' = [lead EXCEPT ![l].stale = TRUE]
    BY <1>6, <2>1, <2>5 DEF Lead
  <2>6. CASE lead' = [lead EXCEPT ![l].clears = FALSE]
    BY <1>6, <2>1, <2>6 DEF Lead
  <2> QED
    BY <1>7, <2>2, <2>3, <2>4, <2>5, <2>6
<1>8. ~UNCHANGED lead
  BY Zenon
<1>9. ASSUME NEW l \in Requests,
             \/ ProApproves(l) \/ ProDrops(l) \/ ProFinishes(l) \/ ProClears(l)
             \/ PanelCompletes(l) \/ ProPauses(l) \/ Heal(l) \/ TakeOver(l) \/ ReviewAges(l)
      PROVE  FALSE
  <2>1. CASE ProDrops(l) \/ ProFinishes(l) \/ PanelCompletes(l)
    <3>1. lead[l].dated \in Nat
      BY DEF IInv, TypeOK, Lead
    <3> QED
      BY <1>1, <2>1, <3>1 DEF ProDrops, ProFinishes, PanelCompletes, Ended, Rated
  <2>5. CASE ProApproves(l)
    <3> DEFINE a == [lead[l] EXCEPT !.status = "booked"]
               b == [a EXCEPT !.stale = FALSE]
               c == [b EXCEPT !.dated = era - 1]
    <3>1. lead[l] \in Lead /\ lead \in [Requests -> Lead]
      BY DEF IInv, TypeOK
    <3>2. lead' = [lead EXCEPT ![l] = c]
      BY <2>5, <3>1 DEF ProApproves
    <3>3. lead[l].status = "new"
      BY <2>5 DEF ProApproves
    <3> QED
      BY <3>1, <3>2, <3>3
  <2>2. CASE ProPauses(l) \/ Heal(l)
    BY <1>5, <1>8, <2>2 DEF ProPauses, Heal, leadVars
  <2>3. CASE TakeOver(l)
    BY <1>3, <1>4, <2>3 DEF TakeOver
  <2>4. CASE ReviewAges(l)
    BY <1>7, <2>4 DEF ReviewAges
  <2>6. CASE ProClears(l)
    BY <1>7, <2>6 DEF ProClears
  <2> QED
    BY <1>9, <2>1, <2>2, <2>3, <2>4, <2>5, <2>6
<1>10. CASE AdmitPro \/ StateExpires \/ ContextExpires \/ Limited \/ UNCHANGED vars
  BY <1>8, <1>10 DEF AdmitPro, StateExpires, ContextExpires, Limited, leadVars, vars
<1>11. CASE IntentAnswered \/ Overload \/ (\E complete \in BOOLEAN : AddressAnswered(complete))
              \/ Reply \/ ParkDeal \/ ProVoice \/ LookUp \/ Cache
  BY <1>8, <1>11 DEF LookUp, Cache, IntentAnswered, Overload, AddressAnswered, Reply, ParkDeal, ProVoice, leadVars
<1>12. CASE OfferLoyalty \/ Match
  BY <1>7, <1>12 DEF OfferLoyalty, Match
<1>13. CASE FinalizeDeal
  BY <1>3, <1>4, <1>8, <1>13, LeadAtWork DEF FinalizeDeal, AtWork
<1>14. CASE Escalate
  BY <1>3, <1>4, <1>14, LeadAtWork DEF Escalate, Set, AtWork
<1>15. ASSUME NEW w \in Words, Handle(w)
       PROVE  FALSE
  <2> DEFINE gate == Gate(w, Local)
  <2>1. CASE gate = "intercept" /\ Intercept(w)
    BY <1>1, <1>8, <2>1, GateFacts, NewestBooked DEF Intercept, Ends, Ended, Present, Having
  <2>2. CASE gate = "completion" /\ Complete(w)
    BY <1>1, <2>2, GateFacts, NewestBooked DEF Complete, Ends, Ended, Rated, Present, Having
  <2>3. CASE Rate(w) \/ Comment(w)
    BY <1>3, <1>4, <2>3 DEF Rate, Comment, Set, Having
  <2>4. CASE Address(w)
    BY <1>1, <1>8, <2>4, ActiveLeadIsActive DEF Address, Ends, Ended, Having, IInv
  <2>5. CASE Hold(w)
    <3>1. Having({"new"}) # {} => Newest(Having({"new"})) \in Requests
      BY NewestOf DEF Having, Present, Statuses, Active, IInv
    <3> QED
      BY <1>5, <1>8, <2>5, <3>1 DEF Hold, leadVars
  <2>6. CASE AskNewOrExisting(w) \/ AnswerLoyalty(w)
    BY <1>7, <1>8, <2>6 DEF AskNewOrExisting, AnswerLoyalty
  <2>7. CASE Reset(w) \/ ConfirmIntent(w) \/ AskConsent(w) \/ Thanked(w) \/ Told(w)
             \/ Declined(w) \/ CallHuman(w) \/ KeepSilent(w) \/ PickSlot(w)
             \/ AnswerNewOrExisting(w) \/ SwitchToCustomer(w) \/ ProCommand(w) \/ Onboard(w)
             \/ Register(w) \/ Detect(w) \/ UnderReview(w) \/ Intake(w)
    BY <1>8, <2>7
       DEF Reset, ConfirmIntent, AskConsent, Thanked, Told, Declined, CallHuman, KeepSilent, PickSlot,
           AnswerNewOrExisting, SwitchToCustomer, ProCommand, Onboard, Register, Detect, UnderReview,
           Intake, leadVars
  <2> HIDE DEF gate
  <2> QED
    BY <1>15, <2>1, <2>2, <2>3, <2>4, <2>5, <2>6, <2>7, Zenon DEF Handle, gate
<1> QED
  BY <1>9, <1>10, <1>11, <1>12, <1>13, <1>14, <1>15, Zenon DEF Next, Answer, World

\* The question of PRO-116 stands between a booked job and a second request: a
\* text that opens one was read after every booked job had been asked about.
THEOREM SecondRequestAsked == Spec => AskedBeforeSecond
<1> DEFINE Asked == \A l \in Requests :
                      (/\ lead[l].status = "absent" /\ lead'[l].status = "contacted"
                       /\ job.msg = "text")
                      => \A b \in job.seen : lead[b].status = "booked" => lead[b].prompted
<1>1. ASSUME IInv, [Next]_vars
      PROVE  Asked
  <2> SUFFICES ASSUME NEW l \in Requests, lead[l].status = "absent",
                      lead'[l].status = "contacted", job.msg = "text",
                      NEW b \in job.seen, lead[b].status = "booked"
               PROVE  lead[b].prompted
    OBVIOUS
  <2>1. PICK k \in Requests : SaveFacts(k)
    BY <1>1, OnlyFactsTakeIn
  <2>2. job.at = "dispatch" /\ job.lead = 0
    BY <2>1, Zenon DEF SaveFacts
  <2> QED
    BY <1>1, <2>2 DEF IInv, SeenAsked, Ended, Rated
<1>2. IInv /\ [Next]_vars => [Asked]_vars
  BY <1>1
<1> QED
  BY <1>2, Inductive, PTL DEF AskedBeforeSecond, Spec

\* _get_active_customer_lead: with a request of the pro's own open, the routing
\* never takes the chat to the pro's menu unless the pro writes a word of it.
THEOREM OpenRequestServed == Spec => ServedAsCustomer
<1> DEFINE Served == (/\ state # "pro_mode" /\ state' = "pro_mode"
                      /\ Having({"contacted", "new", "booked", "rating", "comment"}) # {})
                     => \E w \in Business : Handle(w)
<1>1. ASSUME IInv, [Next]_vars
      PROVE  Served
  <2> SUFFICES ASSUME state # "pro_mode", state' = "pro_mode", Having(OwnOpen) # {},
                      ~\E w \in Business : Handle(w)
               PROVE  FALSE
    BY DEF OwnOpen
  <2>1. ~UNCHANGED state /\ ~KeepChat /\ ~ClearState /\ \A s \in States \ {"pro_mode"} : ~Park(s)
    BY DEF KeepChat, ClearState, Park
  <2>2. CASE World
    BY <2>1, <2>2
       DEF World, ProApproves, ProDrops, ProFinishes, ProClears, PanelCompletes, ProPauses, Heal, TakeOver, ReviewAges, Reassign,
           AdmitPro, StateExpires, ContextExpires, States
  <2>3. CASE Answer
    BY <2>1, <2>3
       DEF Answer, LookUp, Cache, IntentAnswered, Overload, AddressAnswered, SaveFacts, Reply, OfferLoyalty, Escalate,
           Match, ProVoice, FinalizeDeal, ParkDeal, States, Prompts
  <2>4. CASE Limited \/ UNCHANGED vars
    BY <2>1, <2>4 DEF Limited, vars
  <2>5. ASSUME NEW w \in Words, Handle(w)
        PROVE  FALSE
    <3> DEFINE gate == Gate(w, Local)
    <3>1. CASE gate = "pro" /\ ProCommand(w)
      <4>1. Local # "pro_mode"
        BY <1>1, <2>5, LocalState DEF Handle
      <4>2. w \in Business
        BY <3>1, <4>1, GateFacts DEF ProGate
      <4> QED
        BY <2>5, <4>2
    <3>2. CASE Detect(w)
      BY <2>1, <3>2 DEF Detect, States
    <3>3. CASE Hold(w) \/ Onboard(w)
      BY <2>1, <3>3 DEF Hold, Reassign, Onboard, States, Onboarding
    <3>4. CASE Reset(w) \/ ConfirmIntent(w) \/ AskConsent(w) \/ Thanked(w) \/ Told(w)
               \/ Declined(w) \/ CallHuman(w) \/ KeepSilent(w) \/ PickSlot(w)
               \/ AnswerLoyalty(w) \/ AnswerNewOrExisting(w)
      BY <2>1, <3>4
         DEF Reset, ConfirmIntent, AskConsent, Thanked, Told, Declined, CallHuman, KeepSilent, PickSlot,
             AnswerLoyalty, AnswerNewOrExisting, States
    <3>5. CASE Intercept(w) \/ SwitchToCustomer(w) \/ Address(w) \/ Register(w) \/ UnderReview(w)
               \/ Complete(w) \/ Rate(w) \/ Comment(w) \/ AskNewOrExisting(w) \/ Intake(w)
      BY <2>1, <3>5
         DEF Intercept, SwitchToCustomer, Address, Register, UnderReview, Complete, Rate, Comment,
             AskNewOrExisting, Intake, States, Prompts, Onboarding
    <3> HIDE DEF gate
    <3> QED
      BY <2>5, <3>1, <3>2, <3>3, <3>4, <3>5, Zenon DEF Handle, gate
  <2> QED
    BY <1>1, <2>2, <2>3, <2>4, <2>5, Zenon DEF Next
<1>2. IInv /\ [Next]_vars => [Served]_vars
  BY <1>1
<1> QED
  BY <1>2, Inductive, PTL DEF ServedAsCustomer, Spec
=============================================================================
