------------------------------- MODULE SlotBook --------------------------------
(***************************************************************************)
(* What the booking code promises about a calendar, with no handler in     *)
(* sight: an hour is free or reserved for one job, a reservation is made   *)
(* only of a free hour and ends only by its release, and is_taken says     *)
(* nothing else than that the hour is reserved.  LeadBooking is checked to *)
(* implement this as long as no two handlers overlap on a lead.            *)
(***************************************************************************)
CONSTANTS Leads, Slots, NoLead

VARIABLES holder,   \* holder[s]: the lead for which s is reserved, or NoLead
          taken     \* taken[s]: s is off the calendar

Init ==
    /\ holder = [s \in Slots |-> NoLead]
    /\ taken = [s \in Slots |-> FALSE]

Reserve(l, s) ==
    /\ holder[s] = NoLead
    /\ holder' = [holder EXCEPT ![s] = l]
    /\ taken' = [taken EXCEPT ![s] = TRUE]

Release(s) ==
    /\ holder[s] # NoLead
    /\ holder' = [holder EXCEPT ![s] = NoLead]
    /\ taken' = [taken EXCEPT ![s] = FALSE]

Next == \E s \in Slots : Release(s) \/ \E l \in Leads : Reserve(l, s)

Spec == Init /\ [][Next]_<<holder, taken>>
=============================================================================
