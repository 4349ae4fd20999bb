----------------------------- MODULE MCLeadBooking -----------------------------
(* Small instances of LeadBooking for TLC. *)
EXTENDS LeadBooking, TLC

CONSTANTS c1, c2, p1, p2, l1, l2, s1, s2

\* one hour of p1; two hours of p1, none of p2
SlotPro1 == s1 :> p1
SlotPro2 == s1 :> p1 @@ s2 :> p1

\* nobody meets on a lead; only the sweeps and the customer do; everybody does
Nobody == {}
SweepsAndCustomers == Customers \cup {Healer, Sla}
AllButCustomers == Pros \cup {Healer, Sla, Admin}
ProsAndHealer == Pros \cup {Healer}
Everybody == Actors

LeadSymmetry == Permutations({l1, l2})

\* both hours are p1's, and nothing tells the two customers apart
FullSymmetry == LeadSymmetry \cup Permutations({s1, s2}) \cup Permutations({c1, c2})

\* with one customer
LeadSlotSymmetry == LeadSymmetry \cup Permutations({s1, s2})
=============================================================================
