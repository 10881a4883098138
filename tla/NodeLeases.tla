----------------------------- MODULE NodeLeases -----------------------------
(***************************************************************************)
(* What the aggregator's connection table promises its users, with no      *)
(* request handlers, no locks and no two-step updates: each node holds at   *)
(* most one lease, a contact renews it, the control plane's word upgrades   *)
(* it, and a lease that nobody renewed for longer than ConnectionTimeout    *)
(* lapses together with everything it said about the node.                  *)
(* AggregatorRegistry implements this specification.                        *)
(***************************************************************************)
EXTENDS Naturals

CONSTANTS
  Nodes,             \* the node identifiers agents report under
  ConnectionTimeout  \* how long a lease lives without a contact, in ticks

VARIABLES
  lease,    \* lease[n]: "absent", "unverified" or "verified"
  age,      \* age[n]: ticks since the last contact, counted up to Stale
  vouched   \* the nodes the control plane has ever vouched for

leaseVars == <<lease, age, vouched>>

Stale == ConnectionTimeout + 1
Older(a) == IF a = Stale THEN a ELSE a + 1

Init ==
  /\ lease = [n \in Nodes |-> "absent"]
  /\ age = [n \in Nodes |-> 0]
  /\ vouched = {}

(* A contact of any kind renews an existing lease and leaves its standing. *)
Renew(n) ==
  /\ lease[n] # "absent"
  /\ age' = [age EXCEPT ![n] = 0]
  /\ UNCHANGED <<lease, vouched>>

(* A heartbeat from an unknown node grants a lease of the lower standing.  *)
Grant(n) ==
  /\ lease[n] = "absent"
  /\ lease' = [lease EXCEPT ![n] = "unverified"]
  /\ age' = [age EXCEPT ![n] = 0]
  /\ UNCHANGED vouched

(* The control plane confirms a node; nothing is granted yet.              *)
Vouch(n) ==
  /\ vouched' = vouched \union {n}
  /\ UNCHANGED <<lease, age>>

(* Only a node the control plane vouched for gets the higher standing.     *)
Verify(n) ==
  /\ n \in vouched
  /\ lease' = [lease EXCEPT ![n] = "verified"]
  /\ age' = [age EXCEPT ![n] = 0]
  /\ UNCHANGED vouched

Lapsed == {n \in Nodes : lease[n] # "absent" /\ age[n] > ConnectionTimeout}

(* Exactly the stale leases lapse, all in one sweep.                       *)
Sweep ==
  /\ lease' = [n \in Nodes |-> IF n \in Lapsed THEN "absent" ELSE lease[n]]
  /\ age' = [n \in Nodes |-> IF n \in Lapsed THEN 0 ELSE age[n]]
  /\ UNCHANGED vouched

Tick ==
  /\ age' = [n \in Nodes |-> IF lease[n] = "absent" THEN 0 ELSE Older(age[n])]
  /\ UNCHANGED <<lease, vouched>>

Next ==
  \/ \E n \in Nodes : Renew(n) \/ Grant(n) \/ Vouch(n) \/ Verify(n)
  \/ Sweep
  \/ Tick

Spec == Init /\ [][Next]_leaseVars
=============================================================================
