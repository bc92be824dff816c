---------------------------- MODULE MCReconciler ----------------------------
(***************************************************************************)
(* Small instances of Reconciler for TLC.  One name n1 is used by two      *)
(* Bind9Instance incarnations i1 and i2 (the second is a re-creation) and  *)
(* by the DNSZone z1.                                                      *)
(***************************************************************************)
EXTENDS Reconciler

CONSTANTS i1, i2, z1, n1

MCNameOf == [u \in InstUids \cup ZoneUids |-> n1]

\* spec.replicas changes, and so does spec.config (named.conf).
MCInstSpecs == {[replicas |-> 1],
                [replicas |-> 2, config |-> [recursion |-> TRUE]]}

\* A single spec: no update ever happens.
MCOneInstSpec == {[replicas |-> 1]}

\* A zone without SOA serial (it defaults to the date) and one with it.
MCZoneSpecs ==
    {[zoneName |-> "example.com",
      soaRecord |-> [adminEmail |-> <<"admin", "@", "example.com">>]],
     [zoneName |-> "example.com", ttl |-> 300,
      soaRecord |-> [serial |-> 2024010101]]}

MCDates == {20240101, 20240102}
=============================================================================
