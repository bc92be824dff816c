---------------------------- MODULE RecordsProofs ----------------------------
(***************************************************************************)
(* Proofs about Records for every set of records, every assignment of     *)
(* record types and every set of specs a user may write: no spec reaches  *)
(* update_zone_file unless validate_dns_record passed on it.               *)
(***************************************************************************)
EXTENDS Records, TLAPS

\* handle_record passes a spec on only in its "ok" branch, and the value it
\* passes is the spec it validated; the other branches and the user's
\* edits leave the calls made so far alone.
LEMMA InitValidated == Init => ValidatedBeforeApplied
  BY DEF Init, ValidatedBeforeApplied

LEMMA HandleValidated ==
  ASSUME ValidatedBeforeApplied, NEW r \in Recs, Handle(r)
  PROVE  ValidatedBeforeApplied'
  <1> DEFINE v == ValidateDnsRecord(RecType[r], spec[r])
  <1>1. CASE v = "ok" /\ applied' = applied \cup {<<r, spec[r]>>}
    <2>1. ASSUME NEW p \in applied' PROVE ValidateDnsRecord(RecType[p[1]], p[2]) = "ok"
      <3>1. CASE p \in applied
        BY <3>1 DEF ValidatedBeforeApplied
      <3>2. CASE p = <<r, spec[r]>>
        BY <1>1, <3>2
      <3>. QED
        BY <1>1, <3>1, <3>2
    <2>. QED
      BY <2>1 DEF ValidatedBeforeApplied
  <1>2. CASE UNCHANGED applied
    BY <1>2 DEF ValidatedBeforeApplied
  <1>. QED
    BY <1>1, <1>2 DEF Handle, UpdateZoneFile

LEMMA NextValidated ==
  ValidatedBeforeApplied /\ [Next]_vars => ValidatedBeforeApplied'
  <1> SUFFICES ASSUME ValidatedBeforeApplied, [Next]_vars
               PROVE  ValidatedBeforeApplied'
    OBVIOUS
  <1>1. ASSUME NEW r \in Recs, Handle(r) PROVE ValidatedBeforeApplied'
    BY <1>1, HandleValidated
  <1>2. ASSUME NEW r \in Recs, Edit(r) PROVE ValidatedBeforeApplied'
    BY <1>2 DEF Edit, ValidatedBeforeApplied
  <1>3. CASE UNCHANGED vars
    BY <1>3 DEF vars, ValidatedBeforeApplied
  <1>. QED
    BY <1>1, <1>2, <1>3 DEF Next

\* Spec section 3, for every instance of the constants: every record spec
\* handle_record has handed to update_zone_file passed validate_dns_record
\* for the record's type.
THEOREM ValidatedBeforeAppliedHolds == Spec => []ValidatedBeforeApplied
  <1>1. Init => ValidatedBeforeApplied
    BY InitValidated
  <1>2. ValidatedBeforeApplied /\ [Next]_vars => ValidatedBeforeApplied'
    BY NextValidated
  <1>. QED
    BY <1>1, <1>2, PTL DEF Spec
=============================================================================
