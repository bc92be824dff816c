------------------------------- MODULE Records -------------------------------
(***************************************************************************)
(* The record handlers (src/operator/handlers/records.py): one handler,    *)
(* registered by a factory for each record type, for create and update of *)
(* a record object.  kopf calls it while the object's spec differs from    *)
(* its last-handled spec; the handler validates the spec, hands it to      *)
(* update_zone_file and returns {"status": "active"}, which kopf stores in *)
(* the object's status.  A ValueError becomes kopf.PermanentError (the     *)
(* spec counts as handled and is not retried); any other exception becomes *)
(* kopf.TemporaryError (retried after 30 seconds, without limit).          *)
(***************************************************************************)
EXTENDS Validation

CONSTANTS
    Recs,       \* the record objects
    RecType,    \* RecType[r]: the record type of r ("A", "MX", ...)
    RecSpecs,   \* RecSpecs[t]: the specs a user may give a record of type t
    MaxEdits    \* bound on user edits

\* The types the module registers a handler for (rtype.upper() of each).
HandledTypes ==
    {"A", "AAAA", "CNAME", "MX", "TXT", "NS", "SRV", "PTR", "CAA", "NAPTR"}

ASSUME RecordsAssumption ==
    /\ DOMAIN RecSpecs \subseteq HandledTypes
    /\ RecType \in [Recs -> DOMAIN RecSpecs]
    /\ MaxEdits \in Nat

\* kopf's last-handled spec of an object not handled yet.
NoSpec == [nospec |-> TRUE]

VARIABLES
    spec,      \* spec[r]: the record's current spec
    handled,   \* handled[r]: kopf's last-handled spec, or NoSpec
    retrying,  \* retrying[r]: a TemporaryError has scheduled a retry
    status,    \* status[r]: "active" once a handler call returned, else "none"
    applied,   \* the <<record, spec>> pairs passed to update_zone_file
    edits      \* user edits so far

vars == <<spec, handled, retrying, status, applied, edits>>

Init ==
    /\ spec \in [Recs -> UNION {RecSpecs[t] : t \in DOMAIN RecSpecs}]
    /\ \A r \in Recs : spec[r] \in RecSpecs[RecType[r]]
    /\ handled = [r \in Recs |-> NoSpec]
    /\ retrying = [r \in Recs |-> FALSE]
    /\ status = [r \in Recs |-> "none"]
    /\ applied = {}
    /\ edits = 0

\* Defect variant: `except Exception` placed before `except ValueError`,
\* so that an invalid record is retried as a transient failure.
HandleTemporaryFirst(r) ==
    /\ spec[r] # handled[r]
    /\ LET v == ValidateDnsRecord(RecType[r], spec[r]) IN
       \/ /\ v = "ok"
          /\ applied' = applied \cup {<<r, spec[r]>>}
          /\ status' = [status EXCEPT ![r] = "active"]
          /\ handled' = [handled EXCEPT ![r] = spec[r]]
          /\ retrying' = [retrying EXCEPT ![r] = FALSE]
       \/ /\ v # "ok"
          /\ retrying' = [retrying EXCEPT ![r] = TRUE]
          /\ UNCHANGED <<handled, status, applied>>
    /\ UNCHANGED <<spec, edits>>

\* Defect variant: update_zone_file called before validate_dns_record.
HandleAppliesFirst(r) ==
    /\ spec[r] # handled[r]
    /\ applied' = applied \cup {<<r, spec[r]>>}
    /\ LET v == ValidateDnsRecord(RecType[r], spec[r]) IN
       \/ /\ v = "ok"
          /\ status' = [status EXCEPT ![r] = "active"]
          /\ handled' = [handled EXCEPT ![r] = spec[r]]
          /\ retrying' = [retrying EXCEPT ![r] = FALSE]
       \/ /\ v = "invalid"
          /\ handled' = [handled EXCEPT ![r] = spec[r]]
          /\ retrying' = [retrying EXCEPT ![r] = FALSE]
          /\ UNCHANGED status
       \/ /\ v = "error"
          /\ retrying' = [retrying EXCEPT ![r] = TRUE]
          /\ UNCHANGED <<handled, status>>
    /\ UNCHANGED <<spec, edits>>

\* update_zone_file(zone_ref, namespace, name, record_type, spec, logger)
\* only logs the call: its effect is that the call was made with this spec.
UpdateZoneFile(r, sp) == applied' = applied \cup {<<r, sp>>}

(***************************************************************************)
(* handle_record(spec, ...) for record r, with kopf's bookkeeping of its   *)
(* outcome.  update_zone_file only logs: its effect is the call itself.    *)
(***************************************************************************)
Handle(r) ==
    /\ spec[r] # handled[r]
    /\ LET v == ValidateDnsRecord(RecType[r], spec[r]) IN
       \/ /\ v = "ok"
          /\ UpdateZoneFile(r, spec[r])
          /\ status' = [status EXCEPT ![r] = "active"]
          /\ handled' = [handled EXCEPT ![r] = spec[r]]
          /\ retrying' = [retrying EXCEPT ![r] = FALSE]
       \/ /\ v = "invalid"
          /\ handled' = [handled EXCEPT ![r] = spec[r]]
          /\ retrying' = [retrying EXCEPT ![r] = FALSE]
          /\ UNCHANGED <<status, applied>>
       \/ /\ v = "error"
          /\ retrying' = [retrying EXCEPT ![r] = TRUE]
          /\ UNCHANGED <<handled, status, applied>>
    /\ UNCHANGED <<spec, edits>>

\* The user changes the spec of a record.  A change back to the last-handled
\* spec leaves kopf no cause to handle, and so no retry to make.
Edit(r) ==
    /\ edits < MaxEdits
    /\ \E sp \in RecSpecs[RecType[r]] \ {spec[r]} :
          /\ spec' = [spec EXCEPT ![r] = sp]
          /\ retrying' = [retrying EXCEPT ![r] = @ /\ sp # handled[r]]
    /\ edits' = edits + 1
    /\ UNCHANGED <<handled, status, applied>>

Next == \E r \in Recs : Handle(r) \/ Edit(r)

\* kopf keeps calling the handler of an object whose spec is not handled.
Spec == Init /\ [][Next]_vars /\ \A r \in Recs : WF_vars(Handle(r))

-----------------------------------------------------------------------------
\* Spec section 3: a record's spec reaches update_zone_file only once it
\* has passed validation.
ValidatedBeforeApplied ==
    \A p \in applied : ValidateDnsRecord(RecType[p[1]], p[2]) = "ok"

\* Spec sections 4.2 and 7: once the user stops editing, every record's
\* current spec is eventually handled for good, either applied or refused
\* as a permanent input error, with no retry left pending.
EventuallySettled ==
    <>[](\A r \in Recs : handled[r] = spec[r] /\ ~retrying[r])

\* Spec section 7: once the user stops editing, every record whose spec
\* validates, or fails validation with a ValueError, is eventually handled
\* for good, applied or refused permanently, with no retry left pending.
SettlesUnlessRaising ==
    <>[](\A r \in Recs :
            ValidateDnsRecord(RecType[r], spec[r]) # "error" =>
                handled[r] = spec[r] /\ ~retrying[r])
=============================================================================
