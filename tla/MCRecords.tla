----------------------------- MODULE MCRecords -----------------------------
(* Records with an A record and an MX record, and specs that pass, fail    *)
(* validation, or make it raise.                                           *)
EXTENDS Records, TLC

CONSTANTS r1, r2

MCRecs == {r1, r2}
MCRecType == r1 :> "A" @@ r2 :> "MX"

\* {"ipv4Address": "1.1.1.1"}, {} and {"ipv4Address": 7}
GoodA == [ipv4Address |-> PyStr(<<"1", ".", "1", ".", "1", ".", "1">>)]
MissingA == [k \in {} |-> None]
IntA == [ipv4Address |-> PyInt(7)]
\* {"priority": 10, "mailServer": "m"} and {"priority": 10}
GoodMX == [priority |-> PyInt(10), mailServer |-> PyStr(<<"m">>)]
PartMX == [priority |-> PyInt(10)]

\* Specs a user can write, with and without a non-str address.
MCRecSpecs == "A" :> {GoodA, MissingA, IntA} @@ "MX" :> {GoodMX, PartMX}
MCStrRecSpecs == "A" :> {GoodA, MissingA} @@ "MX" :> {GoodMX, PartMX}
=============================================================================
