------------------------------ MODULE Validation ------------------------------
(***************************************************************************)
(* The Validator (src/operator/utils/validation.py): per-type checks of a *)
(* record spec.  A check either passes ("ok"), raises ValueError          *)
(* ("invalid"), or raises another exception ("error"): re.match on a      *)
(* value that is not a str raises TypeError.                               *)
(*                                                                         *)
(* A spec is a dict: a function whose DOMAIN is the keys present.  A field *)
(* value is a Python value, tagged with its type: a str (its characters   *)
(* as a sequence of tokens), an int, or None.  Truthiness is Python's:    *)
(* None, "" and 0 are false.                                               *)
(***************************************************************************)
EXTENDS Integers, Sequences, FiniteSets

PyStr(chars) == [t |-> "str", v |-> chars]
PyInt(n) == [t |-> "int", v |-> n]
None == [t |-> "none", v |-> 0]

\* dict.get(key)
Get(d, k) == IF k \in DOMAIN d THEN d[k] ELSE None

\* Python's truth value of a field: None, "" and 0 are false.
Truthy(x) == \/ x.t = "str" /\ x.v # <<>>
             \/ x.t = "int" /\ x.v # 0

\* Characters: ASCII digits, and decimal digits of other scripts (named by
\* code point), all of which the regex class \d matches in a str pattern.
AsciiDigits == {"0", "1", "2", "3", "4", "5", "6", "7", "8", "9"}
OtherDigits == {"U+0663", "U+096A"}

(***************************************************************************)
(* re.match(r"^(\d{1,3}\.){3}\d{1,3}$", s) on a str s: four runs of one to *)
(* three \d characters separated by three dots.  `$` matches at the end of *)
(* the string and also just before a newline that ends it.                 *)
(***************************************************************************)
\* Defect variant: groups of at most two digits (\d{1,2}).
FourGroupsTwoDigits(b) ==
    LET dots == {i \in DOMAIN b : b[i] = "."}
        GroupLen(lo, hi) == hi - lo - 1 \in 1..2
    IN  /\ \A i \in DOMAIN b : b[i] \in AsciiDigits \cup OtherDigits \cup {"."}
        /\ Cardinality(dots) = 3
        /\ \E p1, p2, p3 \in dots :
              /\ p1 < p2 /\ p2 < p3
              /\ GroupLen(0, p1) /\ GroupLen(p1, p2) /\ GroupLen(p2, p3)
              /\ GroupLen(p3, Len(b) + 1)

FourGroups(b) ==
    LET dots == {i \in DOMAIN b : b[i] = "."}
        GroupLen(lo, hi) == hi - lo - 1 \in 1..3
    IN  /\ \A i \in DOMAIN b : b[i] \in AsciiDigits \cup OtherDigits \cup {"."}
        /\ Cardinality(dots) = 3
        /\ \E p1, p2, p3 \in dots :
              /\ p1 < p2 /\ p2 < p3
              /\ GroupLen(0, p1) /\ GroupLen(p1, p2) /\ GroupLen(p2, p3)
              /\ GroupLen(p3, Len(b) + 1)

IPv4Match(s) ==
    \/ FourGroups(s)
    \/ Len(s) > 0 /\ s[Len(s)] = "\n" /\ FourGroups(SubSeq(s, 1, Len(s) - 1))

\* validate_a_record
ValidateA(spec) ==
    LET ipv4 == Get(spec, "ipv4Address")
    IN  CASE ~Truthy(ipv4)     -> "invalid"
          [] ipv4.t # "str"     -> "error"
          [] IPv4Match(ipv4.v)  -> "ok"
          [] OTHER              -> "invalid"

\* validate_aaaa_record
ValidateAAAA(spec) == IF Truthy(Get(spec, "ipv6Address")) THEN "ok" ELSE "invalid"

\* validate_cname_record
ValidateCNAME(spec) == IF Truthy(Get(spec, "target")) THEN "ok" ELSE "invalid"

\* validate_mx_record
ValidateMX(spec) ==
    IF {"priority", "mailServer"} \subseteq DOMAIN spec THEN "ok" ELSE "invalid"

\* validate_dns_record: the validator of the type, if it has one.
ValidateDnsRecord(type, spec) ==
    CASE type = "A"     -> ValidateA(spec)
      [] type = "AAAA"  -> ValidateAAAA(spec)
      [] type = "CNAME" -> ValidateCNAME(spec)
      [] type = "MX"    -> ValidateMX(spec)
      [] OTHER          -> "ok"

(***************************************************************************)
(* The reference: an IPv4 dotted quad (spec section 4.2; the repository's *)
(* test_invalid_a_record rejects "999.999.999.999"): four ASCII decimal    *)
(* numbers 0..255 separated by dots, nothing before or after.              *)
(***************************************************************************)
DigitValue(c) == CHOOSE v \in 0..9 : c = <<"0", "1", "2", "3", "4",
                                          "5", "6", "7", "8", "9">>[v + 1]

\* The number an ASCII digit string denotes.
Decimal(g) ==
    LET f[i \in 0..Len(g)] == IF i = 0 THEN 0 ELSE 10 * f[i - 1] + DigitValue(g[i])
    IN  f[Len(g)]

IsDottedQuad(s) ==
    LET cuts == {0, Len(s) + 1} \cup {i \in DOMAIN s : s[i] = "."}
        \* consecutive cuts lo < hi enclose one field
        Field(lo, hi) == lo < hi /\ \A i \in cuts : i <= lo \/ i >= hi
    IN  /\ \A i \in DOMAIN s : s[i] \in AsciiDigits \cup {"."}
        /\ Cardinality(cuts) = 5
        /\ \A lo, hi \in cuts :
              Field(lo, hi) => /\ hi - lo - 1 \in 1..3
                               /\ Decimal(SubSeq(s, lo + 1, hi - 1)) <= 255
=============================================================================
