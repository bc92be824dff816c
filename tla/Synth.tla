------------------------------- MODULE Synth -------------------------------
(***************************************************************************)
(* The Config Synthesizer of the BIND9 operator                            *)
(* (src/operator/config/bind9.py): pure functions from a resource spec to  *)
(* the text of named.conf and of a zone file.                              *)
(*                                                                         *)
(* A spec is a Python dict: here a function whose DOMAIN is the set of     *)
(* keys present, so that dict.get(key, default) is Get(d, key, default).   *)
(* The template text (templates.py) is layout only; an output is the       *)
(* record of the values substituted into the template, one field per      *)
(* placeholder.  A string the code builds with an f-string or .replace is  *)
(* a sequence of tokens, and the conversion is applied to the tokens.      *)
(***************************************************************************)
EXTENDS Integers, Sequences

\* The empty dict {}.
EmptyDict == [k \in {} |-> 0]

\* dict.get(key, default)
Get(d, k, dflt) == IF k \in DOMAIN d THEN d[k] ELSE dflt

\* int(datetime.now().strftime("%Y%m%d01")) for the date whose YYYYMMDD
\* number is date: the date followed by the two digits "01".
DateSerial(date) == date * 100 + 1

\* str.replace("@", ".") on a string given as a sequence of tokens.
ReplaceAt(s) == [i \in DOMAIN s |-> IF s[i] = "@" THEN "." ELSE s[i]]

(***************************************************************************)
(* generate_bind9_config(spec, instance_name, namespace)                   *)
(***************************************************************************)
GenerateBind9Config(spec, instance_name) ==
    LET config == Get(spec, "config", EmptyDict)
    IN  [instance_name     |-> instance_name,
         allow_query       |-> Get(config, "allowQuery", <<"any">>),
         allow_transfer    |-> Get(config, "allowTransfer", <<"none">>),
         recursion         |-> IF Get(config, "recursion", FALSE)
                               THEN "yes" ELSE "no",
         dnssec_validation |-> IF Get(Get(config, "dnssec", EmptyDict),
                                      "enabled", FALSE)
                               THEN "auto" ELSE "no"]

(***************************************************************************)
(* generate_zone_file(spec, zone_name, namespace, logger), run on the date *)
(* today: the serial defaults to the date of the call when the SOA record  *)
(* has none.                                                               *)
(***************************************************************************)
GenerateZoneFile(spec, zone_name, today) ==
    LET soa == Get(spec, "soaRecord", EmptyDict)
    IN  [zone_name   |-> zone_name,
         ttl         |-> Get(spec, "ttl", 3600),
         primary_ns  |-> Get(soa, "primaryNS", <<"ns1.", zone_name, ".">>),
         admin_email |-> ReplaceAt(Get(soa, "adminEmail",
                                       <<"admin.", zone_name, ".">>)),
         serial      |-> Get(soa, "serial", DateSerial(today)),
         refresh     |-> Get(soa, "refresh", 3600),
         retry       |-> Get(soa, "retry", 600),
         expire      |-> Get(soa, "expire", 604800),
         minimum     |-> Get(soa, "negativeTTL", 86400)]
=============================================================================
