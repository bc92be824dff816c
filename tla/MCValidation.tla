---------------------------- MODULE MCValidation ----------------------------
(***************************************************************************)
(* The A-record check of Validation against the dotted-quad reference, on  *)
(* every string of at most MaxLen characters from Chars: the strings are   *)
(* built one character at a time, and every one is a reachable state.      *)
(***************************************************************************)
EXTENDS Validation

CONSTANTS Chars, MaxLen

VARIABLE s

\* The alphabet: digits for groups of up to 255 and above, and the dot.
QuadChars == {"1", "9", "."}

Init == s = <<>>

Next == Len(s) < MaxLen /\ \E c \in Chars : s' = Append(s, c)

Spec == Init /\ [][Next]_s

\* Spec section 8 (validation completeness): validate_a_record accepts
\* every well-formed dotted quad.
AcceptsAllDottedQuads == IsDottedQuad(s) => ValidateA([ipv4Address |-> PyStr(s)]) = "ok"
=============================================================================
