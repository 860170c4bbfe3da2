------------------------------- MODULE Vectors -------------------------------
(***************************************************************************)
(* The one operation on a stored vector that the contract writes out as a  *)
(* loop: a copy that leaves an entry out.                                  *)
(***************************************************************************)
EXTENDS Integers, Sequences

(* s without the entries equal to e, the others in their order: the loops  *)
(* of remove_active_listing and remove_admin.  As a recursive function, so *)
(* that it can be reasoned about.                                          *)
Without(s, e) ==
  LET kept[n \in 0 .. Len(s)] ==
        IF n = 0 THEN <<>>
        ELSE IF s[n] = e THEN kept[n - 1] ELSE Append(kept[n - 1], s[n])
  IN kept[Len(s)]

Ascending(s) == \A j, k \in DOMAIN s : j < k => s[j] < s[k]
==============================================================================
