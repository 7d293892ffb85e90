----------------------------- MODULE MCSortLink -----------------------------
(***************************************************************************)
(* Three sleepers on a wheel of three slots, with timeouts of up to more   *)
(* than two full turns: entries share slots, come before, between and      *)
(* after each other, and land on the cursor's own slot.                    *)
(***************************************************************************)
EXTENDS SortLink

MCDelays == {1, 2, 3, 4, 6, 7}
=============================================================================
