------------------------------- MODULE Stays -------------------------------
(***************************************************************************)
(* A stay is a half-open range of nights [ci, co) in one property.         *)
(***************************************************************************)
EXTENDS Naturals

StayType(Property) == [prop: Property, ci: Nat, co: Nat]

(***************************************************************************)
(* The overlap test every availability query of the backend uses:          *)
(* check_in_date < other.check_out AND check_out_date > other.check_in on  *)
(* the same property_id.                                                   *)
(***************************************************************************)
Overlaps(s, t) ==
    /\ s.prop = t.prop
    /\ s.ci < t.co
    /\ s.co > t.ci

=============================================================================
