---------------------------- MODULE RunAdmissionMC ----------------------------
(* Values of the constants of RunAdmission for TLC. *)
EXTENDS RunAdmission

CONSTANTS again, other, p

\* Two keys, both of one page: a request sent again, and another of the page.
MCKeys == {again, other}
MCPages == {p}
MCPageOf == [k \in MCKeys |-> p]
===============================================================================
