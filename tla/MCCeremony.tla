------------------------------ MODULE MCCeremony ------------------------------
(* A small instance of Ceremony. *)
EXTENDS Ceremony

TwoNames == <<"ann", "ben">>
===============================================================================
