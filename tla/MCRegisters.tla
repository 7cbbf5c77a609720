---------------------------- MODULE MCRegisters ----------------------------
(* One tenant and one admin; the questionnaire is what is looked at.        *)
EXTENDS Registers

MCTenantOf == [a \in Admin |-> "acme"]
=============================================================================
