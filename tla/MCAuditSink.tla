---------------------------- MODULE MCAuditSink -----------------------------
(***************************************************************************)
(* AuditSink on a small instance: short events on one subject and long     *)
(* ones on another.                                                        *)
(***************************************************************************)
EXTENDS AuditSink

MCKinds == {<<"waf.audit.a", 1>>, <<"waf.audit.b", 4>>}

=============================================================================
