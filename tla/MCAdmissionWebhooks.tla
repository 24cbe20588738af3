-------------------------- MODULE MCAdmissionWebhooks --------------------------
(* Small instances of AdmissionWebhooks for TLC. *)
EXTENDS AdmissionWebhooks

=============================================================================
