----------------------------- MODULE MCMailbox -----------------------------
(* Small instances of Mailbox; the constants are all model values, given in the cfgs. *)
EXTENDS Mailbox
============================================================================
