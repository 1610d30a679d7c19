---------------------------- MODULE MailLedgerMC ----------------------------
(* Two tickets, one to two people, one bulk message, three envelopes: the
   first ticket's failure is heard over two tagged topics and an untagged one. *)
EXTENDS MailLedger

CONSTANTS t1, t2, b1, ann, bea, e1, e2, e3

AddresseesOf == (t1 :> {ann, bea}) @@ (t2 :> {bea}) @@ (b1 :> {ann})
AboutOf == (e1 :> t1) @@ (e2 :> t1) @@ (e3 :> t1)
=============================================================================
