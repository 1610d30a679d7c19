---------------------------- MODULE MailRightsMC ----------------------------
EXTENDS MailRights, TLC
Symmetry == Permutations(Addrs)
=============================================================================
