---------------------------- MODULE ShopOrdersMC ----------------------------
EXTENDS ShopOrders, TLC
Symmetry == Permutations(Orders)
=============================================================================
