--------------------------- MODULE PayoutReleaseMC ---------------------------
(***************************************************************************)
(* Instances of PayoutRelease for TLC.                                     *)
(***************************************************************************)
EXTENDS PayoutRelease

\* Three sales in one balance: the second is due an hour after the first, the
\* third is the advance takings of a later event.
ThreeSales == {1, 2, 3}
OneCharged == [s \in Sales |-> "gbp"]
UnitNets == [s \in Sales |-> 1]
OldestIsDouble == [s \in Sales |-> IF s = 1 THEN 2 ELSE 1]
LaterEventDue == [s \in Sales |-> IF s = 3 THEN 9 ELSE s]
FarCeilingDue == [s \in Sales |-> 9]

\* The first sale is forced out by the ceiling before its event.  The second
\* was charged in euro and settles in sterling.  The third is the advance
\* takings of a later event and holds the euro balance.
MixedCharged == [s \in Sales |-> IF s = 1 THEN "gbp" ELSE "eur"]
MixedSettled == [s \in Sales |-> IF s = 3 THEN "eur" ELSE "gbp"]
MixedCeilingDue == [s \in Sales |-> IF s = 1 THEN 1 ELSE 9]
MixedEventDue == [s \in Sales |-> CASE s = 1 -> 3 [] s = 2 -> 1 [] s = 3 -> 9]
==============================================================================
