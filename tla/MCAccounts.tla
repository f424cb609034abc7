----------------------------- MODULE MCAccounts -----------------------------
(* Accounts for two emails, one of which also has a Google identity, three   *)
(* ids (one account can be deleted and registered again while a third id is  *)
(* drawn), one reset token and two requests at a time.                       *)
EXTENDS Accounts, TLC

CONSTANTS i1, i2, i3, ann, ben, p1, g1, t1, r1, r2
MCIds == {i1, i2, i3}
MCEmails == {ann, ben}
MCChoices == {p1}
MCSubs == {g1}
MCGoogleEmail == [g \in MCSubs |-> ann]
MCTokens == {t1}
MCRequests == {r1, r2}
MostStatements == Statements \ {"consume", "reselect"}
Symmetric == Permutations(MCIds) \cup Permutations(MCRequests)
=============================================================================
