------------------------------ MODULE MCPallets ------------------------------
(* Small instances of the pallets. *)
EXTENDS Pallets

CONSTANTS alice, bob, val1, val2, lp, dot, cashToken, k, cl1, cl2, one, other, ren, erc1, erc2, erc3, sym

MCUsers == {alice, bob}
MCIncentiveFunds ==
  [c \in Currencies |-> [x \in TokenAccounts |->
     CASE x = RewardsSource /\ c = "native" -> 7
       [] c \in LpTokens -> CASE x = alice -> 2 [] x = bob -> 1 [] OTHER -> 0
       [] c = "liquid" -> CASE x = alice -> 3 [] x = bob -> 2 [] OTHER -> 0
       [] OTHER -> 0]]
MCStableInPool == [x \in LpTokens |-> 3]

MCFreezeSets == {{val1}}

(* One validator, and two at once. *)
MCSlashSets ==
  { << [validator |-> val1, amount |-> n] >> : n \in {1, 3} }
    \cup { << [validator |-> val1, amount |-> 1], [validator |-> val2, amount |-> 2] >> }

MCStarportFunds ==
  [c \in {dot, cashToken} |-> [x \in MCUsers \cup {"starport"} |-> IF x \in MCUsers THEN 2 ELSE 0]]
MCNotices ==
  { [id |-> 1, kind |-> "SetSupplyCap", asset |-> dot, amount |-> 2],
    [id |-> 2, kind |-> "SetSupplyCap", asset |-> dot, amount |-> 2],
    [id |-> 3, kind |-> "SetSupplyCap", asset |-> cashToken, amount |-> 1],
    [id |-> 4, kind |-> "Unlock", asset |-> dot, amount |-> 1, who |-> alice],
    [id |-> 5, kind |-> "Unlock", asset |-> dot, amount |-> 1, who |-> alice],
    [id |-> 6, kind |-> "Unlock", asset |-> cashToken, amount |-> 2, who |-> bob],
    [id |-> 7, kind |-> "ChangeAuthorities", authorities |-> <<alice, alice, bob>>],
    [id |-> 8, kind |-> "ChangeAuthorities", authorities |-> <<>>],
    [id |-> 9, kind |-> "SetFutureYield", index |-> 1, yield |-> 1, start |-> 5] }

MCIdOf == [x \in {erc1, erc2, erc3, sym} |-> CASE x = sym -> 1 [] x = erc3 -> 300 [] OTHER -> 200]
MCProperties == {{"Transferable"}, {"Transferable", "Burnable"}}
=============================================================================
