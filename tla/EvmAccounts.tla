----------------------------- MODULE EvmAccounts -----------------------------
(***************************************************************************)
(* module_evm_accounts: the mapping between accounts and EVM addresses.    *)
(* An address is a key's, which its holder can sign for, or the default    *)
(* address that is hashed from an account.  An address that is not mapped  *)
(* stands for its padded account.                                          *)
(***************************************************************************)
EXTENDS Integers, FiniteSets

CONSTANTS Users, Keys, Amounts

VARIABLES accounts, evmAddresses, balances

accountVars == <<accounts, evmAddresses, balances>>

Unmapped == <<"unmapped">>
DefaultAddress(u) == <<"default", u>>
KeyAddress(k) == <<"key", k>>
Padded(a) == <<"padded", a>>
Plain(u) == <<"plain", u>>

EvmAddress == {DefaultAddress(u) : u \in Users} \cup {KeyAddress(k) : k \in Keys}
AccountId == {Plain(u) : u \in Users} \cup {Padded(a) : a \in EvmAddress}

Init(funds) ==
  /\ accounts = [a \in EvmAddress |-> Unmapped] /\ evmAddresses = [u \in Users |-> Unmapped]
  /\ balances = [x \in AccountId |-> IF x \in {Plain(u) : u \in Users} THEN funds ELSE 0]

get_account_id(a) == IF accounts[a] # Unmapped THEN Plain(accounts[a]) ELSE Padded(a)

(* of an ordinary account; a padded account's address is the one it pads *)
get_evm_address(u) == evmAddresses[u]

(* mutant of on_killed_account: the address claimed by signature keeps its account *)
KilledKeepsClaim(from, left) ==
  LET dead == {u \in Users : from = Plain(u) /\ left = 0} IN
  /\ accounts' = [a \in EvmAddress |-> IF \E u \in dead : a = DefaultAddress(u) THEN Unmapped ELSE accounts[a]]
  /\ evmAddresses' = [u \in Users |-> IF u \in dead THEN Unmapped ELSE evmAddresses[u]]

(* CallKillAccount, when what is left to an account is nothing *)
on_killed_account(from, left) ==
  LET dead == {u \in Users : from = Plain(u) /\ left = 0} IN
  /\ accounts' = [a \in EvmAddress |->
                    IF \E u \in dead : a \in {DefaultAddress(u), evmAddresses[u]} THEN Unmapped ELSE accounts[a]]
  /\ evmAddresses' = [u \in Users |-> IF u \in dead THEN Unmapped ELSE evmAddresses[u]]

(* The padded account, if any, is merged into the claiming one; it has no  *)
(* mapping of its own that its death could remove.                         *)
claim_account(u, k) ==
  LET a == KeyAddress(k) IN
  /\ balances[Plain(u)] > 0 /\ evmAddresses[u] = Unmapped /\ accounts[a] = Unmapped
  /\ balances' = [balances EXCEPT ![Plain(u)] = @ + balances[get_account_id(a)], ![get_account_id(a)] = 0]
  /\ accounts' = [accounts EXCEPT ![a] = u]
  /\ evmAddresses' = [evmAddresses EXCEPT ![u] = a]

(* claim_default_account, and the EVM's use of an account without address *)
get_or_create_evm_address(u) ==
  /\ balances[Plain(u)] > 0 /\ get_evm_address(u) = Unmapped
  /\ accounts' = [accounts EXCEPT ![DefaultAddress(u)] = u]
  /\ evmAddresses' = [evmAddresses EXCEPT ![u] = DefaultAddress(u)]
  /\ UNCHANGED balances

(* A transfer to an account or to the one lookup gives for an address; the *)
(* sender may die of it.                                                   *)
Transfer(u, to, n) ==
  LET left == balances[Plain(u)] - n IN
  /\ to # Plain(u) /\ left >= 0
  /\ balances' = [balances EXCEPT ![Plain(u)] = left, ![to] = @ + n]
  /\ on_killed_account(Plain(u), left)

Next ==
  \/ \E u \in Users, k \in Keys : claim_account(u, k)
  \/ \E u \in Users : get_or_create_evm_address(u)
  \/ \E u, w \in Users, n \in Amounts : Transfer(u, Plain(w), n)
  \/ \E u \in Users, a \in EvmAddress, n \in Amounts : Transfer(u, get_account_id(a), n)
-----------------------------------------------------------------------------
(* The two maps are inverse to each other through claims, accounts that    *)
(* die and come back, and new claims of the same key; and the padded       *)
(* account of a mapped address is never paid through the address.          *)
MappingsInverse ==
  /\ \A a \in EvmAddress, u \in Users : accounts[a] = u <=> evmAddresses[u] = a
  /\ \A k \in Keys : accounts[KeyAddress(k)] # Unmapped => balances[Padded(KeyAddress(k))] = 0
=============================================================================
