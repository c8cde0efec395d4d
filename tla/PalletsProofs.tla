---------------------------- MODULE PalletsProofs ----------------------------
(***************************************************************************)
(* The mappings of the pallets stay inverse to each other, for any users,  *)
(* keys, resources, currencies and contracts.                              *)
(***************************************************************************)
EXTENDS Pallets, TLAPS

(* The maps of evm_accounts have their types, an account's default address *)
(* is mapped to no other, and the maps are inverse.                        *)
AccountsInv ==
  /\ accounts \in [Mapping!EvmAddress -> Users \cup {Mapping!Unmapped}]
  /\ evmAddresses \in [Users -> Mapping!EvmAddress \cup {Mapping!Unmapped}]
  /\ DOMAIN balances = Mapping!AccountId
  /\ \A u \in Users : accounts[Mapping!DefaultAddress(u)] \in {u, Mapping!Unmapped}
  /\ Mapping!MappingsInverse

(* The registries of the bridge have their types and are inverse. *)
RegistriesInv ==
  /\ resourceIds \in [ChainBridge!BridgeCurrencies -> Resources \cup {ChainBridge!Unregistered}]
  /\ currencyIds \in [Resources -> ChainBridge!BridgeCurrencies \cup {ChainBridge!Unregistered}]
  /\ ChainBridge!RegistriesInverse

(* An id leads to no contract or to one that has it. *)
IdMapInv ==
  /\ DOMAIN currencyIdMap = Manager!Ids
  /\ \A i \in Manager!Ids : currencyIdMap[i] = Manager!NoContract \/
                            currencyIdMap[i] \in {c \in Contracts : IdOf[c] = i}

(* A step of the pallets is a step of each of the three or leaves it alone. *)
LEMMA StepOfEach ==
  ASSUME [Next]_vars
  PROVE  /\ Mapping!Next \/ UNCHANGED accountVars
         /\ ChainBridge!Next \/ UNCHANGED chainsafeVars
         /\ Manager!Next \/ UNCHANGED currencyIdMap
<1>1. CASE Incentive
  BY ONLY <1>1 DEF Incentive, othersOfHoma, accountVars, chainsafeVars
<1>2. CASE Guarantor
  BY ONLY <1>2 DEF Guarantor, othersOfHoma, accountVars, chainsafeVars
<1>3. CASE Nominate
  BY ONLY <1>3 DEF Nominate, othersOfHoma, accountVars, chainsafeVars
<1>4. CASE Upload
  BY ONLY <1>4 DEF Upload, accountVars, chainsafeVars
<1>5. CASE Cross
  BY ONLY <1>5 DEF Cross, accountVars, chainsafeVars
<1>6. CASE Collect
  BY ONLY <1>6 DEF Collect, accountVars, chainsafeVars
<1>7. CASE Claim
  BY ONLY <1>7 DEF Claim, accountVars, chainsafeVars
<1>8. CASE List
  BY ONLY <1>8 DEF List, accountVars, chainsafeVars
<1>9. CASE UNCHANGED vars
  BY ONLY <1>9 DEF vars, accountVars, chainsafeVars
<1>. QED  BY <1>1, <1>2, <1>3, <1>4, <1>5, <1>6, <1>7, <1>8, <1>9 DEF Next
-----------------------------------------------------------------------------
(* Addresses are told apart by their kind and what they are made of.       *)
LEMMA AddressesDiffer ==
  /\ \A u : Mapping!DefaultAddress(u) # Mapping!Unmapped
  /\ \A k : Mapping!KeyAddress(k) # Mapping!Unmapped
  /\ \A u, k : Mapping!DefaultAddress(u) # Mapping!KeyAddress(k)
  /\ \A u, w : Mapping!DefaultAddress(u) = Mapping!DefaultAddress(w) => u = w
  /\ \A k, l : Mapping!KeyAddress(k) = Mapping!KeyAddress(l) => k = l
  /\ \A u, x : Mapping!Plain(u) # Mapping!Padded(x)
  /\ \A x, y : Mapping!Padded(x) = Mapping!Padded(y) => x = y
  /\ \A x \in Mapping!EvmAddress : x # Mapping!Unmapped /\ Mapping!Padded(x) \in Mapping!AccountId
BY DEF Mapping!DefaultAddress, Mapping!KeyAddress, Mapping!Unmapped, Mapping!Plain, Mapping!Padded,
       Mapping!EvmAddress, Mapping!AccountId

(* A claim by signature keeps the maps of evm_accounts inverse.            *)
LEMMA ClaimKeeps ==
  ASSUME AccountsInv, NEW u \in Users, NEW k \in Keys, Mapping!claim_account(u, k)
  PROVE  AccountsInv'
<1>. DEFINE x == Mapping!KeyAddress(k)
<1>1. x \in Mapping!EvmAddress
  BY DEF Mapping!EvmAddress
<1>2. /\ evmAddresses[u] = Mapping!Unmapped /\ accounts[x] = Mapping!Unmapped
      /\ accounts' = [accounts EXCEPT ![x] = u]
      /\ evmAddresses' = [evmAddresses EXCEPT ![u] = x]
      /\ balances' = [balances EXCEPT ![Mapping!Plain(u)] = @ + balances[Mapping!Padded(x)],
                                      ![Mapping!Padded(x)] = 0]
  BY DEF Mapping!claim_account, Mapping!get_account_id
<1>3. \A w \in Users : x # Mapping!DefaultAddress(w)
  BY AddressesDiffer
<1>4. \A a \in Mapping!EvmAddress, w \in Users : (accounts[a] = w <=> evmAddresses[w] = a)'
  BY <1>1, <1>2, AddressesDiffer, PalletsAssumption DEF AccountsInv, Mapping!MappingsInverse, Mapping!Unmapped
<1>5. \A l \in Keys : (accounts[Mapping!KeyAddress(l)] # Mapping!Unmapped => balances[Mapping!Padded(Mapping!KeyAddress(l))] = 0)'
  BY <1>1, <1>2, AddressesDiffer DEF AccountsInv, Mapping!MappingsInverse, Mapping!EvmAddress
<1>6. \A w \in Users : (accounts[Mapping!DefaultAddress(w)] \in {w, Mapping!Unmapped})'
  BY <1>1, <1>2, <1>3 DEF AccountsInv, Mapping!EvmAddress
<1>. QED  BY <1>1, <1>2, <1>4, <1>5, <1>6 DEF AccountsInv, Mapping!MappingsInverse

(* So does the creation of a default address.                              *)
LEMMA CreateKeeps ==
  ASSUME AccountsInv, NEW u \in Users, Mapping!get_or_create_evm_address(u)
  PROVE  AccountsInv'
<1>. DEFINE x == Mapping!DefaultAddress(u)
<1>1. x \in Mapping!EvmAddress
  BY DEF Mapping!EvmAddress
<1>2. /\ evmAddresses[u] = Mapping!Unmapped
      /\ accounts' = [accounts EXCEPT ![x] = u]
      /\ evmAddresses' = [evmAddresses EXCEPT ![u] = x]
      /\ balances' = balances
  BY DEF Mapping!get_or_create_evm_address, Mapping!get_evm_address
<1>3. accounts[x] = Mapping!Unmapped
  BY <1>1, <1>2, AddressesDiffer DEF AccountsInv, Mapping!MappingsInverse
<1>4. \A a \in Mapping!EvmAddress, w \in Users : (accounts[a] = w <=> evmAddresses[w] = a)'
  BY <1>1, <1>2, <1>3, AddressesDiffer, PalletsAssumption DEF AccountsInv, Mapping!MappingsInverse, Mapping!Unmapped
<1>5. \A l \in Keys : (accounts[Mapping!KeyAddress(l)] # Mapping!Unmapped => balances[Mapping!Padded(Mapping!KeyAddress(l))] = 0)'
  BY <1>1, <1>2, AddressesDiffer DEF AccountsInv, Mapping!MappingsInverse, Mapping!EvmAddress
<1>6. \A w \in Users : (accounts[Mapping!DefaultAddress(w)] \in {w, Mapping!Unmapped})'
  BY <1>1, <1>2, AddressesDiffer DEF AccountsInv, Mapping!EvmAddress
<1>. QED  BY <1>1, <1>2, <1>4, <1>5, <1>6 DEF AccountsInv, Mapping!MappingsInverse

(* So does a transfer, whether or not the sender dies of it.               *)
LEMMA TransferKeeps ==
  ASSUME AccountsInv, NEW u \in Users, NEW to, NEW n, Mapping!Transfer(u, to, n),
         \A k \in Keys : to = Mapping!Padded(Mapping!KeyAddress(k)) => accounts[Mapping!KeyAddress(k)] = Mapping!Unmapped
  PROVE  AccountsInv'
<1>. DEFINE left == balances[Mapping!Plain(u)] - n
            dead == {w \in Users : Mapping!Plain(u) = Mapping!Plain(w) /\ left = 0}
<1>1. /\ balances' = [balances EXCEPT ![Mapping!Plain(u)] = left, ![to] = @ + n]
      /\ accounts' = [a \in Mapping!EvmAddress |->
           IF \E w \in dead : a \in {Mapping!DefaultAddress(w), evmAddresses[w]} THEN Mapping!Unmapped ELSE accounts[a]]
      /\ evmAddresses' = [w \in Users |-> IF w \in dead THEN Mapping!Unmapped ELSE evmAddresses[w]]
  BY DEF Mapping!Transfer, Mapping!on_killed_account
<1>2. dead \subseteq Users
  OBVIOUS
<1>. HIDE DEF left, dead
<1>3. \A a \in Mapping!EvmAddress, w \in Users : (accounts[a] = w <=> evmAddresses[w] = a)'
  <2>. SUFFICES ASSUME NEW a \in Mapping!EvmAddress, NEW w \in Users
               PROVE  accounts'[a] = w <=> evmAddresses'[w] = a
    OBVIOUS
  <2>1. a # Mapping!Unmapped /\ w # Mapping!Unmapped
    BY AddressesDiffer, PalletsAssumption DEF Mapping!Unmapped
  <2>2. \A y \in Users : accounts[a] = y <=> evmAddresses[y] = a
    BY DEF AccountsInv, Mapping!MappingsInverse
  <2>3. \A y \in dead : a = Mapping!DefaultAddress(y) => accounts[a] \in {y, Mapping!Unmapped}
    BY <1>2 DEF AccountsInv
  <2>. QED  BY <1>1, <1>2, <2>1, <2>2, <2>3
<1>4. \A l \in Keys : (accounts[Mapping!KeyAddress(l)] # Mapping!Unmapped => balances[Mapping!Padded(Mapping!KeyAddress(l))] = 0)'
  BY <1>1, AddressesDiffer DEF AccountsInv, Mapping!MappingsInverse, Mapping!EvmAddress
<1>5. \A w \in Users : (accounts[Mapping!DefaultAddress(w)] \in {w, Mapping!Unmapped})'
  BY <1>1 DEF AccountsInv, Mapping!EvmAddress
<1>6. /\ accounts' \in [Mapping!EvmAddress -> Users \cup {Mapping!Unmapped}]
      /\ evmAddresses' \in [Users -> Mapping!EvmAddress \cup {Mapping!Unmapped}]
      /\ DOMAIN balances' = Mapping!AccountId
  BY <1>1 DEF AccountsInv
<1>. QED  BY <1>3, <1>4, <1>5, <1>6 DEF AccountsInv, Mapping!MappingsInverse

(* Every step of evm_accounts keeps its maps inverse.                      *)
LEMMA AccountsStep ==
  ASSUME AccountsInv, Mapping!Next \/ UNCHANGED accountVars
  PROVE  AccountsInv'
<1>1. ASSUME NEW u \in Users, NEW k \in Keys, Mapping!claim_account(u, k)  PROVE AccountsInv'
  BY ONLY AccountsInv, <1>1, ClaimKeeps
<1>2. ASSUME NEW u \in Users, Mapping!get_or_create_evm_address(u)  PROVE AccountsInv'
  BY ONLY AccountsInv, <1>2, CreateKeeps
<1>3. ASSUME NEW u \in Users, NEW w \in Users, NEW n, Mapping!Transfer(u, Mapping!Plain(w), n)  PROVE AccountsInv'
  BY <1>3, TransferKeeps, AddressesDiffer
<1>4. ASSUME NEW u \in Users, NEW a \in Mapping!EvmAddress, NEW n, Mapping!Transfer(u, Mapping!get_account_id(a), n)
      PROVE  AccountsInv'
  <2>1. ASSUME NEW k \in Keys, Mapping!get_account_id(a) = Mapping!Padded(Mapping!KeyAddress(k))
        PROVE  accounts[Mapping!KeyAddress(k)] = Mapping!Unmapped
    BY <2>1, AddressesDiffer DEF Mapping!get_account_id
  <2>. QED  BY <1>4, <2>1, TransferKeeps
<1>5. CASE UNCHANGED accountVars
  BY <1>5 DEF accountVars, AccountsInv, Mapping!MappingsInverse
<1>. QED  BY <1>1, <1>2, <1>3, <1>4, <1>5 DEF Mapping!Next
-----------------------------------------------------------------------------
(* Registering, removing and transferring keep the registries inverse.     *)
LEMMA RegistriesStep ==
  ASSUME RegistriesInv, ChainBridge!Next \/ UNCHANGED chainsafeVars
  PROVE  RegistriesInv'
<1>. USE DEF RegistriesInv, ChainBridge!RegistriesInverse
<1>1. /\ ChainBridge!Unregistered \notin Resources
      /\ ChainBridge!Unregistered \notin ChainBridge!BridgeCurrencies
  BY PalletsAssumption DEF ChainBridge!Unregistered, ChainBridge!BridgeCurrencies, ChainBridge!ForeignCurrencies
<1>2. ASSUME NEW r \in Resources, NEW c \in ChainBridge!BridgeCurrencies, ChainBridge!register_resource_id(r, c)
      PROVE  RegistriesInv'
  BY <1>1, <1>2 DEF ChainBridge!register_resource_id
<1>3. ASSUME NEW r \in Resources, ChainBridge!remove_resource_id(r)
      PROVE  RegistriesInv'
  BY <1>1, <1>3 DEF ChainBridge!remove_resource_id
<1>4. CASE UNCHANGED <<resourceIds, currencyIds>>
  BY <1>4
<1>. QED
  BY <1>2, <1>3, <1>4
  DEF ChainBridge!Next, ChainBridge!do_transfer_to_bridge, ChainBridge!transfer_from_bridge, chainsafeVars
-----------------------------------------------------------------------------
(* Listing a contract leaves every id with a contract that has it.         *)
LEMMA IdMapStep ==
  ASSUME IdMapInv, Manager!Next \/ UNCHANGED currencyIdMap
  PROVE  IdMapInv'
<1>1. CASE UNCHANGED currencyIdMap
  BY <1>1 DEF IdMapInv
<1>2. ASSUME NEW c \in Contracts, Manager!set_erc20_mapping(c)  PROVE IdMapInv'
  BY <1>2 DEF IdMapInv, Manager!set_erc20_mapping
<1>. QED  BY <1>1, <1>2 DEF Manager!Next

(* The id of a token symbol or a listed contract leads back to it.         *)
LEMMA ShareOfId ==
  ASSUME IdMapInv, NEW x \in Contracts \cup TokenSymbols, Manager!Listed(x)
  PROVE  Manager!ShareOf(IdOf[x]) = x /\ x # Manager!NoContract
<1>1. x # Manager!NoContract
  BY PalletsAssumption DEF Manager!NoContract
<1>2. CASE \E t \in TokenSymbols : IdOf[t] = IdOf[x]
  BY <1>1, <1>2, PalletsAssumption DEF Manager!ShareOf
<1>3. CASE ~ \E t \in TokenSymbols : IdOf[t] = IdOf[x]
  BY <1>1, <1>3 DEF Manager!ShareOf, Manager!Listed
<1>. QED  BY <1>2, <1>3

(* A described currency's address leads back to it.                        *)
LEMMA AddressDecodes ==
  ASSUME IdMapInv
  PROVE  Manager!AddressesDecode
<1>1. ASSUME NEW t \in TokenSymbols
      PROVE  Manager!decode_evm_address(Manager!encode_evm_address(Manager!TokenCurrency(t))) = Manager!TokenCurrency(t)
  BY DEF Manager!TokenCurrency, Manager!encode_evm_address, Manager!decode_evm_address
<1>2. ASSUME NEW c \in Contracts, Manager!Described(Manager!Erc20Currency(c))
      PROVE  Manager!decode_evm_address(Manager!encode_evm_address(Manager!Erc20Currency(c))) = Manager!Erc20Currency(c)
  BY <1>2, PalletsAssumption
  DEF Manager!Erc20Currency, Manager!Listed, Manager!NoContract, Manager!Described,
      Manager!encode_evm_address, Manager!decode_evm_address
<1>3. ASSUME NEW l \in Manager!Shares, NEW r \in Manager!Shares, Manager!Described(Manager!DexShareCurrency(l, r))
      PROVE  Manager!decode_evm_address(Manager!encode_evm_address(Manager!DexShareCurrency(l, r)))
               = Manager!DexShareCurrency(l, r)
  <2>1. Manager!Listed(l) /\ Manager!Listed(r)
    BY <1>3 DEF Manager!DexShareCurrency, Manager!Described
  <2>2. /\ Manager!ShareOf(IdOf[l]) = l /\ l # Manager!NoContract
        /\ Manager!ShareOf(IdOf[r]) = r /\ r # Manager!NoContract
    BY <2>1, ShareOfId DEF Manager!Shares
  <2>. QED  BY <2>1, <2>2 DEF Manager!DexShareCurrency, Manager!encode_evm_address, Manager!decode_evm_address
<1>. QED  BY <1>1, <1>2, <1>3 DEF Manager!AddressesDecode, Manager!CurrencyIds
-----------------------------------------------------------------------------
(* Nothing is mapped at first.                                             *)
LEMMA NothingMapped ==
  ASSUME Init
  PROVE  AccountsInv /\ RegistriesInv /\ IdMapInv
<1>1. AccountsInv
  BY AddressesDiffer, PalletsAssumption
  DEF Init, Mapping!Init, AccountsInv, Mapping!MappingsInverse, Mapping!EvmAddress, Mapping!Unmapped
<1>2. RegistriesInv
  BY PalletsAssumption
  DEF Init, ChainBridge!Init, RegistriesInv, ChainBridge!RegistriesInverse, ChainBridge!Unregistered,
      ChainBridge!BridgeCurrencies, ChainBridge!ForeignCurrencies
<1>3. IdMapInv
  BY DEF Init, Manager!Init, IdMapInv
<1>. QED  BY <1>1, <1>2, <1>3

(* Whatever users claim, however accounts die and come back, whatever the  *)
(* registrar registers and removes, and whichever contracts share an id:   *)
(* what evm_accounts, chainsafe and evm_manager map one way is mapped back. *)
THEOREM MappingsStayInverse == Spec => []MappingsInverse
<1>. DEFINE Inv == AccountsInv /\ RegistriesInv /\ IdMapInv
<1>1. Init => Inv
  BY NothingMapped
<1>2. Inv /\ [Next]_vars => Inv'
  BY StepOfEach, AccountsStep, RegistriesStep, IdMapStep
<1>3. Inv => MappingsInverse
  BY AddressDecodes DEF AccountsInv, RegistriesInv, MappingsInverse
<1>. QED  BY <1>1, <1>2, <1>3, PTL DEF Spec
=============================================================================
