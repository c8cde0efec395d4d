------------------------------- MODULE Pallets -------------------------------
(***************************************************************************)
(* The pallets that share no state with the protocols of the other         *)
(* modules, in one specification.  The validator list, the nominees        *)
(* election and the incentives share the liquid currency; each of the      *)
(* others stands alone.  As the groups are independent, a behaviour is     *)
(* that of one of them, chosen by focus.                                   *)
(***************************************************************************)
EXTENDS HomaValidatorList

CONSTANTS Groups,
          NomineeFilter, MinBondThreshold, ElectionDuration, NominateesCount, MaxUnlockingChunks, MaxEra,
          Assets, Authorities, Cash, Notices, SignatureThreshold, MaxGatewayAuthorities,
          Resources, OwnResources, LocalCurrencies, MaxIncoming,
          Classes, Tokens, Properties, CreateClassDeposit, CreateTokenDeposit, ProxyDeposit,
          Keys, Contracts, TokenSymbols, IdOf,
          IncentiveFunds, StarportFunds, YieldIndices, NativeFunds

(* The absent values are no members, and an id of three leading zero bytes *)
(* belongs to one token symbol and no contract.                            *)
ASSUME PalletsAssumption ==
  /\ <<"unmapped">> \notin Users
  /\ "unregistered" \notin Resources \cup LocalCurrencies
  /\ "none" \notin Contracts \cup TokenSymbols
  /\ \A t \in TokenSymbols, x \in Contracts \cup TokenSymbols : IdOf[t] = IdOf[x] => t = x

VARIABLES focus,
          ledger, nominations, votes, nominees, currentEra,
          holdings, supplyCaps, invokedNotices, gatewayAuthorities, futureYield, uploaded,
          resourceIds, currencyIds, bridged, outgoing, incoming,
          classes, owners, created, minted, proxies, free, nftReserved, proxyReserved,
          accounts, evmAddresses, balances,
          currencyIdMap

Election == INSTANCE NomineesElection WITH Nominees <- Validators
Gateway == INSTANCE Starport
ChainBridge == INSTANCE ChainsafeTransfer
NFT == INSTANCE Nft
Mapping == INSTANCE EvmAccounts
Manager == INSTANCE EvmManager

rewardVars == <<books, parameterVars>>
homaVars == <<guaranteeVars, now>>
electionVars == <<ledger, nominations, votes, nominees, currentEra>>
starportVars == <<holdings, supplyCaps, invokedNotices, gatewayAuthorities, futureYield, uploaded>>
chainsafeVars == <<resourceIds, currencyIds, bridged, outgoing, incoming>>
nftVars == <<classes, owners, created, minted, proxies, free, nftReserved, proxyReserved>>
accountVars == <<accounts, evmAddresses, balances>>
vars == <<focus, rewardVars, homaVars, electionVars, starportVars, chainsafeVars, nftVars, accountVars, currencyIdMap>>

Init ==
  /\ focus \in Groups
  /\ IncentivesInit(IncentiveFunds) /\ GuaranteeInit /\ Election!Init
  /\ Gateway!Init(StarportFunds, YieldIndices) /\ ChainBridge!Init(NativeFunds)
  /\ NFT!Init(NativeFunds) /\ Mapping!Init(NativeFunds) /\ Manager!Init

othersOfHoma == <<focus, starportVars, chainsafeVars, nftVars, accountVars, currencyIdMap>>

(* The pools of loans and of dex shares do not touch each other. *)
Incentive ==
  /\ \/ focus \in {"loans", "dex shares"} /\ RewardsNext
     \/ focus = "loans" /\ LoansNext
     \/ focus = "dex shares" /\ DexShareNext
  /\ UNCHANGED <<homaVars, electionVars, othersOfHoma>>

(* The lock of the election and the lock of the guarantees overlap. *)
Guarantor ==
  /\ focus = "guarantees"
  /\ \/ NextBlock
     \/ \E who \in Users, v \in Validators, n \in Amounts : bond(who, v, n) \/ unbond(who, v, n) \/ rebond(who, v, n)
     \/ \E who \in Users, v \in Validators : withdraw_unbonded(who, v)
     \/ \E vs \in FreezeSets : freeze(vs) \/ thaw(vs)
     \/ \E slashes \in SlashSets : slash(slashes)
     \/ \E from, to \in Users, n \in Amounts :
          TransferLiquid(from, to, n, Greatest(totalLocked[from], ledger[from].total))
     \/ /\ \E who \in Users, v \in Validators, n \in Amounts :
             add_allowance(who, <<"HomaValidatorAllowance", v>>, n, Greatest(totalLocked[who], ledger[who].total))
        /\ UNCHANGED homaVars
     \/ (\E who \in Users, pool \in AllowancePools : ClaimRewards(who, pool)) /\ UNCHANGED homaVars
  /\ UNCHANGED <<electionVars, othersOfHoma>>

Nominate ==
  /\ focus = "election"
  /\ \/ Election!Next([u \in Users |-> books.tokens["liquid"][u]]) /\ UNCHANGED <<rewardVars, homaVars>>
     \/ /\ \E from, to \in Users, n \in Amounts :
             TransferLiquid(from, to, n, Greatest(totalLocked[from], ledger[from].total))
        /\ UNCHANGED electionVars
  /\ UNCHANGED othersOfHoma

Upload ==
  /\ focus = "starport" /\ Gateway!Next
  /\ UNCHANGED <<focus, rewardVars, homaVars, electionVars, chainsafeVars, nftVars, accountVars, currencyIdMap>>

Cross ==
  /\ focus = "chainsafe" /\ ChainBridge!Next
  /\ UNCHANGED <<focus, rewardVars, homaVars, electionVars, starportVars, nftVars, accountVars, currencyIdMap>>

Collect ==
  /\ focus = "nft" /\ NFT!Next
  /\ UNCHANGED <<focus, rewardVars, homaVars, electionVars, starportVars, chainsafeVars, accountVars, currencyIdMap>>

Claim ==
  /\ focus = "accounts" /\ Mapping!Next
  /\ UNCHANGED <<focus, rewardVars, homaVars, electionVars, starportVars, chainsafeVars, nftVars, currencyIdMap>>

List ==
  /\ focus = "erc20" /\ Manager!Next
  /\ UNCHANGED <<focus, rewardVars, homaVars, electionVars, starportVars, chainsafeVars, nftVars, accountVars>>

Next == Incentive \/ Guarantor \/ Nominate \/ Upload \/ Cross \/ Collect \/ Claim \/ List

Spec == Init /\ [][Next]_vars
-----------------------------------------------------------------------------
(* The votes of the election follow from the bonds, see NomineesElection.  *)
VotesAgree == Election!VotesAgree

(* Nothing crosses a bridge that is not accounted for: Starport's custody  *)
(* and CASH, each notice applied once, and ChainSafe's custody and         *)
(* issuance under changing registrations.                                  *)
BridgesBacked ==
  /\ Gateway!UploadsBacked(StarportFunds) /\ Gateway!GatewayUsable
  /\ ChainBridge!CustodyKept

(* The deposits of classes and tokens stay with their owners, see Nft.     *)
DepositsMatch == NFT!DepositsMatch(NativeFunds)

(* What is mapped one way is mapped back: accounts and EVM addresses,      *)
(* bridge resources and currencies, currencies and their EVM addresses.    *)
MappingsInverse ==
  /\ Mapping!MappingsInverse /\ ChainBridge!RegistriesInverse /\ Manager!AddressesDecode
=============================================================================
