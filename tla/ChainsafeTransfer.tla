-------------------------- MODULE ChainsafeTransfer --------------------------
(***************************************************************************)
(* ecosystem_chainsafe: currencies registered under a resource id cross    *)
(* the ChainBridge.  A resource of this chain is locked in the bridge      *)
(* account, a foreign one is minted and burnt.  The bridge's relayers are  *)
(* external.                                                               *)
(***************************************************************************)
EXTENDS Integers, FiniteSets, FiniteSetsExt

CONSTANTS Users, Resources,
          OwnResources,          \* those whose last byte is this chain's id
          LocalCurrencies,       \* currencies other than CurrencyId::ChainSafe(_)
          Amounts, MaxIncoming   \* amounts tried, bound on what the bridge brings

VARIABLES resourceIds, currencyIds, bridged,
          outgoing, incoming     \* history: by currency, what left and what arrived

chainsafeVars == <<resourceIds, currencyIds, bridged, outgoing, incoming>>

Bridge == "bridge"
Unregistered == "unregistered"

(* CurrencyId::ChainSafe(r) is named by its resource. *)
ForeignCurrencies == Resources
BridgeCurrencies == LocalCurrencies \cup ForeignCurrencies

Init(funds) ==
  /\ resourceIds = [c \in BridgeCurrencies |-> Unregistered]
  /\ currencyIds = [r \in Resources |-> Unregistered]
  /\ bridged = [c \in BridgeCurrencies |-> [a \in Users \cup {Bridge} |->
                  IF c \in LocalCurrencies /\ a \in Users THEN funds ELSE 0]]
  /\ outgoing = [c \in BridgeCurrencies |-> 0] /\ incoming = [c \in BridgeCurrencies |-> 0]

register_resource_id(r, c) ==
  /\ resourceIds[c] = Unregistered /\ currencyIds[r] = Unregistered
  /\ IF r \in OwnResources THEN c \notin ForeignCurrencies ELSE c = r
  /\ resourceIds' = [resourceIds EXCEPT ![c] = r]
  /\ currencyIds' = [currencyIds EXCEPT ![r] = c]
  /\ UNCHANGED <<bridged, outgoing, incoming>>

remove_resource_id(r) ==
  /\ currencyIds[r] # Unregistered
  /\ currencyIds' = [currencyIds EXCEPT ![r] = Unregistered]
  /\ resourceIds' = [resourceIds EXCEPT ![currencyIds[r]] = Unregistered]
  /\ UNCHANGED <<bridged, outgoing, incoming>>

do_transfer_to_bridge(from, c, n) ==
  /\ resourceIds[c] # Unregistered /\ bridged[c][from] >= n
  /\ bridged' = [bridged EXCEPT ![c] =
                   IF resourceIds[c] \in OwnResources THEN [@ EXCEPT ![from] = @ - n, ![Bridge] = @ + n]
                   ELSE [@ EXCEPT ![from] = @ - n]]
  /\ outgoing' = [outgoing EXCEPT ![c] = @ + n]
  /\ UNCHANGED <<resourceIds, currencyIds, incoming>>

transfer_from_bridge(to, n, r) ==
  LET c == currencyIds[r] IN
  /\ c # Unregistered /\ incoming[c] + n <= MaxIncoming
  /\ r \in OwnResources => bridged[c][Bridge] >= n
  /\ bridged' = [bridged EXCEPT ![c] =
                   IF r \in OwnResources THEN [@ EXCEPT ![Bridge] = @ - n, ![to] = @ + n]
                   ELSE [@ EXCEPT ![to] = @ + n]]
  /\ incoming' = [incoming EXCEPT ![c] = @ + n]
  /\ UNCHANGED <<resourceIds, currencyIds, outgoing>>

Next ==
  \/ \E r \in Resources, c \in BridgeCurrencies : register_resource_id(r, c)
  \/ \E r \in Resources : remove_resource_id(r)
  \/ \E who \in Users, c \in BridgeCurrencies, n \in Amounts : do_transfer_to_bridge(who, c, n)
  \/ \E who \in Users, n \in Amounts, r \in Resources : transfer_from_bridge(who, n, r)
-----------------------------------------------------------------------------
(* Whatever is registered, removed and registered again, a currency's way  *)
(* over the bridge is kept: a local currency's custody is what left and    *)
(* did not return, a foreign one's issuance what arrived and did not leave. *)
CustodyKept ==
  \A c \in BridgeCurrencies :
    IF c \in LocalCurrencies THEN bridged[c][Bridge] = outgoing[c] - incoming[c]
    ELSE FoldSet(LAMBDA u, n : n + bridged[c][u], 0, Users) = incoming[c] - outgoing[c]

(* The two registries are inverse to each other.                           *)
RegistriesInverse ==
  \A r \in Resources, c \in BridgeCurrencies : currencyIds[r] = c <=> resourceIds[c] = r
=============================================================================
