------------------------------ MODULE EvmManager ------------------------------
(***************************************************************************)
(* module_evm_manager: the EVM address of a currency and back.  A dex      *)
(* share of ERC20 contracts has no room for their addresses and names them *)
(* by 32-bit ids, taken from the address, that different contracts can     *)
(* share; the first contract listed holds the id.  The contracts'          *)
(* addresses are none of the system's own.                                 *)
(***************************************************************************)
EXTENDS Integers, FiniteSets

CONSTANTS Contracts, TokenSymbols,
          IdOf                  \* the id of a contract or token symbol

VARIABLE currencyIdMap          \* by id

NoContract == "none"
Nothing == <<"None">>

Ids == {IdOf[x] : x \in Contracts \cup TokenSymbols}
Shares == Contracts \cup TokenSymbols

TokenCurrency(t) == <<"Token", t>>
Erc20Currency(c) == <<"Erc20", c>>
DexShareCurrency(l, r) == <<"DexShare", l, r>>

CurrencyIds ==
  {TokenCurrency(t) : t \in TokenSymbols} \cup {Erc20Currency(c) : c \in Contracts}
    \cup {DexShareCurrency(l, r) : l \in Shares, r \in Shares}

Init == currencyIdMap = [i \in Ids |-> NoContract]

(* The name, symbol and decimals come from calls that may fail (see Evm). *)
set_erc20_mapping(c) ==
  /\ currencyIdMap[IdOf[c]] \in {NoContract, c}
  /\ currencyIdMap' = [currencyIdMap EXCEPT ![IdOf[c]] = c]

Listed(x) == x \in Contracts => currencyIdMap[IdOf[x]] = x

(* name, symbol and decimals return something *)
Described(v) ==
  CASE v[1] = "Token" -> TRUE
    [] v[1] = "Erc20" -> Listed(v[2])
    [] OTHER -> Listed(v[2]) /\ Listed(v[3])

encode_evm_address(v) ==
  CASE v[1] = "Token" -> <<"token", v[2]>>
    [] v[1] = "Erc20" -> <<"contract", v[2]>>
    [] OTHER -> IF Listed(v[2]) /\ Listed(v[3]) THEN <<"share", IdOf[v[2]], IdOf[v[3]]>> ELSE Nothing

(* An id of three leading zero bytes is a token symbol. *)
ShareOf(id) ==
  IF \E t \in TokenSymbols : IdOf[t] = id THEN CHOOSE t \in TokenSymbols : IdOf[t] = id
  ELSE currencyIdMap[id]

decode_evm_address(a) ==
  CASE a[1] = "token" -> TokenCurrency(a[2])
    [] a[1] = "share" -> IF NoContract \in {ShareOf(a[2]), ShareOf(a[3])} THEN Nothing
                         ELSE DexShareCurrency(ShareOf(a[2]), ShareOf(a[3]))
    [] OTHER -> IF currencyIdMap[IdOf[a[2]]] = NoContract THEN Nothing
                ELSE Erc20Currency(currencyIdMap[IdOf[a[2]]])

Next == \E c \in Contracts : set_erc20_mapping(c)
-----------------------------------------------------------------------------
(* The address of a currency that is described leads back to it, although *)
(* contracts share ids and a dex share's address holds no more than ids.   *)
AddressesDecode ==
  \A v \in CurrencyIds : Described(v) => decode_evm_address(encode_evm_address(v)) = v
=============================================================================
