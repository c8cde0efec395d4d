--------------------------------- MODULE Nft ---------------------------------
(***************************************************************************)
(* module_nft over orml_nft, pallet_proxy and the named reserves of the    *)
(* native currency: a class belongs to an account of its own, which its    *)
(* delegates act for; classes and tokens carry deposits that are reserved  *)
(* with their owner and move with the token.                               *)
(***************************************************************************)
EXTENDS Integers, FiniteSets, FiniteSetsExt

CONSTANTS Users, Classes, Tokens,     \* class ids and token ids, used once each
          Properties,                 \* sets of class properties tried
          CreateClassDeposit, CreateTokenDeposit, ProxyDeposit,
          Amounts                     \* metadata lengths and payments tried

VARIABLES classes,                    \* by class id, NoClass if there is none
          owners,                     \* by class and token id, NoOwner if there is none
          created, minted,            \* class and token ids already given out
          proxies,                    \* delegates of a class account
          free, nftReserved, proxyReserved   \* by account

nftVars == <<classes, owners, created, minted, proxies, free, nftReserved, proxyReserved>>

NoClass == [exists |-> FALSE]
NoOwner == "nobody"

(* A class id also names the class's account. *)
NftAccounts == Users \cup Classes

(* Those who can sign: the class accounts through a delegate. *)
Signing == Users \cup {c \in Classes : proxies[c] # {}}

Total(holds, accounts) == FoldSet(LAMBDA a, n : n + holds[a], 0, accounts)

Init(funds) ==
  /\ classes = [c \in Classes |-> NoClass] /\ owners = [t \in Classes \X Tokens |-> NoOwner]
  /\ created = {} /\ minted = {} /\ proxies = [c \in Classes |-> {}]
  /\ free = [a \in NftAccounts |-> IF a \in Users THEN funds ELSE 0]
  /\ nftReserved = [a \in NftAccounts |-> 0] /\ proxyReserved = [a \in NftAccounts |-> 0]

(* what a transfer with KeepAlive asks of its sender; the existential deposit is 1 *)
CanPayAlive(a, n) == free[a] >= n /\ free[a] + nftReserved[a] + proxyReserved[a] > n

Issuance(c) == Cardinality({t \in Tokens : owners[<<c, t>>] # NoOwner})

create_class(who, c, length, properties) ==
  LET deposit == CreateClassDeposit + length IN
  /\ c \notin created /\ CanPayAlive(who, deposit + ProxyDeposit)
  /\ created' = created \cup {c}
  /\ classes' = [classes EXCEPT ![c] = [exists |-> TRUE, deposit |-> deposit, properties |-> properties]]
  /\ proxies' = [proxies EXCEPT ![c] = {who}]
  /\ free' = [free EXCEPT ![who] = @ - deposit - ProxyDeposit]
  /\ nftReserved' = [nftReserved EXCEPT ![c] = @ + deposit]
  /\ proxyReserved' = [proxyReserved EXCEPT ![c] = @ + ProxyDeposit]
  /\ UNCHANGED <<owners, minted>>

(* Called by the class's account. *)
mint(c, to, tokens) ==
  LET deposit == CreateTokenDeposit * Cardinality(tokens) IN
  /\ classes[c].exists /\ proxies[c] # {} /\ tokens # {} /\ tokens \cap minted = {}
  /\ CanPayAlive(c, deposit)
  /\ minted' = minted \cup tokens
  /\ owners' = [t \in DOMAIN owners |-> IF t[1] = c /\ t[2] \in tokens THEN to ELSE owners[t]]
  /\ free' = [free EXCEPT ![c] = @ - deposit]
  /\ nftReserved' = [nftReserved EXCEPT ![to] = @ + deposit]
  /\ UNCHANGED <<classes, created, proxies, proxyReserved>>

(* mutant of do_transfer: the deposit stays with the former owner *)
TransferKeepsDeposit(from, to, token) ==
  /\ classes[token[1]].exists /\ "Transferable" \in classes[token[1]].properties
  /\ owners[token] = from
  /\ owners' = [owners EXCEPT ![token] = to]
  /\ UNCHANGED <<nftReserved, classes, created, minted, proxies, free, proxyReserved>>

do_transfer(from, to, token) ==
  /\ classes[token[1]].exists /\ "Transferable" \in classes[token[1]].properties
  /\ owners[token] = from
  /\ owners' = [owners EXCEPT ![token] = to]
  /\ nftReserved' = [[nftReserved EXCEPT ![from] = @ - CreateTokenDeposit]
                       EXCEPT ![to] = @ + CreateTokenDeposit]
  /\ UNCHANGED <<classes, created, minted, proxies, free, proxyReserved>>

(* burn and burn_with_remark *)
do_burn(who, token) ==
  /\ classes[token[1]].exists /\ "Burnable" \in classes[token[1]].properties
  /\ owners[token] = who
  /\ owners' = [owners EXCEPT ![token] = NoOwner]
  /\ nftReserved' = [nftReserved EXCEPT ![who] = @ - CreateTokenDeposit]
  /\ free' = [free EXCEPT ![who] = @ + CreateTokenDeposit]
  /\ UNCHANGED <<classes, created, minted, proxies, proxyReserved>>

(* The proxy deposit of the delegate that leaves comes back as well. *)
destroy_class(c, dest) ==
  LET paid == free[c] + classes[c].deposit + ProxyDeposit IN
  /\ classes[c].exists /\ Issuance(c) = 0 /\ dest \in proxies[c]
  /\ classes' = [classes EXCEPT ![c] = NoClass]
  /\ proxies' = [proxies EXCEPT ![c] = @ \ {dest}]
  /\ nftReserved' = [nftReserved EXCEPT ![c] = @ - classes[c].deposit]
  /\ proxyReserved' = [proxyReserved EXCEPT ![c] = @ - ProxyDeposit]
  /\ free' = [free EXCEPT ![c] = 0, ![dest] = @ + paid]
  /\ UNCHANGED <<owners, created, minted>>

(* pallet_proxy::add_proxy, called by the class's account *)
AddProxy(c, delegate) ==
  /\ proxies[c] # {} /\ delegate \notin proxies[c] /\ free[c] >= ProxyDeposit
  /\ proxies' = [proxies EXCEPT ![c] = @ \cup {delegate}]
  /\ free' = [free EXCEPT ![c] = @ - ProxyDeposit]
  /\ proxyReserved' = [proxyReserved EXCEPT ![c] = @ + ProxyDeposit]
  /\ UNCHANGED <<classes, owners, created, minted, nftReserved>>

(* pallet_balances::transfer_keep_alive *)
Pay(from, to, n) ==
  /\ from # to /\ CanPayAlive(from, n)
  /\ free' = [free EXCEPT ![from] = @ - n, ![to] = @ + n]
  /\ UNCHANGED <<classes, owners, created, minted, proxies, nftReserved, proxyReserved>>

Next ==
  \/ \E who \in Users, c \in Classes, length \in Amounts, p \in Properties : create_class(who, c, length, p)
  \/ \E c \in Classes, to \in NftAccounts, tokens \in SUBSET Tokens : mint(c, to, tokens)
  \/ \E from \in Signing, to \in NftAccounts, token \in Classes \X Tokens : do_transfer(from, to, token)
  \/ \E who \in Signing, token \in Classes \X Tokens : do_burn(who, token)
  \/ \E c \in Classes, dest \in Users : destroy_class(c, dest)
  \/ \E c \in Classes, u \in Users : AddProxy(c, u)
  \/ \E from \in Users, c \in Classes, n \in Amounts : Pay(from, c, n)
-----------------------------------------------------------------------------
(* An account's named reserve is exactly the deposits of the tokens it     *)
(* owns and of the classes it is, through mints to any account, transfers, *)
(* burns and the destruction of a class; no deposit is lost on the way.    *)
DepositsMatch(funds) ==
  /\ \A a \in NftAccounts :
       nftReserved[a] = CreateTokenDeposit * Cardinality({t \in DOMAIN owners : owners[t] = a})
                        + IF a \in Classes /\ classes[a].exists THEN classes[a].deposit ELSE 0
  /\ \A c \in Classes : proxyReserved[c] = ProxyDeposit * Cardinality(proxies[c])
  /\ Total(free, NftAccounts) + Total(nftReserved, NftAccounts) + Total(proxyReserved, NftAccounts)
       = funds * Cardinality(Users)
=============================================================================
