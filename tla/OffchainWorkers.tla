--------------------------- MODULE OffchainWorkers ---------------------------
(***************************************************************************)
(* The offchain workers of the CDP engine and the auction manager, and the *)
(* unsigned transactions they submit.  A worker runs again and again on a  *)
(* collator, beside the blocks: it looks at no more than MaxIterations     *)
(* entries of a storage map, from where the last run stopped, submits what *)
(* it finds, and notes in to_be_continue where to go on.                   *)
(*                                                                         *)
(* A run is one step: what it sees of an older block is checked again by   *)
(* validate_unsigned, when the transaction reaches the pool and when it    *)
(* gets into a block.  The lock that the workers share only makes a run    *)
(* rarer.  Anybody may submit the same transactions, so Honzon's own steps *)
(* stay possible; nothing is assumed of them.                              *)
(***************************************************************************)
EXTENDS Honzon, Sequences

CONSTANTS CollateralCurrencyIds,   \* in order
          Keys,                    \* owners, in the order of the keys of Positions
          MaxIterations,           \* OFFCHAIN_WORKER_MAX_ITERATIONS
          MaxPool                  \* bound: workers run while the pool is smaller

ASSUME WorkersAssumption ==
  /\ CollateralCurrencyIds \in Seq(Collaterals) /\ Keys \in Seq(Users)
  /\ CollateralCurrencyIds # <<>> /\ {MaxIterations, MaxPool} \subseteq Nat \ {0}

VARIABLES cdpCursor,       \* to_be_continue of the CDP engine: collateral and last key
          auctionCursor,   \* of the auction manager: last key, -1 at the start
          txPool           \* unsigned transactions

workerVars == <<cdpCursor, auctionCursor, txPool>>

(* Without a record the first run picks any collateral. *)
WorkersInit ==
  /\ cdpCursor \in [collateral : DOMAIN CollateralCurrencyIds, key : {0}]
  /\ auctionCursor = -1 /\ txPool = {}

(* The iterator's entries: those in the map after the last key, as many as *)
(* allowed; it is finished when it looked for one more and found none.     *)
Visited(keys, last) ==
  LET rest == {k \in keys : k > last} IN
  {k \in rest : Cardinality({l \in rest : l < k}) < MaxIterations}
Finished(keys, last) == Cardinality({k \in keys : k > last}) < MaxIterations

validate_unsigned(tx) ==
  CASE tx[1] = "liquidate" -> ~isShutdown /\ is_cdp_unsafe(tx[2], positions[<<tx[2], tx[3]>>])
    [] tx[1] = "settle" -> isShutdown /\ positions[<<tx[2], tx[3]>>].debit # 0
    [] tx[1] = "cancel" -> /\ isShutdown /\ tx[2] \in DOMAIN auctions
                           /\ auctions[tx[2]].bidder # Nobody =>
                                ~in_reverse_stage(auctions[tx[2]], auctions[tx[2]].bid)

Submitted(txs) == txPool \cup {tx \in txs : validate_unsigned(tx)}

(* mutant of Continued: the end of a map is noted like any other place *)
ContinuedAtEnd(c, keys) ==
  [cdpCursor EXCEPT !.key = IF Visited(keys, @) = {} THEN @ ELSE Max(Visited(keys, @))]

(* After the last entry of a collateral comes the next collateral. *)
Continued(c, keys) ==
  IF Finished(keys, cdpCursor.key)
  THEN [collateral |-> (c % Len(CollateralCurrencyIds)) + 1, key |-> 0]
  ELSE [cdpCursor EXCEPT !.key = Max(Visited(keys, @))]

CdpWorker ==
  LET c == CollateralCurrencyIds[cdpCursor.collateral]
      keys == {k \in DOMAIN Keys : positions[<<c, Keys[k]>>] # ZeroPosition}
      call == IF isShutdown THEN "settle" ELSE "liquidate"
  IN /\ phase = "txs" /\ Cardinality(txPool) < MaxPool
     /\ txPool' = Submitted({<<call, c, Keys[k]>> : k \in Visited(keys, cdpCursor.key)})
     /\ cdpCursor' = Continued(cdpCursor.collateral, keys)
     /\ UNCHANGED <<vars, auctionCursor>>

(* The auction manager's worker runs after shutdown. *)
AuctionWorker ==
  LET ids == DOMAIN auctions IN
  /\ phase = "txs" /\ isShutdown /\ Cardinality(txPool) < MaxPool
  /\ txPool' = Submitted({<<"cancel", id>> : id \in Visited(ids, auctionCursor)})
  /\ auctionCursor' = IF Finished(ids, auctionCursor) THEN -1 ELSE Max(Visited(ids, auctionCursor))
  /\ UNCHANGED <<vars, cdpCursor>>

Dispatch(tx) ==
  CASE tx[1] = "liquidate" -> Liquidate(tx[2], tx[3])
    [] tx[1] = "settle" -> Settle(tx[2], tx[3])
    [] tx[1] = "cancel" -> Cancel(tx[2])

(* A block takes a transaction from the pool: one that is no longer valid  *)
(* is dropped, one that fails leaves no trace.                             *)
Include(tx) ==
  /\ phase = "txs" /\ tx \in txPool
  /\ txPool' = txPool \ {tx}
  /\ IF validate_unsigned(tx) /\ ENABLED Dispatch(tx) THEN Dispatch(tx) ELSE UNCHANGED vars
  /\ UNCHANGED <<cdpCursor, auctionCursor>>

WorkersNext ==
  \/ Next /\ UNCHANGED workerVars
  \/ CdpWorker \/ AuctionWorker
  \/ \E tx \in txPool : Include(tx)

WorkersSpec == Init /\ WorkersInit /\ [][WorkersNext]_<<vars, workerVars>>

(* Blocks go on, the workers run again and again, and transactions of the  *)
(* pool, which stay there for many blocks, get into one.                   *)
FairSpec ==
  /\ WorkersSpec
  /\ WF_<<vars, workerVars>>(Hooks /\ UNCHANGED workerVars)
  /\ SF_<<vars, workerVars>>(CdpWorker) /\ SF_<<vars, workerVars>>(AuctionWorker)
  /\ SF_<<vars, workerVars>>(\E tx \in txPool : Include(tx))
-----------------------------------------------------------------------------
(* After shutdown the system gets to, and stays in, a state in which the   *)
(* redemption can be opened, provided the prices are there: the workers    *)
(* find every position with debit and every auction in the forward stage,  *)
(* and the other auctions end.                                             *)
SettlementCompletes ==
  isShutdown ~> [](\A c \in Collaterals : /\ totalCollateralInAuction[c] = 0
                                          /\ totalPositions[c].debit = 0)

(* An auction that has a bid is closed eventually, however it is outbid,   *)
(* by its end or by a worker's cancellation.                               *)
LedAuctionsClose ==
  \A i \in 0 .. MaxAuctionId :
    (i \in DOMAIN auctions /\ auctions[i].bidder # Nobody) ~> (i \notin DOMAIN auctions)
=============================================================================
