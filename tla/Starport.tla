------------------------------- MODULE Starport -------------------------------
(***************************************************************************)
(* ecosystem_starport and ecosystem_compound_cash: assets are uploaded to  *)
(* the Compound chain within a supply cap and return by notices, which the *)
(* gateway's authorities sign and anybody submits once.  Verification      *)
(* compares the listed signatories with the authorities.                   *)
(***************************************************************************)
EXTENDS Integers, FiniteSets, FiniteSetsExt, SequencesExt

CONSTANTS Users, Assets, Authorities,
          Cash,                 \* the asset that is burnt and minted
          Notices,              \* records [id, kind, ...] that the gateway issues
          SignatureThreshold,   \* percent of the authorities
          MaxGatewayAuthorities, Amounts

VARIABLES holdings,             \* by asset and account
          supplyCaps, invokedNotices, gatewayAuthorities,
          futureYield,          \* by index, ecosystem_compound_cash
          uploaded              \* history: what do_lock_to took, by asset

starportVars == <<holdings, supplyCaps, invokedNotices, gatewayAuthorities, futureYield, uploaded>>

Admin == "starport"

Init(funds, indices) ==
  /\ holdings = funds /\ supplyCaps = [c \in Assets |-> 0]
  /\ invokedNotices = {} /\ gatewayAuthorities = SetToSeq(Authorities)
  /\ futureYield = [i \in indices |-> [yield |-> 0, start |-> 0]]
  /\ uploaded = [c \in Assets |-> 0]

do_lock_to(from, c, n) ==
  /\ holdings[c][from] >= n /\ supplyCaps[c] >= n
  /\ holdings' = [holdings EXCEPT ![c] = IF c = Cash THEN [@ EXCEPT ![from] = @ - n]
                                         ELSE [@ EXCEPT ![from] = @ - n, ![Admin] = @ + n]]
  /\ supplyCaps' = [supplyCaps EXCEPT ![c] = @ - n]
  /\ uploaded' = [uploaded EXCEPT ![c] = @ + n]
  /\ UNCHANGED <<invokedNotices, gatewayAuthorities, futureYield>>

(* A repeated entry of the authorities counts as often as it is listed. *)
verify_compound_authority_signature(signatures) ==
  LET count == Cardinality({i \in DOMAIN gatewayAuthorities : gatewayAuthorities[i] \in signatures}) IN
  100 * count >= SignatureThreshold * Len(gatewayAuthorities)

SetSupplyCap(notice) ==
  /\ notice.kind = "SetSupplyCap"
  /\ supplyCaps' = [supplyCaps EXCEPT ![notice.asset] = notice.amount]
  /\ UNCHANGED <<holdings, gatewayAuthorities, futureYield>>

ChangeAuthorities(notice) ==
  /\ notice.kind = "ChangeAuthorities"
  /\ Len(notice.authorities) \in 1 .. MaxGatewayAuthorities
  /\ gatewayAuthorities' = notice.authorities
  /\ UNCHANGED <<holdings, supplyCaps, futureYield>>

do_unlock(notice) ==
  /\ notice.kind = "Unlock"
  /\ notice.asset # Cash => holdings[notice.asset][Admin] >= notice.amount
  /\ holdings' = [holdings EXCEPT ![notice.asset] =
                    IF notice.asset = Cash THEN [@ EXCEPT ![notice.who] = @ + notice.amount]
                    ELSE [@ EXCEPT ![notice.who] = @ + notice.amount, ![Admin] = @ - notice.amount]]
  /\ UNCHANGED <<supplyCaps, gatewayAuthorities, futureYield>>

(* CurrentYield is never written, its start is 0. *)
set_future_yield(notice) ==
  /\ notice.kind = "SetFutureYield"
  /\ notice.start >= 0
  /\ futureYield' = [futureYield EXCEPT ![notice.index] = [yield |-> notice.yield, start |-> notice.start]]
  /\ UNCHANGED <<holdings, supplyCaps, gatewayAuthorities>>

(* mutant of invoke: the stored hashes are not consulted *)
InvokeAgain(notice, signatures) ==
  /\ verify_compound_authority_signature(signatures)
  /\ SetSupplyCap(notice) \/ ChangeAuthorities(notice) \/ do_unlock(notice) \/ set_future_yield(notice)
  /\ invokedNotices' = invokedNotices \cup {notice}
  /\ UNCHANGED uploaded

invoke(notice, signatures) ==
  /\ notice \notin invokedNotices
  /\ verify_compound_authority_signature(signatures)
  /\ SetSupplyCap(notice) \/ ChangeAuthorities(notice) \/ do_unlock(notice) \/ set_future_yield(notice)
  /\ invokedNotices' = invokedNotices \cup {notice}
  /\ UNCHANGED uploaded

Next ==
  \/ \E from \in Users, c \in Assets, n \in Amounts : do_lock_to(from, c, n)
  \/ \E notice \in Notices, signatures \in SUBSET Authorities : invoke(notice, signatures)
-----------------------------------------------------------------------------
(* What is in circulation or custody is what there was at first, less the  *)
(* uploads that burnt CASH and plus each unlocking notice once; and the    *)
(* custody of the other assets is what was uploaded and not unlocked.      *)
UploadsBacked(funds) ==
  \A c \in Assets :
    LET unlocked == FoldSet(LAMBDA notice, n : n + notice.amount, 0,
                            {notice \in invokedNotices : notice.kind = "Unlock" /\ notice.asset = c})
        total(h) == FoldSet(LAMBDA u, n : n + h[c][u], 0, Users)
    IN /\ total(holdings) = total(funds) - uploaded[c] + unlocked
       /\ c # Cash => holdings[c][Admin] = funds[c][Admin] + uploaded[c] - unlocked

(* However the authorities change, all of them together can still sign.    *)
GatewayUsable == verify_compound_authority_signature(Authorities)
=============================================================================
