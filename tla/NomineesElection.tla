-------------------------- MODULE NomineesElection ---------------------------
(***************************************************************************)
(* module_nominees_election: holders of the liquid currency bond it,       *)
(* nominate validators with the active part of their bond, and the         *)
(* validators with most votes are the nominees of the next era.            *)
(***************************************************************************)
EXTENDS FixedU128, FiniteSets, FiniteSetsExt, SequencesExt

CONSTANTS Users, Nominees,
          NomineeFilter,         \* nominees that pass Config::NomineeFilter
          MinBondThreshold, ElectionDuration, NominateesCount, MaxUnlockingChunks,
          Amounts, MaxEra        \* inputs tried, bound on the eras

VARIABLES ledger, nominations, votes, nominees, currentEra

electionVars == <<ledger, nominations, votes, nominees, currentEra>>

EmptyLedger == [total |-> 0, active |-> 0, unlocking |-> <<>>]

Init ==
  /\ ledger = [u \in Users |-> EmptyLedger] /\ nominations = [u \in Users |-> {}]
  /\ votes = [v \in Nominees |-> 0] /\ nominees = {} /\ currentEra = 0

Unlocking(l) == FoldSeq(LAMBDA chunk, n : n + chunk.value, 0, l.unlocking)

consolidate_unlocked(l) ==
  LET kept == [l EXCEPT !.unlocking = SelectSeq(@, LAMBDA chunk : chunk.era > currentEra)] IN
  [kept EXCEPT !.total = Monus(@, Unlocking(l) - Unlocking(kept))]

(* Chunks return from the youngest on, the last one possibly in part. *)
RebondLedger(l, value) ==
  LET after(i) == FoldSeq(LAMBDA chunk, n : n + chunk.value, 0, SubSeq(l.unlocking, i + 1, Len(l.unlocking)))
      left(i) == Monus(l.unlocking[i].value, Monus(value, after(i)))
      rest == [i \in DOMAIN l.unlocking |-> [l.unlocking[i] EXCEPT !.value = left(i)]]
  IN [l EXCEPT !.active = @ + Least(value, Unlocking(l)),
               !.unlocking = SelectSeq(rest, LAMBDA chunk : chunk.value > 0)]

(* mutant of update_votes: the old nominations lose the new active amount *)
UpdateVotesStale(old_active, old, new_active, new) ==
  [v \in Nominees |-> Monus(votes[v], IF v \in old THEN new_active ELSE 0)
                      + IF v \in new THEN new_active ELSE 0]

update_votes(old_active, old, new_active, new) ==
  [v \in Nominees |-> Monus(votes[v], IF v \in old THEN old_active ELSE 0)
                      + IF v \in new THEN new_active ELSE 0]

(* update_votes and update_ledger of a call that leaves the nominations *)
SetLedger(who, l) ==
  /\ votes' = update_votes(ledger[who].active, nominations[who], l.active, nominations[who])
  /\ ledger' = [ledger EXCEPT ![who] = l]
  /\ UNCHANGED <<nominations, nominees, currentEra>>

bond(who, amount, free) ==
  LET extra == Least(free - ledger[who].total, amount) IN
  /\ free >= ledger[who].total
  /\ ledger[who].active + extra >= MinBondThreshold
  /\ SetLedger(who, [ledger[who] EXCEPT !.active = @ + extra, !.total = @ + extra])

unbond(who, amount) ==
  LET n == Least(amount, ledger[who].active) IN
  /\ n > 0
  /\ ledger[who].active = n \/ ledger[who].active - n >= MinBondThreshold
  /\ Len(ledger[who].unlocking) < MaxUnlockingChunks
  /\ SetLedger(who, [ledger[who] EXCEPT !.active = @ - n,
                       !.unlocking = Append(@, [value |-> n, era |-> currentEra + ElectionDuration])])

rebond(who, amount) ==
  /\ ledger[who].unlocking # <<>>
  /\ SetLedger(who, RebondLedger(ledger[who], amount))

withdraw_unbonded(who) ==
  LET l == consolidate_unlocked(ledger[who])
      gone == l.unlocking = <<>> /\ l.active = 0
  IN /\ ledger' = [ledger EXCEPT ![who] = IF gone THEN EmptyLedger ELSE l]
     /\ nominations' = [nominations EXCEPT ![who] = IF gone THEN {} ELSE @]
     /\ UNCHANGED <<votes, nominees, currentEra>>

nominate(who, targets) ==
  /\ targets # {} /\ Cardinality(targets) <= NominateesCount
  /\ ledger[who].total # 0 /\ targets \subseteq NomineeFilter
  /\ votes' = update_votes(ledger[who].active, nominations[who], ledger[who].active, targets)
  /\ nominations' = [nominations EXCEPT ![who] = targets]
  /\ UNCHANGED <<ledger, nominees, currentEra>>

chill(who) ==
  /\ votes' = update_votes(ledger[who].active, nominations[who], 0, {})
  /\ nominations' = [nominations EXCEPT ![who] = {}]
  /\ UNCHANGED <<ledger, nominees, currentEra>>

(* A tie is broken by the order of the map's hashes: any way. *)
on_new_era ==
  /\ currentEra < MaxEra /\ currentEra' = currentEra + 1
  /\ \E elected \in kSubset(Least(NominateesCount, Cardinality(Nominees)), Nominees) :
       /\ \A v \in elected, w \in Nominees \ elected : votes[v] >= votes[w]
       /\ nominees' = elected
  /\ UNCHANGED <<ledger, nominations, votes>>

Next(free) ==
  \/ on_new_era
  \/ \E who \in Users : withdraw_unbonded(who) \/ chill(who)
  \/ \E who \in Users, n \in Amounts : bond(who, n, free[who]) \/ unbond(who, n) \/ rebond(who, n)
  \/ \E who \in Users, targets \in SUBSET Nominees : nominate(who, targets)
-----------------------------------------------------------------------------
(* A validator's votes are the active bonds of those who nominate it,      *)
(* whatever was bonded, rebonded and nominated in between, and a ledger's  *)
(* total is its active part and the chunks that unlock.                    *)
VotesAgree ==
  /\ \A v \in Nominees :
       votes[v] = FoldSet(LAMBDA u, n : n + ledger[u].active, 0, {u \in Users : v \in nominations[u]})
  /\ \A u \in Users : ledger[u].total = ledger[u].active + Unlocking(ledger[u])
=============================================================================
