-------------------------- MODULE CollatorSelection --------------------------
(***************************************************************************)
(* module_collator_selection: who collates in the next session, the bonds  *)
(* of the candidates, and the pot that pays the author of a block.  The    *)
(* session pallet calls end_session, start_session and new_session when a  *)
(* session ends; the set assembled in one session serves the one after     *)
(* next.                                                                   *)
(***************************************************************************)
EXTENDS NativeBalances, Sequences

CONSTANTS MinCandidates, MaxCandidates, MaxInvulnerables,
          KickNumerator, KickDenominator,      \* CollatorKickThreshold
          Registered,                          \* accounts with session keys
          InvulnerableSets, Bonds              \* choices of governance

ASSUME CollatorAssumption ==
  /\ MinCandidates \in Nat /\ MaxCandidates \in Nat /\ Bonds \subseteq Nat
  /\ KickDenominator \in Nat \ {0} /\ KickNumerator \in 0 .. KickDenominator

VARIABLES candidates, invulnerables, desiredCandidates, candidacyBond,
          points,                \* SessionPoints, a function on the accounts that have some
          validators, queued     \* session pallet: the present set, the next one

collatorVars == <<candidates, invulnerables, desiredCandidates, candidacyBond, points,
                  validators, queued>>

(* GenesisConfig; the first two sets are the invulnerables *)
CollatorInit ==
  /\ candidates = {} /\ points = <<>>
  /\ invulnerables \in InvulnerableSets /\ candidacyBond \in Bonds
  /\ desiredCandidates = MaxCandidates
  /\ validators = invulnerables /\ queued = invulnerables

set_invulnerables(new) ==
  /\ Cardinality(new) <= MaxInvulnerables
  /\ invulnerables' = new
  /\ UNCHANGED <<native, candidates, desiredCandidates, candidacyBond, points, validators, queued>>

set_desired_candidates(max) ==
  /\ max <= MaxCandidates
  /\ desiredCandidates' = max
  /\ UNCHANGED <<native, candidates, invulnerables, candidacyBond, points, validators, queued>>

set_candidacy_bond(bond) ==
  /\ candidacyBond' = bond
  /\ UNCHANGED <<native, candidates, invulnerables, desiredCandidates, points, validators, queued>>

(* ensure_reserved_named: the reserve becomes the deposit *)
do_register_candidate(who, deposit) ==
  /\ Cardinality(candidates) < desiredCandidates
  /\ who \notin invulnerables /\ who \in Registered /\ who \notin candidates
  /\ native.free[who] + native.bond[who] >= deposit
  /\ candidates' = candidates \cup {who}
  /\ native' = [native EXCEPT !.free[who] = @ + native.bond[who] - deposit, !.bond[who] = deposit]
  /\ UNCHANGED <<invulnerables, desiredCandidates, candidacyBond, points, validators, queued>>

register_as_candidate(who) == do_register_candidate(who, candidacyBond)
register_candidate(who) == do_register_candidate(who, 0)

CanRemove(set, who) == Cardinality(set) > MinCandidates /\ who \in set
UnreserveBond(b, who) == [b EXCEPT !.free[who] = @ + b.bond[who], !.bond[who] = 0]

leave_intent(who) ==
  /\ CanRemove(candidates, who)
  /\ candidates' = candidates \ {who}
  /\ native' = UnreserveBond(native, who)
  /\ UNCHANGED <<invulnerables, desiredCandidates, candidacyBond, points, validators, queued>>

(* Half of the pot above the existential deposit goes to the author. *)
Reward == (IF native.free[Pot] > ExistentialDeposit THEN native.free[Pot] - ExistentialDeposit ELSE 0) \div 2

note_author(author) ==
  /\ author \in validators
  /\ native' = IF CanTransfer(native, Pot, author, Reward, TRUE)
               THEN Transfer(native, Pot, author, Reward) ELSE native
  /\ points' = IF author \in DOMAIN points THEN [points EXCEPT ![author] = @ + 1] ELSE points
  /\ UNCHANGED <<candidates, invulnerables, desiredCandidates, candidacyBond, validators, queued>>

(* end_session: accounts at or below the threshold go, in the order of the *)
(* storage's hashes, as long as the minimum allows.                        *)
RequiredPoint ==
  LET total == FoldSet(LAMBDA a, n : n + points[a], 0, DOMAIN points)
      average == IF points = <<>> THEN 0 ELSE total \div Cardinality(DOMAIN points)
  IN (average * KickNumerator) \div KickDenominator

Kicked == {a \in DOMAIN points : points[a] <= RequiredPoint} \cap candidates

(* Mutant: a kicked candidate keeps its bond reserved. *)
RotateKeepsBonds ==
  \E gone \in SUBSET Kicked :
    /\ Cardinality(gone) =
         Min({Cardinality(Kicked), Max({0, Cardinality(candidates) - MinCandidates})})
    /\ candidates' = candidates \ gone
    /\ validators' = queued
    /\ points' = [a \in candidates' \cap queued |-> 0]
    /\ queued' = invulnerables \cup candidates'
    /\ UNCHANGED <<native, invulnerables, desiredCandidates, candidacyBond>>

(* The session rotates: the old one is judged, the queued set takes over   *)
(* and its candidates start from zero, the next set is assembled.          *)
RotateSession ==
  \E gone \in SUBSET Kicked :
    /\ Cardinality(gone) =
         Min({Cardinality(Kicked), Max({0, Cardinality(candidates) - MinCandidates})})
    /\ candidates' = candidates \ gone
    /\ native' = FoldSet(LAMBDA a, b : UnreserveBond(b, a), native, gone)
    /\ validators' = queued
    /\ points' = [a \in candidates' \cap queued |-> 0]
    /\ queued' = invulnerables \cup candidates'
    /\ UNCHANGED <<invulnerables, desiredCandidates, candidacyBond>>
==============================================================================
