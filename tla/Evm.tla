-------------------------------- MODULE Evm --------------------------------
(***************************************************************************)
(* module_evm: contracts, who may run and replace them, and the storage    *)
(* deposit, a named reserve of the native currency that pays for what      *)
(* contracts store.  A transaction reserves its storage limit on the       *)
(* origin, runs as a stack of call frames, each with a storage meter and a *)
(* storage transaction of its own, and on exit moves what was used to the  *)
(* contracts and gives back the rest.                                      *)
(*                                                                         *)
(* A contract may do anything an EVM program can: write and clear its      *)
(* storage, call, delegate, create, destroy itself, call a precompile that *)
(* calls the EVM again, return or fail (running out of gas is a failure).  *)
(* An address stands for its account; one storage unit costs one unit of   *)
(* the currency and the existential deposit is one.  Contracts of the      *)
(* genesis state are left out.                                             *)
(***************************************************************************)
EXTENDS Integers, Sequences, SequencesExt, FiniteSets, FiniteSetsExt

CONSTANTS Users, Contracts,
          Source, Treasury,        \* NetworkContractSource, TreasuryAccount
          NetworkContracts,        \* addresses NetworkContractIndex runs through, in order
          Derived, Salted,         \* create_address: by caller and nonce, by caller and salt
          Slots, Codes, CodeSize, NewContractExtraBytes,
          DeploymentFee, DeveloperDeposit, SetCodeLimit, InvokeLimit,
          Funds,                   \* native currency at genesis
          Limits, Values,          \* storage limits and amounts tried
          MaxDepth, MaxNonce, MaxWrites,  \* bounds on frames, nonces, writes of a meter
          MaxCalls                        \* bound on the extrinsics

Addresses == Users \cup Contracts \cup {Source, Treasury}
Empty == "empty"          \* the code of no bytes
NoContract == [code |-> Empty, maintainer |-> "none", deployed |-> FALSE]
ContractInfo == [code : Codes, maintainer : Addresses, deployed : BOOLEAN]

ASSUME EvmAssumption ==
  /\ Users \cap Contracts = {} /\ {Source, Treasury} \cap (Users \cup Contracts) = {}
  /\ Empty \in Codes /\ CodeSize \in [Codes -> Nat] /\ CodeSize[Empty] = 0
  /\ NetworkContracts \in Seq(Contracts)
  /\ \A k, l \in DOMAIN Derived : Derived[k] = Derived[l] => k = l

VARIABLES world,   \* the storage of the chain, what a storage transaction restores
          frames,  \* the stack of running frames, the top one last
          calls    \* history: the extrinsics so far

vars == <<world, frames, calls>>

(* Accounts (a nonce of 0: no entry), CodeInfos, AccountStorages,          *)
(* ContractStorageSizes, NetworkContractIndex, and of the account: its     *)
(* free balance, its two named reserves and the providers contracts add.   *)
World == [free : [Addresses -> Nat], deposit : [Addresses -> Nat], dev : [Addresses -> Nat],
          nonce : [Addresses -> Nat], contract : [Addresses -> ContractInfo \cup {NoContract}],
          size : [Addresses -> Nat], slots : [Addresses -> SUBSET Slots],
          refs : [Codes -> Nat], providers : [Addresses -> Nat], index : Nat]

Roots == {"call", "create", "network", "set_code", "invoke", "view"}
Creations == {"create", "network", "set_code", "subcreate"}

(* A frame: its meter (limit, what it and its callees used and were        *)
(* refunded), and the storage a failed exit and an error restore.          *)
Frame == [kind : Roots \cup {"subcall", "subcreate"}, address : Addresses, origin : Addresses,
          static : BOOLEAN, runs : BOOLEAN, limit : Nat,
          tu : Nat, su : Nat, tr : Nat, sr : Nat, entry : World, abort : World]

Init ==
  /\ world = [free |-> [a \in Addresses |-> IF a \in Users \cup {Source} THEN Funds ELSE 0],
              deposit |-> [a \in Addresses |-> 0], dev |-> [a \in Addresses |-> 0],
              nonce |-> [a \in Addresses |-> 0], contract |-> [a \in Addresses |-> NoContract],
              size |-> [a \in Addresses |-> 0], slots |-> [a \in Addresses |-> {}],
              refs |-> [c \in Codes |-> 0], providers |-> [a \in Addresses |-> 0], index |-> 1]
  /\ frames = <<>> /\ calls = 0

Monus(a, b) == IF a > b THEN a - b ELSE 0
IsContract(w, a) == w.contract[a] # NoContract

(***************************************************************************)
(* Accounts and their balances.                                            *)
(***************************************************************************)
Total(w, a) == w.free[a] + w.deposit[a] + w.dev[a]
Alive(w, a) == Total(w, a) > 0 \/ w.providers[a] > 0

(* A reference to a code is given up; the code goes with the last one. *)
Deref(w, a) ==
  IF IsContract(w, a) THEN [w EXCEPT !.refs[w.contract[a].code] = Monus(@, 1)] ELSE w

(* CallKillAccount: an account that dies loses its entry of Accounts. *)
remove_account(w, a) ==
  [Deref(w, a) EXCEPT !.nonce[a] = 0, !.contract[a] = NoContract]

Reaped(old, new) ==
  LET dead == {a \in Addresses : Alive(old, a) /\ ~Alive(new, a)} IN
  FoldSet(LAMBDA a, w : remove_account(w, a), new, dead)

CanMove(w, from, to, n) == n = 0 \/ from = to \/ w.free[from] >= n
Move(w, from, to, n) ==
  IF from = to THEN w ELSE Reaped(w, [w EXCEPT !.free[from] = @ - n, !.free[to] = @ + n])

Reserve(w, a, n) == [w EXCEPT !.free[a] = @ - n, !.deposit[a] = @ + n]

(* mutant of Unreserve: the reserve is not asked what it holds *)
UnreserveFully(w, a, n) == Reserve(w, a, -n)

Unreserve(w, a, n) == Reserve(w, a, -Min({n, w.deposit[a]}))

inc_nonce(w, a) == [w EXCEPT !.nonce[a] = @ + 1]

(***************************************************************************)
(* Storage metering.  An outcome says whether the step went through and    *)
(* what the storage is after it; a reserve gives what it has.              *)
(***************************************************************************)
charge_storage(w, user, contract, used, refunded) ==
  IF used >= refunded
  THEN LET n == used - refunded
           freed == Unreserve(w, user, n)
       IN [ok |-> CanMove(freed, user, contract, n),
           world |-> Reserve(Move(freed, user, contract, n), contract, n)]
  ELSE LET n == Min({refunded - used, w.deposit[contract]})
           moved == [w EXCEPT !.deposit[contract] = @ - n, !.deposit[user] = @ + n]
       IN [ok |-> n = 0 \/ Total(w, user) > 0, world |-> Reaped(w, moved)]

available_storage(f) == Monus(f.limit + f.tr, f.tu)

(* mutant of charge: the frame's own use is not noted *)
ChargeTotalOnly(f, n) == [f EXCEPT !.tu = @ + n]

charge(f, n) == [f EXCEPT !.tu = @ + n, !.su = @ + n]
refund(f, n) == [f EXCEPT !.tr = @ + n, !.sr = @ + n]

(* What the frame's meter hands to unreserve_storage. *)
Unused(f) == Monus(Monus(Monus(f.limit + f.su + f.tr, f.tu), f.sr) + f.sr, f.su)

(* The meter's frame charges the contract through the meters of its        *)
(* callers, up to the transaction that holds the reserve; what they noted  *)
(* stays noted when the charge fails or a caller rolls back.               *)
finish(w, fs) ==
  LET f == Last(fs)
      callers == Front(fs)
      root == Max({i \in DOMAIN fs : fs[i].kind \in Roots})
      noted == [i \in DOMAIN callers |->
                  IF i < root THEN callers[i]
                  ELSE [callers[i] EXCEPT !.tu = @ + f.su, !.tr = @ + f.sr]]
      charged == charge_storage(w, f.origin, f.address, f.su, f.sr)
      isRoot == f.kind \in Roots
  IN IF f.limit < Monus(f.tu, f.tr)
     THEN [ok |-> FALSE, world |-> w, callers |-> callers]
     ELSE [ok |-> charged.ok,
           world |-> IF isRoot THEN Unreserve(charged.world, f.origin, Unused(f))
                               ELSE charged.world,
           callers |-> noted]

(***************************************************************************)
(* Contracts.                                                              *)
(***************************************************************************)
Runs(w, a) == IsContract(w, a) /\ w.contract[a].code # Empty /\ w.refs[w.contract[a].code] > 0

is_developer_or_contract(w, a) == IsContract(w, a) \/ (w.nonce[a] > 0 /\ w.dev[a] > 0)

can_call_contract(w, target, caller) ==
  IsContract(w, target) =>
    \/ w.contract[target].deployed
    \/ w.contract[target].maintainer = caller
    \/ is_developer_or_contract(w, caller)

Footprint(code) == CodeSize[code] + NewContractExtraBytes

(* mutant of on_contract_initialization: no provider for the contract *)
InitializedUnprovided(w, a, maintainer, code) ==
  [w EXCEPT !.size[a] = @ + Footprint(code), !.refs[code] = @ + 1,
            !.contract[a] = [code |-> code, maintainer |-> maintainer, deployed |-> FALSE]]

on_contract_initialization(w, a, maintainer, code) ==
  [w EXCEPT !.size[a] = @ + Footprint(code), !.refs[code] = @ + 1, !.providers[a] = @ + 1,
            !.contract[a] = [code |-> code, maintainer |-> maintainer, deployed |-> FALSE]]

(* Everything the contract owns goes to dest; what it stored goes away. *)
remove_contract(w, a, dest) ==
  LET emptied == Move([w EXCEPT !.contract[a] = NoContract], a, dest, w.free[a])
      freed == [emptied EXCEPT !.refs[w.contract[a].code] = Monus(@, 1),
                               !.slots[a] = {}, !.size[a] = 0, !.providers[a] = @ - 1]
  IN Reaped(emptied, freed)

(***************************************************************************)
(* Frames.                                                                 *)
(***************************************************************************)
Top == Last(frames)
NewFrame(kind, address, origin, static, runs, limit, entry, abort) ==
  [kind |-> kind, address |-> address, origin |-> origin, static |-> static, runs |-> runs,
   limit |-> limit, tu |-> 0, su |-> 0, tr |-> 0, sr |-> 0, entry |-> entry, abort |-> abort]

(* run_transaction, for Runner::call and inner_create: the nonce goes up   *)
(* outside the storage transaction; the limit is reserved and the value    *)
(* sent inside it.                                                         *)
run_transaction(kind, sender, origin, target, value, limit) ==
  LET entered == inc_nonce(world, sender)
      held == Reserve(entered, origin, limit)
      entry == CASE kind \in {"invoke", "view"} -> world
                 [] kind = "network" -> [entered EXCEPT !.index = @ + 1]
                 [] OTHER -> entered
      abort == IF kind \in {"invoke", "view", "set_code"} THEN world ELSE entered
      runs == kind \in Creations \/ Runs(world, target)
  IN /\ world.nonce[sender] < MaxNonce
     /\ IF world.free[origin] >= limit /\ CanMove(held, sender, target, value)
        THEN /\ world' = Move(held, sender, target, value)
             /\ frames' = Append(frames, NewFrame(kind, target, origin, FALSE, runs, limit,
                                                  entry, abort))
        ELSE world' = abort /\ UNCHANGED frames

(* run_sub_transaction: the callee may use what its caller has left. *)
run_sub_transaction(kind, address, static, runs, entry, w) ==
  /\ Len(frames) < MaxDepth
  /\ world' = w
  /\ frames' = Append(frames, NewFrame(kind, address, Top.origin, Top.static \/ static, runs,
                                       available_storage(Top), entry, entry))

(* What a committed frame leaves behind.  execute in View mode rolls back; *)
(* set_code writes the entry of Accounts it had read over the new one.     *)
Committed(f, w) ==
  CASE f.kind = "view" -> f.abort
    [] f.kind = "network" -> [w EXCEPT !.index = @ + 1]
    [] f.kind = "set_code" -> [w EXCEPT !.nonce[f.address] = f.abort.nonce[f.address],
                                        !.contract[f.address] = f.abort.contract[f.address]]
    [] OTHER -> w

Succeed(w, f) ==
  LET done == finish(w, Append(Front(frames), f)) IN
  /\ world' = IF done.ok THEN Committed(f, done.world) ELSE f.abort
  /\ frames' = done.callers

(* A constructor's output becomes the code of the new contract. *)
Deployed(w, f, code) ==
  on_contract_initialization(inc_nonce(w, f.address), f.address, f.origin, code)

Return ==
  /\ frames # <<>> /\ UNCHANGED calls
  /\ IF Top.kind \in Creations
     THEN \E code \in Codes : Succeed(Deployed(world, Top, code), charge(Top, Footprint(code)))
     ELSE Succeed(world, Top)

Running == frames # <<>> /\ Top.runs /\ UNCHANGED calls
WithinBound == \A i \in DOMAIN frames : frames[i].tu + frames[i].tr < MaxWrites

(* Revert, an error, out of gas: the frame's storage transaction rolls back. *)
Fail ==
  /\ Running
  /\ world' = Top.entry /\ frames' = Front(frames)

SetStorage ==
  /\ Running /\ ~Top.static /\ WithinBound
  /\ \E s \in Slots :
       LET a == Top.address
           removed == s \in world.slots[a]
       IN /\ world' = IF removed
                      THEN [world EXCEPT !.slots[a] = @ \ {s}, !.size[a] = Monus(@, 1)]
                      ELSE [world EXCEPT !.slots[a] = @ \cup {s}, !.size[a] = @ + 1]
          /\ frames' = Append(Front(frames), IF removed THEN refund(Top, 1) ELSE charge(Top, 1))

(* SUICIDE: the frame ends with success; a constructor leaves no code. *)
MarkDelete ==
  /\ Running /\ ~Top.static /\ WithinBound /\ IsContract(world, Top.address)
  /\ \E dest \in Users \cup {Top.address} :
       LET w == remove_contract(world, Top.address, dest)
           f == refund(Top, world.size[Top.address])
       IN IF f.kind \in Creations
          THEN Succeed(Deployed(w, f, Empty), charge(f, Footprint(Empty)))
          ELSE Succeed(w, f)

SubCall(target, value) ==
  /\ Running /\ ~Top.static /\ CanMove(world, Top.address, target, value)
  /\ run_sub_transaction("subcall", target, FALSE, Runs(world, target), world,
                         Move(world, Top.address, target, value))

StaticCall(target) ==
  /\ Running /\ Runs(world, target)
  /\ run_sub_transaction("subcall", target, TRUE, TRUE, world, world)

(* Another contract's code, on this contract's storage. *)
DelegateCall(target) ==
  /\ Running /\ Runs(world, target)
  /\ run_sub_transaction("subcall", Top.address, FALSE, TRUE, world, world)

create_address(w, caller) ==
  {Derived[k] : k \in {<<caller, w.nonce[caller]>>} \cap DOMAIN Derived}
    \cup {Salted[k] : k \in {caller} \cap DOMAIN Salted}

SubCreate ==
  /\ Running /\ ~Top.static /\ WithinBound /\ world.nonce[Top.address] < MaxNonce
  /\ \E a \in create_address(world, Top.address), value \in Values :
       LET w == inc_nonce(world, Top.address) IN
       /\ CanMove(w, Top.address, a, value)
       /\ run_sub_transaction("subcreate", a, FALSE, TRUE, w, Move(w, Top.address, a, value))

(* A precompile that runs a contract for its caller (ERC20 tokens); where  *)
(* no code runs, EVMBridge rejects the empty output.                       *)
Invoke(kind, target) ==
  /\ Running /\ Len(frames) < MaxDepth /\ Runs(world, target)
  /\ can_call_contract(world, target, Top.address)
  /\ run_transaction(kind, Top.address, Top.origin, target, 0,
                     IF kind = "view" THEN 0 ELSE InvokeLimit)

(***************************************************************************)
(* Calls of the pallet.                                                    *)
(***************************************************************************)
(* A new extrinsic starts when no frame is left. *)
Submit == frames = <<>> /\ calls < MaxCalls /\ calls' = calls + 1

Call(who, target, value, limit) ==
  /\ Submit /\ can_call_contract(world, target, who)
  /\ run_transaction("call", who, who, target, value, limit)

Create(who, value, limit) ==
  /\ Submit
  /\ \E a \in create_address(world, who) : run_transaction("create", who, who, a, value, limit)

CreateNetworkContract(limit) ==
  /\ Submit /\ world.index \in DOMAIN NetworkContracts
  /\ run_transaction("network", Source, Source, NetworkContracts[world.index], 0, limit)

TransferMaintainer(who, contract, new) ==
  /\ Submit /\ IsContract(world, contract) /\ world.contract[contract].maintainer = who
  /\ world' = [world EXCEPT !.contract[contract].maintainer = new]
  /\ UNCHANGED frames

mark_deployed(w, contract) ==
  /\ IsContract(w, contract) /\ ~w.contract[contract].deployed
  /\ world' = [w EXCEPT !.contract[contract].deployed = TRUE]

Deploy(who, contract) ==
  /\ Submit /\ CanMove(world, who, Treasury, DeploymentFee)
  /\ world.contract[contract].maintainer = who
  /\ mark_deployed(Move(world, who, Treasury, DeploymentFee), contract)
  /\ UNCHANGED frames

DeployFree(contract) ==
  /\ Submit /\ mark_deployed(world, contract) /\ UNCHANGED frames

EnableContractDevelopment(who) ==
  /\ Submit /\ world.dev[who] = 0 /\ world.free[who] >= DeveloperDeposit
  /\ world' = [world EXCEPT !.free[who] = @ - DeveloperDeposit, !.dev[who] = DeveloperDeposit]
  /\ UNCHANGED frames

DisableContractDevelopment(who) ==
  /\ Submit /\ world.dev[who] > 0
  /\ world' = [world EXCEPT !.free[who] = @ + world.dev[who], !.dev[who] = 0]
  /\ UNCHANGED frames

(* The maintainer of a contract under development, or root, runs new code  *)
(* as a constructor at the contract's address.                             *)
SetCode(contract) ==
  /\ Submit /\ IsContract(world, contract)
  /\ \E source \in Users \cup {Source} :
       /\ source \in Users => /\ world.contract[contract].maintainer = source
                              /\ ~world.contract[contract].deployed
       /\ run_transaction("set_code", source, source, contract, 0, SetCodeLimit)

Selfdestruct(who, contract) ==
  /\ Submit /\ IsContract(world, contract)
  /\ world.contract[contract].maintainer = who /\ ~world.contract[contract].deployed
  /\ LET w == remove_contract(world, contract, who)
         n == Min({world.size[contract], w.deposit[contract]})
     IN /\ n > 0 => Total(w, who) > 0
        /\ world' = Reaped(w, [w EXCEPT !.deposit[contract] = @ - n, !.free[who] = @ + n])
  /\ UNCHANGED frames

(* pallet_balances: a user empties their account into another. *)
SendAll(from, to) ==
  /\ Submit /\ world.free[from] > 0
  /\ world' = Move(world, from, to, world.free[from])
  /\ UNCHANGED frames

Next ==
  \/ Return \/ Fail \/ SetStorage \/ MarkDelete \/ SubCreate
  \/ \E target \in Contracts : StaticCall(target) \/ DelegateCall(target)
  \/ \E target \in Contracts \cup Users, value \in Values : SubCall(target, value)
  \/ \E target \in Contracts, kind \in {"invoke", "view"} : Invoke(kind, target)
  \/ \E who \in Users, target \in Contracts, value \in Values, limit \in Limits :
       Call(who, target, value, limit)
  \/ \E who \in Users, value \in Values, limit \in Limits : Create(who, value, limit)
  \/ \E limit \in Limits : CreateNetworkContract(limit)
  \/ \E who \in Users, new \in Users \cup {Treasury}, c \in Contracts :
       TransferMaintainer(who, c, new)
  \/ \E who \in Users, c \in Contracts : Deploy(who, c) \/ Selfdestruct(who, c)
  \/ \E c \in Contracts : DeployFree(c) \/ SetCode(c)
  \/ \E who \in Users : EnableContractDevelopment(who) \/ DisableContractDevelopment(who)
  \/ \E from \in Users, to \in Users \cup {Treasury} : SendAll(from, to)

Spec == Init /\ [][Next]_vars
----------------------------------------------------------------------------
(* The storage and the meters have their types.  Numbers are checked here  *)
(* by their signs: no balance, size or count ever goes below zero.         *)
TypeOK ==
  /\ world \in World
  /\ frames \in Seq(Frame) /\ Len(frames) <= MaxDepth /\ calls \in 0 .. MaxCalls

(* What a contract stores is paid for: the reserve of its account, with    *)
(* what the frames running on it have still to settle, covers the recorded *)
(* size, which covers its slots and its record.  Kept by set_storage, by   *)
(* creation and removal, by the meters of nested calls and by every roll   *)
(* back.  It is not an equality: a contract destroyed under a frame of its *)
(* own is refunded more than is there yet.                                 *)
StoragePaid ==
  \A c \in Contracts :
    LET unsettled == FoldSeq(LAMBDA f, n : n + (IF f.address = c THEN f.su - f.sr ELSE 0), 0, frames)
        record == IF IsContract(world, c) THEN NewContractExtraBytes ELSE 0
    IN /\ world.deposit[c] + unsettled >= world.size[c]
       /\ world.size[c] >= Cardinality(world.slots[c]) + record

(* Every contract holds a provider reference of its account, so the        *)
(* account cannot die under it (remove_account: "contract_info should      *)
(* maintain a provider so this should never happen").                      *)
ContractsProvided ==
  \A c \in Contracts : IsContract(world, c) => world.providers[c] > 0
============================================================================
