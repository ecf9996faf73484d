------------------------------ MODULE GasBank ------------------------------
(***************************************************************************)
(* The gas tree together with the gas accounts of GearBank: pallet-gear    *)
(* deposits the price of the gas when it creates a node, and pays it out   *)
(* again when gas is spent or a consumed node gives its rest back.  The    *)
(* multiplier is kept in the tree beside the account, and may be another   *)
(* one when the gas comes back: here an origin is an account and a price.  *)
(***************************************************************************)
EXTENDS GasTree

CONSTANTS Accounts,
          Prices       \* bound: values of GasMultiplier

ASSUME OriginsAssumption == Origins = Accounts \X Prices /\ Prices \subseteq Nat

VARIABLES price,       \* GasMultiplier of the runtime
          deposited    \* BankAccount::gas by account

bankVars == <<tree, total, price, deposited>>

BankInit == Init /\ price \in Prices /\ deposited = [a \in Accounts |-> 0]

\* deposit_gas and create
DepositAndCreate(a, k, amount) ==
    /\ Create(<<a, price>>, k, amount)
    /\ deposited' = [deposited EXCEPT ![a] = @ + amount * price]
    /\ UNCHANGED price

SpendGas(k, amount) ==
    /\ amount # 0 /\ Spend(k, amount)
    /\ LET origin == OriginOf(tree, k)
       IN  deposited' = [deposited EXCEPT ![origin[1]] = @ - amount * origin[2]]
    /\ UNCHANGED price

\* Mutant: gas is given back at the price of the day.
ConsumeAtPrice(k) ==
    /\ Consume(k)
    /\ LET origin == OriginOf(tree, k)
       IN  deposited' = [deposited EXCEPT ![origin[1]] = @ - (total - total') * price]
    /\ UNCHANGED price

\* What consume takes out of the total is withdrawn for the origin.
ConsumeAndRetrieve(k) ==
    /\ Consume(k)
    /\ LET origin == OriginOf(tree, k)
       IN  deposited' = [deposited EXCEPT ![origin[1]] = @ - (total - total') * origin[2]]
    /\ UNCHANGED price

WithinTree ==
    /\ \/ \E k, new \in NodeIds, amount \in 0..MaxBalance :
             \/ SplitWithValue(k, new, amount)
             \/ Cut(k, new, amount)
             \/ CreateDeposit(k, new, amount)
             \/ Reserve(k, new, amount)
             \/ Split(k, new)
       \/ \E k \in NodeIds, id \in LockIds, amount \in 0..MaxBalance :
             \/ Lock(k, id, amount)
             \/ Unlock(k, id, amount)
             \/ SystemReserve(k, amount)
             \/ SystemUnreserve(k)
    /\ UNCHANGED <<price, deposited>>

\* A runtime upgrade changes the multiplier.
SetMultiplier(p) == price' = p /\ UNCHANGED <<tree, total, deposited>>

BankNext ==
    \/ \E a \in Accounts, k \in NodeIds, amount \in 0..MaxBalance : DepositAndCreate(a, k, amount)
    \/ \E k \in NodeIds, amount \in 0..MaxBalance : SpendGas(k, amount)
    \/ \E k \in NodeIds : ConsumeAndRetrieve(k)
    \/ WithinTree
    \/ \E p \in Prices : SetMultiplier(p)

BankSpec == BankInit /\ [][BankNext]_bankVars

-----------------------------------------------------------------------------
ValueOf(k) == GasOf(tree)[k] * OriginOf(tree, k)[2]

\* The bank holds for every account exactly what the gas of its nodes was bought for,
\* so that spend_gas and withdraw_gas always find it; gas never moves between accounts.
DepositsMatchGas ==
    \A a \in Accounts :
        deposited[a] = Sum([k \in {x \in DOMAIN tree : OriginOf(tree, x)[1] = a} |-> ValueOf(k)])
=============================================================================
