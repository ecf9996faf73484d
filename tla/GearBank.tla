------------------------------ MODULE GearBank ------------------------------
(***************************************************************************)
(* pallet-gear-bank: the account that holds the tokens users prepaid for   *)
(* gas and attached to messages, and the books it keeps on them.           *)
(*                                                                         *)
(* Tokens live in pallet_balances, which is outside the repository; it is  *)
(* modelled from its use here: free balances, reaping below the existential *)
(* deposit ED, and KeepAlive transfers. Every unreachable! and log::error  *)
(* of the pallet, and every error its docs call unreachable, sets fault.   *)
(* An error return leaves the storage as it was and is no step.            *)
(***************************************************************************)
EXTENDS Tally

CONSTANTS Accounts, \* the accounts that are not the bank
          Treasury,
          ED,         \* the existential deposit
          Multiplier, \* GasMultiplier::ValuePerGas
          Issuance,   \* what the accounts start with, at most
          MaxAmount   \* bound on the amounts moved in one call

ASSUME AccountsAssumption == IsFiniteSet(Accounts) /\ Treasury \in Accounts
ASSUME AmountsAssumption ==
    /\ ED \in Nat \ {0} /\ Multiplier \in Nat \ {0}
    /\ Issuance \in Nat /\ MaxAmount \in Nat

VARIABLES free,      \* free balance of each account
          bankFree,  \* free balance of the bank's own account
          gas,       \* Bank[a].gas; an absent entry is one of zeros
          value,     \* Bank[a].value
          unused,    \* UnusedValue
          pending,   \* OnFinalizeTransfers; an absent entry is zero
          pendingTotal, \* OnFinalizeValue
          bankPhase, \* "block", or "finalize" inside on_finalize
          expected, drained, \* locals of on_finalize
          fault      \* something called unreachable happened

balances == <<free, bankFree, unused>>
books == <<gas, value>>
scheduled == <<pending, pendingTotal>>
hook == <<bankPhase, expected, drained>>
bankVars == <<balances, books, scheduled, hook, fault>>

Payments == 1..MaxAmount

Plus(f, a, v) == [f EXCEPT ![a] = @ + v]
Minus(f, a, v) == [f EXCEPT ![a] = @ - v]

-----------------------------------------------------------------------------
\* pallet_balances

\* A transfer of v out of the account of a succeeds.
CanPay(a, v, keepAlive) == v <= free[a] /\ (keepAlive => free[a] - v >= ED)

\* What is left of an account after it paid v: dust is reaped.
LeftOf(a, v) == IF free[a] - v < ED THEN 0 ELSE free[a] - v

\* can_deposit: the account exists, or comes into being with v.
CanDeposit(a, v) == free[a] + v >= ED

-----------------------------------------------------------------------------
\* Helpers of the pallet

\* ensure_bank_can_transfer: reducible balance less unused and on-finalize value.
BankCanTransfer(v) == v = 0 \/ v + unused + pendingTotal <= bankFree

\* deposit; the bank could refuse only if it had fallen below ED.
Deposit(a, v, keepAlive) ==
    /\ CanPay(a, v, keepAlive)
    /\ free' = [free EXCEPT ![a] = LeftOf(a, v)]
    /\ bankFree' = bankFree + v
    /\ fault' = (fault \/ bankFree + v < ED)
    /\ UNCHANGED unused

\* withdraw: pay v to a, or keep it as unused value if a would not exist.
Withdraw(a, v) ==
    IF ~BankCanTransfer(v) THEN fault' = TRUE /\ UNCHANGED balances
    ELSE IF ~CanDeposit(a, v) THEN unused' = unused + v /\ UNCHANGED <<free, bankFree, fault>>
    ELSE IF bankFree - v < ED THEN fault' = TRUE /\ UNCHANGED balances
    ELSE /\ bankFree' = bankFree - v /\ free' = Plus(free, a, v)
         /\ UNCHANGED <<unused, fault>>

-----------------------------------------------------------------------------
BankInit ==
    /\ free \in [Accounts -> 0..Issuance]
    /\ \A a \in Accounts : free[a] = 0 \/ free[a] >= ED
    /\ bankFree = ED
    /\ gas = [a \in Accounts |-> 0] /\ value = [a \in Accounts |-> 0]
    /\ unused = 0 /\ pending = [a \in Accounts |-> 0] /\ pendingTotal = 0
    /\ bankPhase = "block" /\ expected = 0 /\ drained = 0
    /\ fault = FALSE

DepositGas(a, amount, keepAlive) ==
    /\ bankPhase = "block"
    /\ Deposit(a, Multiplier * amount, keepAlive)
    /\ gas' = Plus(gas, a, Multiplier * amount)
    /\ UNCHANGED <<value, scheduled, hook>>

\* The refund of gas that was not spent.
WithdrawGas(a, amount) ==
    LET v == Multiplier * amount
    IN  /\ bankPhase = "block" /\ v <= gas[a]
        /\ IF ~BankCanTransfer(v) THEN fault' = TRUE /\ UNCHANGED <<balances, gas>>
           ELSE gas' = Minus(gas, a, v) /\ Withdraw(a, v)
        /\ UNCHANGED <<value, scheduled, hook>>

\* Mutant: the whole value goes to the treasury and the rest to the author.
SpendGasTwice(to, a, amount, share) ==
    LET v == Multiplier * amount
    IN  /\ bankPhase = "block" /\ v <= gas[a]
        /\ gas' = Minus(gas, a, v)
        /\ pending' = Plus(Plus(pending, Treasury, share), to, v)
        /\ pendingTotal' = pendingTotal + v
        /\ UNCHANGED <<balances, value, hook, fault>>

\* spend_gas_to, withdraw_on_finalize inlined twice: the treasury's share, of
\* whatever percentage, and the rest for the block author or the rent pool.
SpendGas(to, a, amount, share) ==
    LET v == Multiplier * amount
    IN  /\ bankPhase = "block" /\ v <= gas[a] /\ share <= v
        /\ IF ~BankCanTransfer(v)
           THEN fault' = TRUE /\ UNCHANGED <<gas, scheduled>>
           ELSE /\ gas' = Minus(gas, a, v)
                /\ pending' = Plus(Plus(pending, Treasury, share), to, v - share)
                /\ pendingTotal' = pendingTotal + v
                /\ UNCHANGED fault
        /\ UNCHANGED <<balances, value, hook>>

DepositValue(a, v, keepAlive) ==
    /\ bankPhase = "block"
    /\ Deposit(a, v, keepAlive)
    /\ value' = Plus(value, a, v)
    /\ UNCHANGED <<gas, scheduled, hook>>

\* Mutant: the sender's value is paid out but stays in the books.
TransferValueTwice(a, to, v) ==
    /\ bankPhase = "block" /\ v <= value[a]
    /\ Withdraw(to, v)
    /\ UNCHANGED <<value, gas, scheduled, hook>>

\* transfer_value; withdraw_value is the case to = a.
TransferValue(a, to, v) ==
    /\ bankPhase = "block" /\ v <= value[a]
    /\ IF ~BankCanTransfer(v) THEN fault' = TRUE /\ UNCHANGED <<balances, value>>
       ELSE value' = Minus(value, a, v) /\ Withdraw(to, v)
    /\ UNCHANGED <<gas, scheduled, hook>>

\* The value changes hands inside the bank.
TransferLockedValue(a, to, v) ==
    /\ bankPhase = "block" /\ v <= value[a]
    /\ IF ~BankCanTransfer(v) THEN fault' = TRUE /\ UNCHANGED value
       ELSE value' = Plus(Minus(value, a, v), to, v) /\ UNCHANGED fault
    /\ UNCHANGED <<balances, gas, scheduled, hook>>

\* An ordinary transfer to the address of the bank, which anyone may make.
Donate(a, v) ==
    /\ bankPhase = "block" /\ Deposit(a, v, FALSE)
    /\ UNCHANGED <<books, scheduled, hook>>

\* on_finalize takes the total first: the withdrawals below need it freed.
FinalizeTake ==
    /\ bankPhase = "block" /\ bankPhase' = "finalize"
    /\ expected' = pendingTotal /\ pendingTotal' = 0 /\ drained' = 0
    /\ UNCHANGED <<balances, books, pending, fault>>

\* One turn of its loop over the drained map.
FinalizeTransfer(a) ==
    /\ bankPhase = "finalize" /\ pending[a] > 0
    /\ drained' = drained + pending[a]
    /\ Withdraw(a, pending[a])
    /\ pending' = [pending EXCEPT ![a] = 0]
    /\ UNCHANGED <<books, pendingTotal, bankPhase, expected>>

\* Mutant: the loop is left before the map is empty.
FinalizeEndEarly ==
    /\ bankPhase = "finalize" /\ bankPhase' = "block"
    /\ expected' = 0 /\ drained' = 0
    /\ UNCHANGED <<balances, books, scheduled, fault>>

\* Its last check, and those of the next on_initialize.
FinalizeEnd ==
    /\ bankPhase = "finalize" /\ \A a \in Accounts : pending[a] = 0
    /\ bankPhase' = "block"
    /\ fault' = (fault \/ drained # expected \/ pendingTotal # 0)
    /\ expected' = 0 /\ drained' = 0
    /\ UNCHANGED <<balances, books, scheduled>>

BankNext ==
    \/ \E a \in Accounts, v \in Payments :
          \/ \E keepAlive \in BOOLEAN :
                DepositGas(a, v, keepAlive) \/ DepositValue(a, v, keepAlive)
          \/ WithdrawGas(a, v)
          \/ \E to \in Accounts :
                \/ \E share \in 0..(Multiplier * MaxAmount) : SpendGas(to, a, v, share)
                \/ TransferValue(a, to, v)
                \/ TransferLockedValue(a, to, v)
          \/ Donate(a, v)
    \/ FinalizeTake
    \/ \E a \in Accounts : FinalizeTransfer(a)
    \/ FinalizeEnd

FinalizeStep == FinalizeTake \/ (\E a \in Accounts : FinalizeTransfer(a)) \/ FinalizeEnd

BankSpec == BankInit /\ [][BankNext]_bankVars
BankFairSpec == BankSpec /\ WF_bankVars(FinalizeStep)

-----------------------------------------------------------------------------
\* Every variable keeps to its type: no account, book or counter of the pallet goes
\* below zero.
TypeOK ==
    /\ free \in [Accounts -> Nat] /\ bankFree \in Nat
    /\ gas \in [Accounts -> Nat] /\ value \in [Accounts -> Nat]
    /\ unused \in Nat /\ pending \in [Accounts -> Nat] /\ pendingTotal \in Nat
    /\ bankPhase \in {"block", "finalize"} /\ expected \in Nat /\ drained \in Nat
    /\ fault \in BOOLEAN

\* What the bank holds for others: the books, the scheduled transfers, and the
\* refunds nobody could receive.
Owed == Sum(gas) + Sum(value) + Sum(pending) + unused

\* The bank's account covers everything it owes and its own existence, whatever
\* the order of deposits, refunds, fees, deaths of accounts and blocks.
Solvent == bankFree >= ED + Owed

\* None of the pallet's unreachable! calls, "unreachable" log lines and errors
\* that "must be unreachable in Gear main protocol" is reached.
NoFault == ~fault

\* OnFinalizeValue is the sum of OnFinalizeTransfers, and inside the hook the
\* part already drained and the rest make up the amount taken.
ScheduleIsSummed ==
    IF bankPhase = "block" THEN pendingTotal = Sum(pending)
    ELSE pendingTotal = 0 /\ expected = drained + Sum(pending)

\* Money enters and leaves the bank only together with its entry in the books:
\* no call spends what belongs to others, and no refund is forgotten. Only a
\* direct transfer to the bank's address changes what is left over.
SurplusKept ==
    [][\/ bankFree' - Owed' = bankFree - Owed
       \/ \E a \in Accounts, v \in Payments : Donate(a, v)]_bankVars

\* Every fee scheduled for the end of the block is paid out or parked.
FeesAreSettled == \A a \in Accounts : pending[a] > 0 ~> pending[a] = 0
=============================================================================
