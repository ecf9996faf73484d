----------------------------- MODULE MCPallets -----------------------------
(***************************************************************************)
(* Three pallets that share no storage, side by side: the message queue of *)
(* pallet-gear-messenger, the bank of pallet-gear-bank and the queue of    *)
(* pallet-gear-eth-bridge.  Every behaviour is one of the specification of *)
(* one of them, while the others rest in an initial state.                 *)
(***************************************************************************)
EXTENDS MessageQueue, GearBank, EthBridge

VARIABLE pallet  \* the one that is called

palletVars == <<pallet, vars, bankVars, bridgeVars>>

PalletsInit ==
    /\ pallet \in {"messenger", "bank", "bridge"}
    /\ Init /\ BankInit /\ BridgeInit
    /\ pallet # "bank" => free = [a \in Accounts |-> 0]

Messenger == pallet = "messenger" /\ Next /\ UNCHANGED <<pallet, bankVars, bridgeVars>>
Bank == pallet = "bank" /\ BankNext /\ UNCHANGED <<pallet, vars, bridgeVars>>
Bridge == pallet = "bridge" /\ BridgeNext /\ UNCHANGED <<pallet, vars, bankVars>>

\* on_finalize of the bank, whose fairness is that of GearBank!BankFairSpec
BankFinalizes == pallet = "bank" /\ FinalizeStep /\ UNCHANGED <<pallet, vars, bridgeVars>>

PalletsSpec ==
    /\ PalletsInit /\ [][Messenger \/ Bank \/ Bridge]_palletVars
    /\ WF_palletVars(BankFinalizes)
=============================================================================
