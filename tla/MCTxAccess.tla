----------------------------- MODULE MCTxAccess -----------------------------
(***************************************************************************)
(* Instances of TxAccess for TLC: which technologies are active decides    *)
(* who competes for the bus.                                               *)
(***************************************************************************)
EXTENDS TxAccess

WlanAndBt == {WLAN_ID, BT_ID}
=============================================================================
