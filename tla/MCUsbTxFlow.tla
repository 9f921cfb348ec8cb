----------------------------- MODULE MCUsbTxFlow -----------------------------
\* Instances of UsbTxFlow for model checking.
EXTENDS UsbTxFlow

AllFaults == {"error", "submit"}
=============================================================================
