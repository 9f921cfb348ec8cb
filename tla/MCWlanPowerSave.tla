--------------------------- MODULE MCWlanPowerSave ---------------------------
\* Instances of WlanPowerSave for model checking.
EXTENDS WlanPowerSave

On(interval) == [ps_en |-> TRUE, monitor_interval |-> interval]

\* Off, and on with and without monitoring of the traffic.
AllParams == {NoParams, On(0), On(1)}

\* Off, and on with monitoring.
OneOn == {NoParams, On(1)}
=============================================================================
