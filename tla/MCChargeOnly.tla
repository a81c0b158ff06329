---------------------------- MODULE MCChargeOnly ----------------------------
EXTENDS ChargeOnly

\* The power key is on a device of its own, behind the other keys.
MCPowerLast == <<{"up", "other"}, {"power", "release"}>>

\* Every change of supply goes through none.
MCReplug == {<<"ac", "none">>, <<"usb", "none">>, <<"none", "ac">>, <<"none", "usb">>}
MCUnplug == {<<"ac", "none">>, <<"usb", "none">>}
MCNoKeys == <<>>
=============================================================================
