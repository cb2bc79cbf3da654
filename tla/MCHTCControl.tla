---------------------------- MODULE MCHTCControl ----------------------------
(* Instances of HTCControl: the services connected at start-up, in order.  *)
EXTENDS HTCControl

HTT  == "HTT_DATA_MSG_SVC"
HTT2 == "HTT_DATA2_MSG_SVC"
WMI  == "WMI_CONTROL_SVC"
BE   == "WMI_DATA_BE_SVC"
BK   == "WMI_DATA_BK_SVC"

WlanOrder   == <<HTT, WMI>>
Htt2Order   == <<HTT, HTT2, WMI>>
EppingOrder == <<BE, BK>>

HttOnly   == {HTT}
BothHtt   == {HTT, HTT2}
BothPings == {BE, BK}

=============================================================================
