----------------------------- MODULE MCNetWatch -----------------------------
(* Interfaces for NetWatch.                                                *)
EXTENDS NetWatch

\* One interface sorts before loopback, one after it.
McNames == <<"eth0", "lo", "wlan0">>
TwoNames == <<"eth0", "lo">>
=============================================================================
