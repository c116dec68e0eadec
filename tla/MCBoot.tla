------------------------------- MODULE MCBoot -------------------------------
(* Boot with two of the six shortcuts and the five devices of main.        *)
EXTENDS Boot

MCShortcuts == <<"A", "B">>
MCDevices   == <<"usb", "sd", "usb", "sd", "sd">>
=============================================================================
