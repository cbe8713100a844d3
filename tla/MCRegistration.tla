---------------------------- MODULE MCRegistration ----------------------------
(* An instance of Registration: two threads, and lists of devices in which *)
(* the preferred one is missing, comes first, comes last, or cannot do     *)
(* what it is wanted for.                                                  *)
EXTENDS Registration

Names == <<"usb", "hd">>

Laptop == [names |-> {"hd"}, inputs |-> TRUE, outputs |-> TRUE]
Monitor == [names |-> {"hd"}, inputs |-> FALSE, outputs |-> TRUE]
Headset == [names |-> {"usb"}, inputs |-> TRUE, outputs |-> TRUE]
Camera == [names |-> {"usb"}, inputs |-> TRUE, outputs |-> FALSE]
Radio == [names |-> {}, inputs |-> TRUE, outputs |-> TRUE]

Plugged == {<<>>, <<Laptop, Camera>>, <<Radio, Monitor, Laptop, Headset>>}

=============================================================================
