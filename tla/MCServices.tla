------------------------------ MODULE MCServices ------------------------------
(* Instances of Services.                                                      *)
EXTENDS Services

Everyone == {<<"telegram", "1">>, <<"api", "2">>}

\* One routine, every day at the first of two minutes.
AtMinute == "routine" :> 0
EveryDay == "routine" :> {}

\* The kernel's block and udev's for a device, and one for its interface.
OnePlug == <<[by |-> "kernel", action |-> "add", type |-> "usb_device"],
             [by |-> "udev", action |-> "add", type |-> "usb_device"],
             [by |-> "udev", action |-> "add", type |-> "usb_interface"],
             [by |-> "udev", action |-> "remove", type |-> "usb_device"]>>

CameraAndMicrophone == <<"camera", "microphone">>
=============================================================================
