----------------------------- MODULE MCAppliance -----------------------------
(***************************************************************************)
(* Small instances of the appliance: loops of a few modes.                  *)
(***************************************************************************)
EXTENDS Appliance

\* A card, a plugged source that cannot fail by itself, and Bluetooth, which is
\* always there.
ThreeModes == <<"Card", "BtPlay", "Hdmi">>

\* And an input that is always there too, of the priority of Bluetooth.
FourModes == <<"Card", "BtPlay", "Hdmi", "I2SIn">>
===============================================================================
