------------------------------ MODULE MCBtDdb ------------------------------
(* Three devices, two keys and two profiles for BtDdb: the smallest instance  *)
(* in which the list overflows, a key changes and a second profile comes up.  *)
EXTENDS BtDdb, TLC
CONSTANTS d1, d2, d3, k1, k2
TwoProfiles == {"a2dp", "avrcp"}
Interchangeable == Permutations(Device) \cup Permutations(Key)
=============================================================================
