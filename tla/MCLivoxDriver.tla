--------------------------- MODULE MCLivoxDriver ----------------------------
(* Lidar 1 has an entry in the configuration file, lidar 2 has none.       *)
EXTENDS LivoxDriver

MCLidars == {1, 2}
MCConfigFile == <<1>>
MCOptions == [l \in MCLidars |-> <<"data_type", "pattern_mode">>]
MCSynchronised == {1}
=============================================================================
