------------------------------- MODULE MqttMC -------------------------------
(* Instances of MqttInterface for TLC.                                     *)
EXTENDS MqttInterface

TwoTopics == <<"a", "b">>
=============================================================================
