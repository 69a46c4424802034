---------------------------- MODULE MCMqttClient ----------------------------
(* MqttClient with topics of different paths.                              *)
EXTENDS MqttClient

ASSUME TopicAssumption == Cardinality(Paths) > 1
=============================================================================
