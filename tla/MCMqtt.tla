------------------------------- MODULE MCMqtt -------------------------------
(***************************************************************************)
(* Model values and small traffic for Mqtt.                                *)
(***************************************************************************)
EXTENDS Mqtt

CONSTANTS a, b      \* two topic filters

MCQos0then1 == <<0, 1>>
MCQos1then1 == <<1, 1>>
MCNoPublish == <<>>
=============================================================================
