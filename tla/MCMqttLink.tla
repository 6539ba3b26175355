------------------------------ MODULE MCMqttLink ------------------------------
\* Two of the four topics; to the second somebody publishes.
EXTENDS MqttLink

MCTopics == <<"temperature", "hvac">>
MCPublishers == {"hvac"}
=============================================================================
