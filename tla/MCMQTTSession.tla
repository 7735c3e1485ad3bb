---------------------------- MODULE MCMQTTSession -----------------------------
(* Small instances of MQTTSession for TLC. *)
EXTENDS MQTTSession

\* A filter without wildcards: it matches the topic name it equals.
MCMatches == {p \in Filters \X Topics : p[1] = p[2]}
=============================================================================
