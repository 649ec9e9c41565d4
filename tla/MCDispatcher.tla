---------------------------- MODULE MCDispatcher ----------------------------
(***************************************************************************)
(* Instances of Dispatcher for TLC: one alert goes to every channel, the   *)
(* others to the first one only, and all have the same group labels.       *)
(***************************************************************************)
EXTENDS Dispatcher

CONSTANTS Channels, First, Wide

ASSUME WideAssumption == First \in Channels /\ Wide \in Alerts

MCMatch == [a \in Alerts |-> IF a = Wide THEN Channels ELSE {First}]
MCGroupOf == [a \in Alerts |-> "labels"]

\* Constraint: the wide alert is looked at alone, in its first version and while no
\* configuration comes.
WideAlone ==
    version[Wide] > 0 =>
        version[Wide] = 1 /\ server = "up" /\ current = 1 /\ \A a \in Alerts \ {Wide} : version[a] = 0
=============================================================================
