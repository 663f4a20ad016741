---------------------------- MODULE MCRos2Gateway ----------------------------
(***************************************************************************)
(* Instances of Ros2Gateway for TLC: service 2 has one mapping for its     *)
(* telemetry and one for its commands, service 3 has no topic of its own.  *)
(***************************************************************************)
EXTENDS Ros2Gateway

Out(s, topic) ==
  [service |-> s, instance |-> 1, direction |-> "SOMEIP_TO_EXTERNAL", external |-> topic]
Cmd(s, topic) ==
  [service |-> s, instance |-> 1, direction |-> "EXTERNAL_TO_SOMEIP", external |-> topic]

Namespace == <<<<"vehicle">>, <<"someip">>>>
Angle == <<<<"steer">>, <<"angle">>>>
Command == <<<<"steer">>, <<"cmd">>>>
TelemetryFirst == <<Out(2, Angle), Cmd(2, Command), Out(3, <<>>)>>
CommandFirst == <<Cmd(2, Command), Out(2, Angle)>>

Msg(i, s) == [id |-> i, service |-> s, method |-> 1]
MCMessages == {Msg(1, 2), Msg(2, 3)}

Sample(i, topic) == [id |-> i, topic |-> topic]
MCSamples == {Sample(11, Command), Sample(12, Append(Command, <<"fast">>))}
=============================================================================
