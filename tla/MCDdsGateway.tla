---------------------------- MODULE MCDdsGateway ----------------------------
(***************************************************************************)
(* Instances of DdsGateway for TLC.  Service 2 is bridged both ways on the *)
(* default topics.  Services 1, out, and 3, in, name their topic, and      *)
(* spell it like the default topic of service 2's event; service 4, out,   *)
(* spells it like the one of service 2's method.                           *)
(***************************************************************************)
EXTENDS DdsGateway

Mapping(service, direction, external) ==
  [service |-> service, instance |-> 1, direction |-> direction, external |-> external,
   methods |-> <<1>>, groups |-> <<>>]
Spelled(kind) == DdsTopic(2, 1, kind, 1)
MCMappings ==
  << Mapping(1, "SOMEIP_TO_EXTERNAL", Spelled(<<"event">>)), Mapping(2, "BIDIRECTIONAL", <<>>),
     Mapping(3, "EXTERNAL_TO_SOMEIP", Spelled(<<"event">>)),
     Mapping(4, "SOMEIP_TO_EXTERNAL", Spelled(<<"method">>)) >>

Msg(i, s, t) == [id |-> i, service |-> s, method |-> 1, type |-> t]

\* An event on its default topic beside the call that spells the same topic and the
\* call of its own service, which is beside a segment of its own method and beside
\* the event that spells the same topic.
MCBatches ==
  { {Msg(1, 1, REQUEST), Msg(2, 2, NOTIFICATION)},
    {Msg(2, 2, NOTIFICATION), Msg(3, 2, REQUEST)},
    {Msg(3, 2, REQUEST), Msg(4, 2, TP_REQUEST)},
    {Msg(3, 2, REQUEST), Msg(5, 4, NOTIFICATION)} }
OneSample == {[id |-> 11, topic |-> Spelled(<<"event">>)]}
=============================================================================
