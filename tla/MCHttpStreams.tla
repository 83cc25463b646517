--------------------------- MODULE MCHttpStreams ---------------------------
(* Streams that say End in the middle, at the end or not at all, with an     *)
(* empty chunk in front, between and behind others, and with a named event.  *)
EXTENDS HttpStreams
MCRoutes == {RouteSpec(i, s, m) : i \in BOOLEAN, s \in BOOLEAN, m \in {Nothing, Some(0), Some(2)}}
MCRequests == {HttpRouteRequest(i, b) : i \in {Nothing, Some("caller")}, b \in {<<>>, <<1>>, <<1, 1>>}}
MCResponses ==
  {Bytes(<<>>), Bytes(<<1>>), Stream(<<>>),
   Stream(<<Data(<<1>>), Data(<<>>), Data(<<2>>)>>),
   Stream(<<Data(<<>>), Event("e", <<1>>), Data(<<2>>), End>>),
   Stream(<<Data(<<1>>), End, Data(<<2>>)>>)}
=============================================================================
