-------------------------------- MODULE MCWeb --------------------------------
(* A small instance, for TLC, of the screens of the web applications and of the map. *)
EXTENDS WebScreens, MapScreen

\* Two share a name of the DNS, and one has its own.
AppsToldOf == <<"a1", "a2", "b">>
NamesOfTheDns == [a \in {"a1", "a2", "b"} |-> IF a = "b" THEN "other" ELSE "shop"]

\* The period that is drawn is the one of the first read: the others say nothing here.
BareMap == [of |-> None, applications |-> <<>>, links |-> {}, queues |-> <<>>]

WebInit ==
  \/ Opened(WebOpening, WebStore({"a1", "b"}))
  \/ \E minutes \in Windows : Opened(MapOpening(minutes), MapStore(BareMap, None, None, None))

WebNext ==
  \/ OnWeb /\ WebSteps
  \/ OnMap /\ MapSteps

WebSpec == WebInit /\ [][WebNext]_browser

\* The timer of the page runs while it is open, and asks when there is room again and again;
\* the network carries what is asked and does not lose every list, nor every map.  A
\* behaviour is of one screen: an action of the other is never enabled in it.
SomePieceEnds(s) == \E piece \in Pieces : PieceTold(s, piece) \/ PieceFails(s, piece)

WebFairness ==
  /\ SF_browser(WebTimer \/ ReadMap)
  /\ \A s \in Slots :
       /\ SF_browser((InStage(s, {"frontends"}, "sent") /\ WebServed(s)) \/ PieceTold(s, "map"))
       /\ SF_browser(FrontendsAnswered(s))
       /\ WF_browser(FrontendsAnswered(s) \/ FrontendsFailed(s) \/ SomePieceEnds(s))
       /\ WF_browser(SiteEnds(s) \/ SwapEnds(s) \/ MapRead(s))

WebFairSpec == WebSpec /\ WebFairness
=============================================================================
