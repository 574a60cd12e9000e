----------------------- MODULE MCWebsocketTranslator -----------------------
(* The instances of WebsocketTranslator that TLC checks.                   *)
EXTENDS WebsocketTranslator, TLC

CONSTANTS d1, d2, a, b
OneDrone == {d1}
TwoDrones == {d1, d2}
OneName == {a}

Calm == {{}}
Quiet == {{"quiet"}}
Signalled == {{"signal"}}
CalmOrSevered == {{}, {"sever"}}
CalmOrQuietOrBroken == {{}, {"quiet"}, {"quiet", "sever"}}
CalmOrNot == {{}, {"quiet"}, {"signal"}, {"sever"}}

Single == {<<"CONNECT">>, <<"REQUEST">>, <<"DISCONNECT">>}
RequestsOnly == {<<"REQUEST">>}

\* Workers are interchangeable.
Alike == Permutations(TwoDrones)

=============================================================================
