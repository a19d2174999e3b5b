--------------------------- MODULE MCBotControl ---------------------------
EXTENDS BotControl, TLC

MCOrders == {<<"START", "DEVELOPER">>, <<"EMERGENCY", "EMERGENCY">>,
             <<"MODE", "COMMANDER">>, <<"SCAN", "OBSERVER">>}
===========================================================================
