-------------------------- MODULE MCOpenRpcWebSocket --------------------------
EXTENDS OpenRpcWebSocket
CONSTANTS swift, patient
MCClients == {swift, patient}
MCTimed == {swift}
=============================================================================
