----------------------------- MODULE MCOpenRpcTcp -----------------------------
EXTENDS OpenRpcTcp
CONSTANTS swift, patient
MCClients == {swift, patient}
MCTimed == {swift}
=============================================================================
