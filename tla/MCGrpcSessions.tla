---------------------------- MODULE MCGrpcSessions ----------------------------
EXTENDS GrpcSessions
CONSTANTS here, there
MCOrigins == {here, there}
MCMaxSessions == 4
=============================================================================
