--------------------------- MODULE MCGrpcHttp2Call ---------------------------
EXTENDS GrpcHttp2Call
MCRequests == 2
MCMaxChunks == 2
=============================================================================
