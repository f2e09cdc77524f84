----------------------------- MODULE MCChannel -----------------------------
EXTENDS Channel

AllKinds == {"poll", "web", "gateway", "socket"}
Keepalives == [gateway |-> "json_opcode", socket |-> "ping_pong"]
=============================================================================
