--------------------------- MODULE MCRemoteAccess ---------------------------
(* RemoteAccess where u1 may invite u2.                                    *)
EXTENDS RemoteAccess

CONSTANTS u1, u2

MCTrusted == {<<u1, u2>>}
=============================================================================
