------------------------ MODULE MCRemoteAsrSession ------------------------
(* An agent that reconnects, and a session started meanwhile.              *)
EXTENDS RemoteAsrSession
=============================================================================
