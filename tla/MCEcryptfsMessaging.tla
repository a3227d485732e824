------------------------ MODULE MCEcryptfsMessaging ------------------------
(* An instance of EcryptfsMessaging for TLC.                               *)
EXTENDS EcryptfsMessaging
=============================================================================
