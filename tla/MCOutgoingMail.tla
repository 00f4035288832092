--------------------------- MODULE MCOutgoingMail ---------------------------
(* A scheduled or immediate mail of either kind, two delivery workers, and  *)
(* two requests to call the same send back.                                 *)
EXTENDS OutgoingMail

OneCampaign == [m \in Mails |-> "newsletter"]
=============================================================================
