--------------------------- MODULE MCIntegrations ---------------------------
(* Instances of Integrations for TLC: two HubSpot portals and a chat channel. *)
EXTENDS Integrations

MCType == <<"hubspot", "notification", "hubspot">>

=============================================================================
