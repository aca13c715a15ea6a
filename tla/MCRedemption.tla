----------------------------- MODULE MCRedemption -----------------------------
(* An instance of Redemption.                                                *)
EXTENDS Redemption

Provider(frontchannel, bySid, iframe) ==
    [frontchannelLogoutSupported |-> frontchannel,
     frontchannelLogoutSessionSupported |-> bySid,
     checkSessionIframe |-> iframe]

\* A provider with front-channel logout by sid and session management, and one
\* with neither.
SomeProviders == {Provider(TRUE, TRUE, TRUE), Provider(FALSE, FALSE, FALSE)}
=============================================================================
