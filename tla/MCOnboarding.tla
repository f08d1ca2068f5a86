---------------------------- MODULE MCOnboarding ----------------------------
\* Onboarding with one network that takes WPA with CCMP, and credentials no
\* network takes.
EXTENDS Onboarding
CONSTANTS home, wrong

MCAccepts == {<<home, WPA_CCMP>>}
MCAuthTypes == {ANY, WPA2_AUTO, WPA_CCMP, WPS}
=============================================================================
