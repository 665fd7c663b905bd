------------------------------ MODULE MCDispatch -------------------------------
(* Two events of one session, a handler with a route and one without. *)
EXTENDS Dispatch

CONSTANTS h1, h2

MCNamed == <<h1>>
MCFallback == <<h2>>
=============================================================================
