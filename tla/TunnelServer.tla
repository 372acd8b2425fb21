---------------------------- MODULE TunnelServer ----------------------------
(***************************************************************************)
(* The xhttp transport together with the availability flag of the tunnel   *)
(* manager: every session that XhttpSessions creates or closes calls back  *)
(* through server.js and proxy.js into setConnected, before the handler    *)
(* returns.  Opening or losing a stream calls nobody.                      *)
(*                                                                         *)
(* A step may close several sessions and open one after that.  setConnected *)
(* looks at the table each time, so the last call decides.                 *)
(***************************************************************************)
EXTENDS XhttpSessions

VARIABLE connected    \* TunnelManager._connected

serverVars == <<vars, connected>>

ServerInit == Init /\ connected = FALSE

\* Faulty variant: closing a session leaves the flag alone.
SetConnectedOnCreate ==
  connected' = IF ~(Open' \subseteq Open) THEN TRUE ELSE connected

SetConnected ==
  connected' = IF ~(Open' \subseteq Open) THEN TRUE
               ELSE IF Open' # Open THEN ActiveSession' # None
               ELSE connected

ServerNext == Next /\ SetConnected

ServerSpec == ServerInit /\ [][ServerNext]_serverVars /\ Fairness

------------------------------------------------------------------------------
(* forward() accepts requests only while there is a session at all.        *)
AvailableNeedsSession == connected => Open # {}

(* isAvailable: "is the tunnel usable (client connected)".  A session that *)
(* has its stream is a connected client, so the tunnel is available.       *)
ActiveIsAvailable == ActiveSession # None => connected
=============================================================================
