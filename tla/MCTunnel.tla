------------------------------ MODULE MCTunnel ------------------------------
(***************************************************************************)
(* Small instances of Tunnel.  Two bounds, both on steps no fairness is    *)
(* assumed of: a behaviour is about HTTP requests or about WebSocket       *)
(* clients, which share nothing but the tunnel; and a path dies, or the    *)
(* home stops, only while that side has registered (before that, errors,   *)
(* restarts and the two authentication timers end the attempt).            *)
(***************************************************************************)
EXTENDS Tunnel

CONSTANTS r1, s1

OneKindOfUser ==
  (\A r \in Requests : reply[r] = "idle") \/ (\A s \in Sessions : cws[s] = "idle")

FaultsAfterRegistration ==
  /\ cut' # cut => authenticated
  /\ ws' = None /\ ~retryTimer' /\ (ws # None \/ retryTimer) => homeAuth
=============================================================================
