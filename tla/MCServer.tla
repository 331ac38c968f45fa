------------------------------ MODULE MCServer ------------------------------
(* Instances of Server for TLC: the open popover, which polls the status,  *)
(* and whoever else opens the pipe.                                        *)
EXTENDS Server, TLC

CONSTANTS poll, user

(* One request for each way of using the lock that the poll and the loop   *)
(* do not have.                                                            *)
MCAsks ==
  poll :> {"GetStatus"}
    @@ user :> {"RotateHik", "Logout", "GetConnections", "SyncKeys", "Login",
                "StartOAuthFlow", "Probe"}
=============================================================================
