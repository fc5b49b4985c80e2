---------------------------- MODULE MCSessionRefresh ----------------------------
(***************************************************************************)
(* Three requests on one session: one that stalls, one that reclaims its   *)
(* lease and one that claims what the second left.  Two authentication     *)
(* instants let an answer be older than what is stored.                    *)
(***************************************************************************)
EXTENDS SessionRefresh
================================================================================
