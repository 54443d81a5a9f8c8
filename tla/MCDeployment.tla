---------------------------- MODULE MCDeployment ----------------------------
(* Two deployments, each on either network; up to two bids of two sellers, *)
(* with a price, one that cannot be read or NaN; one more poll after the   *)
(* first.  deployment_bids.cfg also has bids that are no longer open.      *)
EXTENDS Deployment
=============================================================================
