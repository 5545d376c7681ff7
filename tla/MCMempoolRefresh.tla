-------------------------- MODULE MCMempoolRefresh --------------------------
(* Two keys of any two classes of reducers. *)
EXTENDS MempoolRefresh

CONSTANTS x, y

MCKeys == {x, y}
MCValues == 0..MaxValue
=============================================================================
