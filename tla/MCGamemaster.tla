---------------------------- MODULE MCGamemaster ----------------------------
(* Instances of GamemasterManager for TLC. *)
EXTENDS GamemasterManager, TLC

CONSTANTS server, command, loop, debug, fetch, v1, v2

\* A server whose refresh loop overlaps POST /refresh, beside a fetch-gm.
MCHome == loop :> server @@ debug :> server @@ fetch :> command

\* The loop of the server is fair; POST /refresh and fetch-gm are not.
MCFairSpec == Spec /\ FairLoop(loop)
=============================================================================
