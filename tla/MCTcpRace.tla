------------------------------ MODULE MCTcpRace ------------------------------
(***************************************************************************)
(* Instances of TcpRace for TLC.                                           *)
(***************************************************************************)
EXTENDS TcpRace

\* The default race, one under a deadline, one that may use one family only, and
\* the sequential path.
RaceConfigs ==
    { [happy |-> TRUE,  deadline |-> FALSE, binds |-> {}],
      [happy |-> TRUE,  deadline |-> TRUE,  binds |-> {"v4", "v6"}],
      [happy |-> TRUE,  deadline |-> TRUE,  binds |-> {"v6"}],
      [happy |-> FALSE, deadline |-> TRUE,  binds |-> {"v4"}] }
=============================================================================
