--------------------------- MODULE MCPoolExposure ---------------------------
EXTENDS PoolExposure

Plain ==
  [enabled |-> FALSE, given |-> FALSE, port |-> Unset, netPort |-> Unset, replicas |-> Unset,
   toml |-> "generated", api |-> "none", mode |-> "none", host |-> FALSE, gwName |-> FALSE,
   ingress |-> FALSE]

\* The gateway section is there, with enabled at its CRD default.
Configured == [Plain EXCEPT !.enabled = TRUE, !.given = TRUE]
Routed == [Configured EXCEPT !.api = "own", !.host = TRUE, !.gwName = TRUE, !.port = 2]
Ingressed == [Configured EXCEPT !.ingress = TRUE, !.netPort = 2, !.toml = "own",
                               !.api = "off", !.replicas = 0]
Terminating == [Routed EXCEPT !.mode = "terminate", !.gwName = FALSE]
Referring == [Configured EXCEPT !.api = "ref", !.host = TRUE]

MCSpecs == {Plain, Routed, Ingressed, Terminating}
MCRefSpecs == {Referring}
=============================================================================
