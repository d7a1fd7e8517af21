--------------------------- MODULE MCRecordingProxy ---------------------------
(* Two flows, a node host and a target host, and the three kinds of        *)
(* target_url: none, an https URL without port, an http URL with one.      *)
EXTENDS RecordingProxy

CONSTANTS f1, f2, node, target, none

MCFlows == {f1, f2}
MCHosts == {node, target}
MCPorts == {0, 80, 443, 8545}
MCTargetUrls == {none,
                 [host |-> target, scheme |-> "https", port |-> 0],
                 [host |-> target, scheme |-> "http", port |-> 8545]}
=============================================================================
