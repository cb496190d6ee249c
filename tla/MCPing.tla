-------------------------------- MODULE MCPing --------------------------------
(* Two calls with trackers of every kind: `bad` has a port out of range,   *)
(* `torn` a bracket without its pair, `odd` a scheme nothing pings.        *)
EXTENDS Ping

CONSTANTS udp, http, bad, torn, odd, c1, c2

MCScheme ==
  [u \in Urls |-> CASE u = http -> "http"
                    [] u = torn -> "none"
                    [] u = odd -> "other"
                    [] OTHER -> "udp"]

(* Both look up one host, for which there is one thread.                   *)
MCPool == [c \in Calls |-> IF c = c1 THEN {udp, http, bad} ELSE {udp, torn, odd}]
===============================================================================
