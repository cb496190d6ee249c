-------------------------------- MODULE MCJobs --------------------------------
(* One job of each kind; two browsers follow the one started from the API.   *)
EXTENDS Jobs

CONSTANTS api, timer

MCFollows == [s \in Streams |-> api]
===============================================================================
