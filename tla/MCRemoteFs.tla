----------------------------- MODULE MCRemoteFs -----------------------------
(* Model-checking instances of RemoteFs: which kinds of calls compete. *)
EXTENDS RemoteFs

\* A load, a stream and a mutating call.
LoadStreamMutate == [load |-> "load", stream |-> "stream", mkdir |-> "mutate"]
LoadStreamMutateOps == DOMAIN LoadStreamMutate
\* Retried calls on the metadata lane.
Listing == [readdir |-> "readdir", stat |-> "stat"]
ListingOps == DOMAIN Listing
=============================================================================
