----------------------------- MODULE MCEventBus ----------------------------
(***************************************************************************)
(* Three streams: two of the same client on one pattern (a reconnect), one  *)
(* on a wildcard that rejects every first event; a publisher whose topic    *)
(* both patterns match and one whose topic only the wildcard matches.       *)
(***************************************************************************)
EXTENDS EventBus, TLC

MCClient == "s1" :> "x" @@ "s2" :> "x" @@ "s3" :> "y"
MCPattern == "s1" :> "a/b" @@ "s2" :> "a/b" @@ "s3" :> "**"
MCFiltered == "s1" :> {} @@ "s2" :> {} @@ "s3" :> {1}
MCMaxEvents == "p" :> 2 @@ "q" :> 1
MCMatched == "p" :> {"a/b", "**"} @@ "q" :> {"**"}
=============================================================================
