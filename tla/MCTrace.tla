------------------------------ MODULE MCTrace ------------------------------
(* The trace page for TLC: its stream and views, or its cache of bodies. *)
EXTENDS TraceView, ContentBodies

VARIABLE part

MCRootOf == "s1" :> "r1" @@ "s2" :> "r2"
MCChildOf == "r1" :> "c1" @@ "r2" :> "c2"
MCMaxLog == "r1" :> 5 @@ "c1" :> 3 @@ "r2" :> 1 @@ "c2" :> 0
MCCharsOf == "h1" :> 1 @@ "h2" :> 2 @@ "h3" :> 4

vars == <<traceVars, bodyVars, part>>

Init == part \in {"stream", "bodies"} /\ TraceInit /\ BodyInit

Next == \/ part = "stream" /\ TraceNext /\ UNCHANGED <<bodyVars, part>>
        \/ part = "bodies" /\ BodyNext /\ UNCHANGED <<traceVars, part>>

(* The fairness of the stream, in the behaviours that are about it.      *)
Spec == Init /\ [][Next]_vars /\ (part = "stream" => TraceFairness)
=============================================================================
