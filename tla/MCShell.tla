------------------------------ MODULE MCShell ------------------------------
(* The rail and the routes of one page for TLC, with what each of them     *)
(* must come to in the end.  One part runs in each behaviour.              *)
EXTENDS SidebarOrganisation, Navigation

VARIABLE part

shellVars == <<railVars, navVars, part>>

(* A part that does not run has one initial state.                         *)
ShellInit == /\ part \in {"rail", "nav"}
             /\ RailInit
             /\ NavInit /\ (part # "nav" => url = HomeRoute /\ remembered = Nowhere)

ShellNext == \/ part = "rail" /\ RailNext /\ UNCHANGED <<navVars, part>>
             \/ part = "nav" /\ NavNext /\ UNCHANGED <<railVars, part>>

(* RailFairness and NavFairness, each in its own part.                     *)
Rail == part = "rail"
Nav == part = "nav"
ShellFairness ==
    /\ WF_railVars(Rail /\ Poll) /\ WF_railVars(Rail /\ Deliver)
    /\ WF_railVars(Rail /\ \E q \in requests : Settle(q) \/ SettleFailure(q))
    /\ WF_railVars(Rail /\ \E c \in calls : CallSucceeds(c) \/ CallFails(c))
    /\ WF_navVars(Nav /\ (FollowRedirect \/ Remember))
    /\ WF_navVars(Nav /\ (ListServed \/ ListArrives))
    /\ WF_navVars(Nav /\ (CreateAnswered \/ \E p \in ProjectIds : CreateServed(p)))
    /\ WF_navVars(Nav /\ DeleteAnswered)

ShellSpec == ShellInit /\ [][ShellNext]_shellVars /\ ShellFairness

(* Once nobody edits any more the rail shows the rows as the server has them *)
(* (Converges, in the behaviours of the rail).                               *)
RailConverges == Rail => Converges
=============================================================================
