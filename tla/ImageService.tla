---------------------------- MODULE ImageService ----------------------------
(***************************************************************************)
(* The image recipes at work: the web application, in one of its modes, or *)
(* a verification script, in front of a gateway and its target.            *)
(*                                                                         *)
(* The application meets gateways that the deployment script made; the     *)
(* verification scripts meet any.                                          *)
(***************************************************************************)
EXTENDS ImageApp, GatewayVerifier

vars == <<gatewayVars, appVars, script>>

Init ==
  /\ GatewayInit /\ AppInit
  /\ \/ mode \in Modes \ {"none"} /\ gateway \in Deployed("07") /\ script = "none"
     \/ mode = "none" /\ VerifierInit
        /\ gateway \in {g \in Gateway : g.recipe = "07b" => ~g.interceptor /\ ~g.filter}

TheTarget == \E c \in Callers : TargetStep(c) \/ StopTarget(c) \/ Expire(c)

TheApp == \E r \in Requests : Post(r) \/ ThreadStep(r)

TheVerifier == VerifierStep /\ UNCHANGED appVars

Next ==
  \/ TheApp /\ UNCHANGED script
  \/ TheVerifier
  \/ TheTarget /\ UNCHANGED <<appVars, script>>

(* Every call that the application makes has a timeout.                    *)
Spec == Init /\ [][Next]_vars /\ \A r \in Requests : WF_vars(ThreadStep(r) /\ UNCHANGED script)

=============================================================================
