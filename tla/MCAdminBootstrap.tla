---------------------------- MODULE MCAdminBootstrap ----------------------------
EXTENDS AdminBootstrap, TLC

MCRunners == 1 .. 3

\* Under the lock a preview and two runs, or two runs whose lost writes may
\* arrive late; without it two runs that race.
MCSetups ==
  {[mode |-> <<"preview", "run", "run">>, locked |-> TRUE, late |-> FALSE],
   [mode |-> <<"run", "run", "none">>, locked |-> TRUE, late |-> TRUE],
   [mode |-> <<"run", "run", "none">>, locked |-> FALSE, late |-> TRUE]}

MCFields == {"f", "g"}

MCValues == {0, 1}

MCOp(k, t) == [kind |-> k, target |-> t, want |-> "f" :> 1]

\* Every kind of operation alone, plans that mix them, and one that asks for
\* two versions of the same policy.
MCPlans ==
  {<<MCOp(k, "t")>> : k \in MountKinds \cup DocumentKinds \cup {"transit_key", "kv2_secret", "credential"}}
  \cup {<<MCOp("credential", "x"), MCOp("mount", "t"), MCOp("kv2_secret", "u")>>,
        <<MCOp("policy", "t"), MCOp("kv2_secret", "u"), MCOp("credential", "x")>>,
        <<MCOp("policy", "t"), [MCOp("policy", "t") EXCEPT !.want = "f" :> 0]>>}

MCObject(e, o, v, f, g) ==
  [exists |-> e, override |-> o, version |-> v, fields |-> "f" :> f @@ "g" :> g]

\* Absent, never written or deleted; present with either value of each
\* setting, the override set only beside the desired one.
MCObjects ==
  {MCObject(FALSE, FALSE, v, 0, 0) : v \in {0, 1}}
  \cup {MCObject(TRUE, FALSE, 1, f, g) : f \in {0, 1}, g \in {0, 1}}
  \cup {MCObject(TRUE, TRUE, 1, 1, 1)}
=============================================================================
