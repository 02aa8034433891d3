---------------------------- MODULE MCArtifact ----------------------------
(***************************************************************************)
(* Instances of ArtifactAccounting for TLC.                                *)
(***************************************************************************)
EXTENDS ArtifactProperties, TLC

CONSTANTS o1, o2, s1, s2, g1, g2, g3, p1, p2, p3, p4, p5

Incarnation(owner, slug, size, status) ==
    [owner |-> owner, slug |-> slug, size |-> size, status |-> status]
Request(gen, kind) == [gen |-> gen, kind |-> kind]

\* Creates, restricted to the generations of the instance.
Of(f) == [g \in Generation |-> f[g]]

\* One slug, asked for twice by its owner and once by another.
SharedSlug ==
    Of(g1 :> Incarnation(o1, s1, 2, "pending") @@ g2 :> Incarnation(o1, s1, 1, "ready")
       @@ g3 :> Incarnation(o2, s1, 1, "pending"))
OneUpload == g1 :> Incarnation(o1, s1, 1, "pending")
TwoSites == g1 :> Incarnation(o1, s1, 2, "ready") @@ g2 :> Incarnation(o1, s2, 1, "ready")

\* What is asked of the slug of SharedSlug.
FailsBoth == p1 :> Request(g1, "fail") @@ p2 :> Request(g3, "fail")

\* An artifact that grows, shrinks and is pinned while another of its owner is
\* created against the same quota.
Redeploys ==
    p1 :> Request(g1, "append") @@ p2 :> Request(g1, "deleteVersion")
    @@ p3 :> Request(g1, "pin")

\* An upload that is finalized, redeployed, renamed and removed.
Finalized ==
    p1 :> Request(g1, "ready") @@ p2 :> Request(g1, "fail")
    @@ p3 :> Request(g1, "remove") @@ p4 :> Request(g1, "append")
    @@ p5 :> Request(g1, "rename")
Removed1 == p1 :> Request(g1, "remove")
=============================================================================
