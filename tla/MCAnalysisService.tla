-------------------------- MODULE MCAnalysisService --------------------------
(* Instances of AnalysisService for TLC.                                     *)
EXTENDS AnalysisService, TLC

CONSTANTS c1, c2, r1, r2, r3, i1, i2, i3, dA, dB, dC

\* prod_ and api_ job ids never share a path: the sync calls have dC.
ApartPaths ==
  [repo  |-> (i1 :> dA) @@ (i2 :> dB) @@ (i3 :> dB),
   batch |-> [i \in JobIds |-> dC]]

Plan(e, g) == [endpoint |-> e, groups |-> g]
Java    == Plan("analyze", <<"java">>)
Batch   == Plan("batch", <<"java">>)
Js      == Plan("batch", <<"js">>)
Mixed   == Plan("batch", <<"java", "js">>)
Pr      == Plan("pr", <<"java">>)
JsPr    == Plan("pr", <<"js">>)
MixedPr == Plan("pr", <<"java", "js">>)

\* Deployments: fixed rules, generated rules, no graph engine; with a client
\* that outwaits the worker or not.
Fixed(patient) == [ready |-> TRUE, candidates |-> FALSE, patient |-> patient]
Generated      == [ready |-> TRUE, candidates |-> TRUE, patient |-> FALSE]
NoEngine       == [ready |-> FALSE, candidates |-> FALSE, patient |-> FALSE]

Load(configs, who, plans, kinds, jobs) ==
  [config : configs, asking : {who}, plan : plans, kind : kinds, job : jobs]

\* Two clients and the worker's three requests.
Two(p, q)   == (c1 :> p) @@ (c2 :> q)
By(k, l, m) == (r1 :> k) @@ (r2 :> l) @@ (r3 :> m)

OneFile == {By("repo", "repo", "sync")}

\* Two clients for one slot, whose job ids meet or not.
Contended == Load({Fixed(TRUE), Fixed(FALSE)}, {c1, c2}, {Two(Pr, Pr)}, OneFile,
                  {By(i1, i1, i3), By(i1, i2, i3)})
\* A file of its own, and then somebody else's group.
Files == Load({Fixed(TRUE)}, {c1, c2}, {Two(JsPr, Pr)}, OneFile, {By(i1, i2, i3)})
\* One client: candidates, taint and context; a group whose failure leaves its
\* file to a call of its own; files of two languages, without an engine too.
Calls  == Load({Generated}, {c1}, {Two(Java, Pr)}, {By("repo", "repo", "repo")}, {By(i1, i1, i2)})
Groups == Load({Fixed(FALSE)}, {c1}, {Two(MixedPr, Pr), Two(Js, Pr)}, OneFile, {By(i1, i2, i3)})
          \cup Load({NoEngine}, {c1}, {Two(Mixed, Pr)}, OneFile, {By(i1, i2, i3)})
AllLoads == Contended \cup Files \cup Calls \cup Groups

\* One client, one call.
OneLoad == Load({Fixed(TRUE)}, {c1}, {c1 :> Batch}, {r1 :> "repo"}, {r1 :> i1, r1 :> i2})
=============================================================================
