----------------------------- MODULE MCRequests -----------------------------
(* Requests instantiated for TLC: a preview of one application and the      *)
(* production of another, and an alias that moves between them.             *)
EXTENDS Requests, TLC

MCWords == {"prod", "staging", "pr", "1", "shop", "blog", "www"}
MCNumbers == {"1"}

Shop == <<"shop">>
Blog == <<"blog">>
ShopPR == PullRequest(Shop, "1")
BlogProd == Prod(Blog)
MCInstances == {ShopPR, BlogProd}

Host(labels) == [labels |-> labels, inDomain |-> TRUE]
Own == Host(<<<<"shop", "pr", "1">>>>)
Www == Host(<<<<"www">>>>)
MCHostnames == {Own, Www, Host(<<<<"blog">>>>)}
MCDeliveries == {{Own}, {Www}}

Account(application, environment) == [application |-> application, environments |-> {environment}]
Installed(account, aliases) ==
    [accounts |-> "ci" :> account, administrators |-> {"operator"}, aliases |-> aliases]

MCDocuments == {
    Installed(Account(Shop, "preview"), ShopPR :> {Www}),
    Installed(Account(Shop, "preview"), BlogProd :> {Www}),
    \* An application that is called like the preview, and aliases that are another's name.
    Installed(Account(<<"shop", "pr", "1">>, "prod"), ShopPR :> {Www}),
    Installed(Account(Shop, "preview"), BlogProd :> {Own}),
    Installed(Account(Blog, "prod"), ShopPR :> {Host(<<<<"blog">>>>)})}

\* Bound: the production is delivered once.
FewProductions == \A r \in Runs : run[r].instance = BlogProd => run[r].generation <= 1

RunSymmetry == Permutations(Runs)
=============================================================================
