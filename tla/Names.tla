-------------------------------- MODULE Names --------------------------------
(***************************************************************************)
(* Who may publish which public name: vps_platform/policy.py and the names *)
(* of vps_platform/compose.py.                                             *)
(*                                                                         *)
(* A name is made of words with hyphens between them, so it is a sequence  *)
(* of words; a hostname is a sequence of such labels under the platform's  *)
(* domain, or one elsewhere.                                               *)
(***************************************************************************)
EXTENDS Naturals, Sequences

CONSTANTS
    Words,   \* what stands between hyphens, "prod", "staging" and "pr" among it
    Numbers  \* the words that are decimal numbers

ASSUME WordsAssumption ==
    /\ {"prod", "staging", "pr"} \subseteq Words
    /\ Numbers \subseteq Words \ {"prod", "staging", "pr"}

-----------------------------------------------------------------------------
(* Names and instances.                                                    *)

\* A name ends with "-staging" or "-pr-" and a number; NAME has no empty label.
Preview(name) ==
    /\ Len(name) > 2
    /\ name[Len(name) - 1] = "pr"
    /\ name[Len(name)] \in Numbers
Ends(name, word) == Len(name) > 1 /\ name[Len(name)] = word

\* Instance names and hostnames are derived from it: nothing that looks like an instance.
IsApplicationName(name) ==
    /\ name \in Seq(Words) \ {<<>>}
    /\ name[1] \notin Numbers
    /\ ~Preview(name) /\ ~Ends(name, "prod") /\ ~Ends(name, "staging")

\* identity: the application, "prod", "staging" or "preview", and the pull request.
Prod(application) == [application |-> application, environment |-> "prod", pullRequest |-> "none"]
Staging(application) == [Prod(application) EXCEPT !.environment = "staging"]
PullRequest(application, number) ==
    [application |-> application, environment |-> "preview", pullRequest |-> number]

InstancesOf(applications) ==
    UNION {{Prod(app), Staging(app)} \cup {PullRequest(app, n) : n \in Numbers} :
             app \in applications}

\* public_hostname: production answers on the name of its application.
Primary(i) ==
    CASE i.environment = "prod" -> i.application
      [] i.environment = "staging" -> Append(i.application, "staging")
      [] OTHER -> Append(Append(i.application, "pr"), i.pullRequest)

\* is_instance_hostname: the primary name, or one word as one more label before it.
IsInstanceHostname(h, i) ==
    /\ h.inDomain
    /\ \/ h.labels = <<Primary(i)>>
       \/ \E word \in Words \ Numbers : h.labels = <<<<word>>, Primary(i)>>

-----------------------------------------------------------------------------
(* The policy document: accounts, administrators and the aliases of        *)
(* instances (instance_hostnames).                                         *)

Aliases(policy, i) ==
    IF i \in DOMAIN policy.aliases THEN policy.aliases[i] ELSE {}

\* owns_hostname
Owns(policy, h, i) == IsInstanceHostname(h, i) \/ h \in Aliases(policy, i)

Applications(policy) ==
    {policy.accounts[actor].application : actor \in DOMAIN policy.accounts}
      \cup {i.application : i \in DOMAIN policy.aliases}

\* The last label, which names an instance other than production.
Namespace(h) == h.labels[Len(h.labels)]
Reserved(h) == h.inDomain /\ (Ends(Namespace(h), "staging") \/ Preview(Namespace(h)))

\* An alias is nobody else's name.  (A reserved name that is the owner's is not a
\* production's, so its last label is the owner's own name.)
StealsNothing(policy, h, owner) ==
    /\ \A app \in Applications(policy) : \A i \in {Prod(app), Staging(app)} \ {owner} :
          ~IsInstanceHostname(h, i)
    /\ Reserved(h) => IsInstanceHostname(h, owner)

\* A slip: an alias is compared with other aliases only.
AcceptedDistinct(policy) ==
    /\ \A app \in Applications(policy) : IsApplicationName(app)
    /\ \A i, j \in DOMAIN policy.aliases :
          i # j => policy.aliases[i] \cap policy.aliases[j] = {}

\* Policy.__init__ does not raise.
Accepted(policy) ==
    /\ \A app \in Applications(policy) : IsApplicationName(app)
    /\ \A actor \in DOMAIN policy.accounts :
          "prod" \in policy.accounts[actor].environments
            => policy.accounts[actor].environments = {"prod"}
    /\ \A i, j \in DOMAIN policy.aliases :
          i # j => policy.aliases[i] \cap policy.aliases[j] = {}
    /\ \A i \in DOMAIN policy.aliases : \A h \in policy.aliases[i] :
          StealsNothing(policy, h, i)

\* authorize: administrators, and the account of the instance's application.
Authorized(policy, actor, i) ==
    \/ actor \in policy.administrators
    \/ /\ actor \in DOMAIN policy.accounts
       /\ policy.accounts[actor].application = i.application
       /\ i.environment \in policy.accounts[actor].environments
=============================================================================
