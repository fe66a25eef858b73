----------------------------- MODULE MCRuntimes -----------------------------
(* Small instance: two providers, each ready or short of one requirement;    *)
(* two callers, two keys and requests with and without their own fingerprint *)
(* at the agent runtime; a pool of two threads, which two runs give three    *)
(* tasks each.                                                               *)
EXTENDS Runtimes, TLC

CONSTANTS prov1, prov2, c1, c2, k1, k2

TwoProviders == {prov1, prov2}
TwoCallers == {c1, c2}
TwoKeys == {k1, k2}
SomeRequests ==
    {<<"prepare", k1, "x", "x">>, <<"cancel", k1, "x", "x">>, <<"cancel", k2, "x", "x">>,
     <<"handoff", k1, "x", "x">>}
    \cup {<<o, k1, x, c>> : o \in {"execute", "cleanup"}, x \in {"x", "y"}, c \in {"x", "y"}}
    \cup {<<o, k2, "x", "x">> : o \in {"execute", "cleanup"}}

Ready == [enabled |-> TRUE, subagents |-> TRUE, allowed |-> {"read"}, caps |-> {"read"},
          network |-> FALSE, auth |-> TRUE, command |-> TRUE]
Online == [Ready EXCEPT !.allowed = {"read", Network}, !.caps = {"read", Network},
                        !.network = TRUE]
Profiles ==
    {Ready, Online,
     [Ready EXCEPT !.enabled = FALSE], [Ready EXCEPT !.subagents = FALSE],
     [Ready EXCEPT !.auth = FALSE], [Ready EXCEPT !.command = FALSE],
     [Ready EXCEPT !.caps = {"read", "write"}], [Online EXCEPT !.network = FALSE],
     [Ready EXCEPT !.caps = {"read", "shell"}, !.allowed = {"read", "shell"}]}

Setting(kind, fallback, allow, request, fp, fq, adapter, runner, rooted) ==
    [kind |-> kind, preferred |-> <<prov1>>, fallback |-> fallback, allowFallback |-> allow,
     required |-> {"read"}, request |-> request, rooted |-> rooted,
     profile |-> [x \in TwoProviders |-> IF x = prov1 THEN fp ELSE fq],
     adapter |-> [x \in TwoProviders |-> adapter],
     runner |-> [x \in TwoProviders |-> runner]]

\* Every profile of both providers, with and without a fallback.
Routings ==
    {Setting("task", fallback, allow, {"read"}, fp, fq, "template", "plain", TRUE) :
        fallback \in {<<>>, <<prov2>>}, allow \in BOOLEAN, fp \in Profiles, fq \in Profiles}
\* Every caller, request, adapter and runner for a provider that is ready.
Callings ==
    {Setting(kind, <<>>, FALSE, request, f, Ready, adapter, runner, rooted) :
        kind \in {"task", "probe", "validation"},
        request \in {{"read"}, {"read", Network}, {"write"}}, f \in {Ready},
        adapter \in Adapters, runner \in Runners,
        rooted \in BOOLEAN}
Onlines ==
    {[s EXCEPT !.profile[prov1] = Online] : s \in {x \in Callings : x.request = {"read", Network}}}
Unconfigured ==
    {[s EXCEPT !.preferred = <<>>] : s \in {x \in Routings : x.fallback = <<>>}}

AllSetups == Routings \cup Callings \cup Onlines \cup Unconfigured
=============================================================================
