------------------------------ MODULE MC_Console ------------------------------
EXTENDS Console

\* The release and the short names of a demo shop.
MCRelease == "demo-"

Image(host, repo, digest) == [host |-> host, repo |-> repo, tag |-> "1.0", digest |-> digest]

Checkout == <<"demo-", "checkout", "service">>
Cart == <<"demo-", "cart">>
Valkey == <<"demo-", "valkey", "cart">>

Deployment(name, label) ==
    [name |-> name, labels |-> {label}, revision |-> 1, images |-> {name}, desired |-> 1, ready |-> 1]

Pod(deploy, label, refs, image, state) ==
    [name |-> deploy \o <<"hash", "x">>, rs |-> deploy \o <<"hash">>, node |-> <<"n1">>,
     phase |-> "Running", labels |-> {label}, refs |-> refs,
     containers |-> {[name |-> "main", image |-> image, state |-> state]}]

Ref(how, kind, name) == [how |-> how, kind |-> kind, name |-> name]

Cluster(settings, creds, cartState) ==
    [nodes |-> {[name |-> <<"n1">>, ready |-> TRUE]},
     deployments |-> {Deployment(Checkout, "checkout"), Deployment(Cart, "cart"), Deployment(Valkey, "valkey")},
     replicasets |-> {[name |-> d \o <<"hash">>, deploy |-> d] : d \in {Checkout, Cart, Valkey}},
     pods |-> {Pod(Checkout, "checkout",
                   {Ref("envFrom", "cm", <<"settings">>), Ref("valueFrom", "secret", <<"creds">>)},
                   Image("docker.io", "checkout", "sha"), "ready"),
               Pod(Cart, "cart",
                   {Ref("volume", "cm", <<"settings">>), Ref("volume", "secret", <<"creds">>)},
                   Image("ghcr", "cart", ""), cartState),
               Pod(Valkey, "valkey", {}, Image("", "valkey", ""), "ready")},
     services |-> {[name |-> <<"checkout">>, selector |-> {"checkout"}],
                   [name |-> <<"cart">>, selector |-> {"cart"}],
                   [name |-> <<"headless">>, selector |-> {}]},
     configmaps |-> {[name |-> <<"settings">>, data |-> [level |-> settings]],
                     [name |-> <<"flagd-config">>, data |-> [flags |-> 1]]},
     secrets |-> {[name |-> <<"creds">>, data |-> [key |-> creds]]}]

Sample(query, target, name, value) ==
    [query |-> query, target |-> target, name |-> name, value |-> value]

Quiet ==
    [cluster |-> Cluster(1, 1, "ready"), unanswered |-> {},
     \* A span of checkout, which is "checkoutservice" in the cluster, calls one of
     \* "cartservice", which is cart there and calls itself; cart's traces are asked
     \* for too, so that the call is counted twice.
     traces |-> {[spans |-> [a |-> <<"checkout">>, b |-> <<"cart", "service">>, c |-> <<"cart", "service">>],
                  references |-> {[parent |-> "a", child |-> "b"], [parent |-> "b", child |-> "c"]}]},
     answered |-> {<<"checkout">>, <<"cart", "service">>},
     tree |-> ("root" :> [name |-> "root", files |-> <<>>, dirs |-> {"shop"}]
               @@ "shop" :> [name |-> "shop",
                     files |-> ("Dockerfile" :> <<[word |-> "from", image |-> Image("", "checkout", "")],
                                                  [word |-> "run"]>>
                                @@ "package.json" :> {[section |-> "dependencies", name |-> "express", version |-> "4"]}),
                     dirs |-> {}]),
     roots |-> {"root"},
     samples |-> {Sample("span_error_rate_pct", "service", <<"cart">>, 0)},
     events |-> {}, flags |-> [fault |-> "off"], alerts |-> {}]

NoLabels == [pod |-> <<>>, deployment |-> <<>>, service |-> <<>>, node |-> <<>>]

Event(uid, kind, name, type, reason, at) ==
    [uid |-> uid, kind |-> kind, name |-> name, type |-> type, reason |-> reason, at |-> at]

\* The settings change, and cart fails on them: an event of its ReplicaSet, one
\* of its pod, errors, and two alerts, one of them with a fraction of a second.
Broken ==
    [Quiet EXCEPT
        !.cluster = Cluster(2, 1, "crashloop"),
        !.samples = {Sample("span_error_rate_pct", "service", <<"cart">>, 5),
                     Sample("span_p99_ms", "service", <<"cart">>, 400),
                     Sample("span_error_rate_pct", "pod", Cart \o <<"hash", "x">>, 1),
                     Sample("span_p99_ms", "pod", Checkout \o <<"hash", "x">>, 300)},
        !.events = {Event("u1", "ReplicaSet", Cart \o <<"hash">>, "Warning", "FailedCreate", 6),
                    Event("u2", "Deployment", Cart, "Normal", "ScalingReplicaSet", 6)},
        !.alerts = {[fingerprint |-> "f1", state |-> "active", severity |-> "critical", starts_at |-> 6,
                     labels |-> [NoLabels EXCEPT !.deployment = Cart]],
                    [fingerprint |-> "f2", state |-> "active", severity |-> "info", starts_at |-> 5,
                     labels |-> [NoLabels EXCEPT !.service = <<"cart">>]]}]

\* The secret is rotated and the flag switched while ReplicaSets are not answered.
Partial ==
    [Quiet EXCEPT !.cluster = Cluster(1, 2, "ready"), !.unanswered = {"replicasets"},
                  !.flags = [fault |-> "on"]]

MCWorlds == {Quiet, Broken, Partial}

\* Some order of the ids.
MCRidLess(a, b) ==
    LET order == SetToSeq(ImageIds)
        Place(r) == CHOOSE i \in DOMAIN order : order[i] = r
    IN Place(a) < Place(b)

\* Among them are changes that lie in the window of neither command, and in that
\* of one alone.
MCRequests ==
    {[change_type |-> "image_pushed", target |-> <<"deploy", Cart>>, source |-> "manual", at |-> -4],
     [change_type |-> "configmap_updated", target |-> <<"cm", <<"settings">>>>, source |-> "gitops", at |-> 2],
     [change_type |-> "restarted", target |-> <<"deploy", Cart>>, source |-> "manual", at |-> 0]}

MCAlertRequests == {[ref |-> <<"pod", Cart \o <<"hash", "x">>>>, severity |-> "critical", at |-> 0]}
===============================================================================
