------------------------------ MODULE Cluster ------------------------------
(***************************************************************************)
(* The conversions of the coreweave_cks_cluster resource, attribute by     *)
(* attribute, src/coreweave/cks/resource_cluster.go.  (ClusterResource     *)
(* has its handlers in more detail, and three attributes of no name.)      *)
(*                                                                         *)
(* A cluster model has the fields                                          *)
(*   name            stands for what is copied and forces a replacement:   *)
(*                   name, zone, vpc_id and the CIDR names                 *)
(*   shared_storage  shared_storage_cluster_id, which is never answered    *)
(*   public, version                                                       *)
(*   lb_names        internal_lb_cidr_names, a sequence                    *)
(*   node_ports      node_port_range, <<start, end>>                       *)
(*   audit_policy    (additional_server_sans is alike)                     *)
(*   oidc            [issuer, claim, algs], where claim stands for the     *)
(*                   optional strings and issuer for the required ones     *)
(*   webhook         [server, ca] of authn_webhook (authz_webhook alike)   *)
(*   tailscale       (kubelet alike)                                       *)
(* and api_server_endpoint is one with the status.                         *)
(***************************************************************************)
EXTENDS Attributes

CONSTANT DefaultPorts   \* the range the API gives a cluster without one

\* The model ImportStatePassthroughID leaves to the first Read.
EmptyCluster ==
    [name |-> Null, shared_storage |-> Null, public |-> Null,
     version |-> Null, lb_names |-> Null, node_ports |-> Null,
     audit_policy |-> Null, oidc |-> Null, webhook |-> Null,
     tailscale |-> Null]

Immutable == {"name", "shared_storage"}
NoPorts == <<0, 0>>

ASSUME PortsAssumption == IsKnown(NoPorts)

\* The blocks oidc and authn_webhook.
Oidcs == [issuer : STRING, claim : {Null, ""} \cup STRING,
          algs : {Null} \cup SUBSET STRING]
Webhooks == [server : STRING, ca : {Null, ""} \cup STRING]

ASSUME BlockAssumption == /\ {Null, Unknown} \cap (Oidcs \cup Webhooks) = {}
                          /\ IsKnown({"RS256"})

-----------------------------------------------------------------------------
(* The plan *)

ClusterPlan(prior, config) ==
    [config EXCEPT
        !.public     = IF @ = Null THEN FALSE ELSE @,
        !.node_ports = UseStateForUnknown(@, prior.node_ports)]

\* requireReplaceIfInternalLbCidrNames: the names are append-only.
NamesRemoved(prior, config) ==
    \E i \in DOMAIN prior.lb_names :
        \A j \in DOMAIN config.lb_names : prior.lb_names[i] # config.lb_names[j]

\* requireReplaceIfNodePortRangeShrink.
PortsShrink(prior, config) ==
    /\ IsKnown(prior.node_ports) /\ IsKnown(config.node_ports)
    /\ \/ config.node_ports[1] > prior.node_ports[1]
       \/ config.node_ports[2] < prior.node_ports[2]

\* RequiresReplace and the two conditions (the third, on the status, never
\* applies: see ClusterResource).
ClusterNeedsReplace(prior, config) ==
    \/ \E a \in Immutable : config[a] # prior[a]
    \/ NamesRemoved(prior, config)
    \/ PortsShrink(prior, config)

-----------------------------------------------------------------------------
(* The requests *)

\* NodePorts: "Treat zero/zero as empty".
NodePorts(plan) ==
    IF IsKnown(plan.node_ports) /\ plan.node_ports # NoPorts
    THEN plan.node_ports ELSE Null

\* oidcSigningAlgs drops, without an error, every algorithm but RS256.
SigningAlgs(oidc) == OrZero(oidc.algs, {}) \cap {"RS256"}

OidcRequest(oidc) ==
    IF oidc = Null THEN Null
    ELSE [issuer |-> oidc.issuer, claim |-> OrZero(oidc.claim, ""),
          algs |-> SigningAlgs(oidc)]

WebhookRequest(webhook) ==
    IF webhook = Null THEN Null ELSE [webhook EXCEPT !.ca = OrZero(@, "")]

\* ToCreateRequest.
ClusterCreateRequest(plan) ==
    [name           |-> plan.name,
     shared_storage |-> OrZero(plan.shared_storage, ""),
     public         |-> plan.public,
     version        |-> plan.version,
     lb_names       |-> plan.lb_names,
     node_ports     |-> NodePorts(plan),
     audit_policy   |-> OrZero(plan.audit_policy, ""),
     oidc           |-> OidcRequest(plan.oidc),
     webhook        |-> WebhookRequest(plan.webhook),
     tailscale      |-> OrZero(plan.tailscale, "")]

\* What buildUpdateRequest puts into the mask: what differs between plan and
\* state, the names and the ports together.
ChangedFields(plan, state) ==
    LET changed == {a \in DOMAIN plan \ Immutable : plan[a] # state[a]}
        network == {"lb_names", "node_ports"}
    IN changed \cup IF changed \cap network # {} THEN network ELSE {}

\* buildUpdateRequest: the fields are built as for a create.
ClusterUpdateRequest(plan, state) ==
    [a \in ChangedFields(plan, state) |-> ClusterCreateRequest(plan)[a]]

-----------------------------------------------------------------------------
(* The API (external).  "The CKS API validates field presence on the raw    *)
(* request (e.g. rejecting non-nil network config during a version          *)
(* upgrade)": resource_cluster.go:609.                                      *)

ClusterCreated(request) ==
    [request EXCEPT !.node_ports = IF @ = Null THEN DefaultPorts ELSE @]

ClusterRefuses(request) == {"version", "lb_names"} \subseteq DOMAIN request

\* "This field is append-only", "can be expanded in existing clusters but not
\* shrunk" (the schema's descriptions).
ClusterGrows(cluster, request) ==
    "lb_names" \in DOMAIN request
       => ~NamesRemoved(cluster, request) /\ ~PortsShrink(cluster, request)

ClusterUpdated(cluster, request) ==
    [a \in DOMAIN cluster |->
       IF a \notin DOMAIN request \/ (a = "node_ports" /\ request[a] = Null)
       THEN cluster[a] ELSE request[a]]

-----------------------------------------------------------------------------
(* The answer *)

NoOidc == [issuer |-> "", claim |-> "", algs |-> {}]
NoWebhook == [server |-> "", ca |-> ""]

\* OidcResourceModel.Set, over the model's block or, without one, nulls.
OidcSet(model, oidc) ==
    LET old == IF model = Null THEN [issuer |-> Null, claim |-> Null, algs |-> Null]
               ELSE model
    IN IF oidc \in {Null, NoOidc} THEN Null
       ELSE [issuer |-> oidc.issuer,
             claim  |-> PreservingNull(old.claim, oidc.claim, ""),
             algs   |-> PreservingNull(old.algs, oidc.algs, {})]

\* A webhook the model does not have is not taken over.
WebhookSet(model, webhook) ==
    IF model = Null \/ webhook \in {Null, NoWebhook} THEN Null
    ELSE [server |-> webhook.server,
          ca     |-> PreservingNull(model.ca, webhook.ca, "")]

\* ClusterResourceModel.Set, without id and status.
ClusterSet(model, cluster) ==
    [name           |-> cluster.name,
     shared_storage |-> model.shared_storage,
     public         |-> cluster.public,
     version        |-> cluster.version,
     lb_names       |-> cluster.lb_names,
     node_ports     |-> IF cluster.node_ports = NoPorts THEN Null
                        ELSE cluster.node_ports,
     audit_policy   |-> PreservingNull(model.audit_policy,
                                       cluster.audit_policy, ""),
     oidc           |-> OidcSet(model.oidc, cluster.oidc),
     webhook        |-> WebhookSet(model.webhook, cluster.webhook),
     tailscale      |-> IF cluster.tailscale = "" THEN Null
                        ELSE cluster.tailscale]

-----------------------------------------------------------------------------
(* For the properties *)

\* What the schema lets through: the required attributes are given, and a
\* tailscale is not empty.
ClusterWellFormed(c) ==
    /\ c = [name |-> c.name, shared_storage |-> c.shared_storage,
            public |-> c.public, version |-> c.version,
            lb_names |-> c.lb_names, node_ports |-> c.node_ports,
            audit_policy |-> c.audit_policy, oidc |-> c.oidc,
            webhook |-> c.webhook, tailscale |-> c.tailscale]
    /\ IsKnown(c.name) /\ IsKnown(c.version) /\ IsKnown(c.lb_names)
    /\ \A a \in {"shared_storage", "node_ports", "audit_policy", "tailscale"} :
          IsOptional(c[a])
    /\ c.public \in {Null} \cup BOOLEAN
    /\ c.oidc \in {Null} \cup Oidcs
    /\ c.oidc # Null => IsOptional(c.oidc.claim) /\ IsOptional(c.oidc.algs)
    /\ c.webhook \in {Null} \cup Webhooks
    /\ c.webhook # Null => IsOptional(c.webhook.ca)
    /\ c.tailscale # ""

\* The cluster is as the configuration asks, attribute by attribute.  What is
\* not seen is not compared: a webhook or a shared storage nobody asked for.
ClusterAsAsked(config, c) ==
    /\ c.name = config.name
    /\ config.shared_storage # Null => c.shared_storage = config.shared_storage
    /\ c.public = OrZero(config.public, FALSE)
    /\ c.version = config.version
    /\ c.lb_names = config.lb_names
    /\ config.node_ports # Null => c.node_ports = config.node_ports
    /\ c.audit_policy = OrZero(config.audit_policy, "")
    /\ IF config.oidc = Null THEN c.oidc \in {Null, NoOidc}
       ELSE c.oidc = [issuer |-> config.oidc.issuer,
                      claim  |-> OrZero(config.oidc.claim, ""),
                      algs   |-> OrZero(config.oidc.algs, {})]
    /\ config.webhook # Null => c.webhook = WebhookRequest(config.webhook)
    /\ c.tailscale = OrZero(config.tailscale, "")

\* Configurations that the conversions do not carry there and back.
ClusterLossy(config) ==
    \/ config.node_ports = NoPorts
    \/ config.oidc # Null
          /\ \/ OrZero(config.oidc.algs, {}) # SigningAlgs(config.oidc)
             \/ OidcRequest(config.oidc) = NoOidc
    \/ config.webhook # Null /\ WebhookRequest(config.webhook) = NoWebhook
=============================================================================
