-------------------------------- MODULE Vpc --------------------------------
(***************************************************************************)
(* The conversions of the coreweave_networking_vpc resource,               *)
(* src/coreweave/networking/resource_vpc.go: from a configuration to a     *)
(* plan, to requests, and from the API's answer back to the model.         *)
(*                                                                         *)
(* A VPC model has the fields                                              *)
(*   zone           stands for name and zone                               *)
(*   host_prefix    a range; host_prefixes, a set of [type, range, ipam]   *)
(*   vpc_prefixes   a set                                                  *)
(*   ingress        ingress.disable_public_services                        *)
(*   egress         egress.disable_public_access                           *)
(*   dhcp           dhcp.dns.servers: Null without the block, Bare for     *)
(*                  dhcp = {}, NoServers for dhcp = { dns = {} }           *)
(***************************************************************************)
EXTENDS Attributes

CONSTANTS
    NoServers,
    DefaultRange     \* the host prefix the API gives a VPC without one

ASSUME VpcAssumption == IsKnown(NoServers) /\ NoServers # {}

VpcFields == {"zone", "host_prefix", "host_prefixes", "vpc_prefixes",
              "ingress", "egress", "dhcp"}

\* The model ImportStatePassthroughID leaves to the first Read.
EmptyVpc == [a \in VpcFields |-> Null]

-----------------------------------------------------------------------------
(* The plan *)

\* The default of gateway_address_policy.
PlannedHostPrefix(p) ==
    [p EXCEPT !.ipam = IF @ = Bare THEN "UNSPECIFIED" ELSE @]

PlannedHostPrefixes(prefixes) ==
    IF prefixes = Null THEN Null ELSE {PlannedHostPrefix(p) : p \in prefixes}

\* What the schema's defaults and UseStateForUnknown make of a configuration.
VpcPlan(prior, config) ==
    [config EXCEPT
        !.host_prefix   = UseStateForUnknown(@, prior.host_prefix),
        !.host_prefixes = UseStateForUnknown(PlannedHostPrefixes(@),
                                             prior.host_prefixes),
        !.ingress       = IF @ = Null THEN FALSE ELSE @,
        !.egress        = IF @ = Null THEN FALSE ELSE @]

\* Mutant of VpcNeedsReplace: a change of the zone is planned in place.
MutZoneInPlace(prior, config) ==
    \/ config.host_prefix \notin {Null, prior.host_prefix}
    \/ PlannedHostPrefixes(config.host_prefixes)
          \notin {Null, prior.host_prefixes}

\* RequiresReplace, and RequiresReplaceIfConfigured of the host prefixes.
VpcNeedsReplace(prior, config) ==
    \/ config.zone # prior.zone
    \/ config.host_prefix \notin {Null, prior.host_prefix}
    \/ PlannedHostPrefixes(config.host_prefixes)
          \notin {Null, prior.host_prefixes}

-----------------------------------------------------------------------------
(* The requests *)

HostPrefixTypes == {"PRIMARY", "ROUTED", "ATTACHED"}
GatewayPolicies == {"UNSPECIFIED", "EUI64", "FIRST_IP", "LAST_IP"}

\* HostPrefix.ToProto and IPAM.ToProto answer a diagnostic for a name the
\* API's enumerations do not have; the schema lets any name through.
HostPrefixValid(p) ==
    p.type \in HostPrefixTypes /\ p.ipam \in GatewayPolicies \cup {Null}

\* A plan that never becomes a request: an error, or a nil dereference of
\* v.Dhcp.Dns in GetDhcp.
VpcPlanInvalid(plan) ==
    plan.host_prefixes \notin {Null, Unknown}
       /\ \E p \in plan.host_prefixes : ~HostPrefixValid(p)
VpcPlanPanics(plan) == plan.dhcp = Bare

\* GetDhcp: servers that are null or empty make an empty list.
GetDhcp(plan) ==
    IF plan.dhcp = Null THEN Null
    ELSE IF plan.dhcp = NoServers THEN {} ELSE plan.dhcp

\* ToUpdateRequest.
VpcUpdateRequest(plan) ==
    [vpc_prefixes |-> OrZero(plan.vpc_prefixes, {}),
     ingress      |-> OrZero(plan.ingress, FALSE),
     egress       |-> OrZero(plan.egress, FALSE),
     dhcp         |-> GetDhcp(plan)]

\* ToCreateRequest: hostPrefixes is nil when the attribute is null or unknown.
VpcCreateRequest(plan) ==
    [zone          |-> plan.zone,
     host_prefix   |-> OrZero(plan.host_prefix, ""),
     host_prefixes |-> OrZero(plan.host_prefixes, {}),
     vpc_prefixes  |-> OrZero(plan.vpc_prefixes, {}),
     ingress       |-> OrZero(plan.ingress, FALSE),
     egress        |-> OrZero(plan.egress, FALSE),
     dhcp          |-> GetDhcp(plan)]

-----------------------------------------------------------------------------
(* The API (external): what a request makes of a VPC *)

VpcCreated(request) ==
    LET primary == {p \in request.host_prefixes : p.type = "PRIMARY"}
        range == IF request.host_prefix # "" THEN request.host_prefix
                 ELSE IF primary = {} THEN DefaultRange
                 ELSE (CHOOSE p \in primary : TRUE).range
    IN [request EXCEPT
          !.host_prefix = range,
          !.host_prefixes =
             IF @ # {} THEN @
             ELSE {[type |-> "PRIMARY", range |-> range, ipam |-> Null]}]

VpcUpdated(vpc, request) ==
    [a \in DOMAIN vpc |-> IF a \in DOMAIN request THEN request[a] ELSE vpc[a]]

-----------------------------------------------------------------------------
(* The answer *)

\* Mutant of DhcpSet: servers the API no longer has stay in the model.
MutDhcpKept(model, dhcp) == IF dhcp \in {Null, {}} THEN model ELSE dhcp

\* Dhcp.Set and IsEmpty: an answer without servers removes the block.
DhcpSet(model, dhcp) == IF dhcp \in {Null, {}} THEN Null ELSE dhcp

\* VpcResourceModel.Set, with the Set of its parts.  Prefixes that the API
\* no longer has stay in the model.
VpcSet(model, vpc) ==
    [zone          |-> vpc.zone,
     host_prefix   |-> vpc.host_prefix,
     host_prefixes |-> IF vpc.host_prefixes = {} THEN Null
                       ELSE vpc.host_prefixes,
     vpc_prefixes  |-> IF vpc.vpc_prefixes = {} THEN model.vpc_prefixes
                       ELSE vpc.vpc_prefixes,
     ingress       |-> IF vpc.ingress = Null THEN model.ingress
                       ELSE vpc.ingress,
     egress        |-> IF vpc.egress = Null THEN FALSE ELSE vpc.egress,
     dhcp          |-> DhcpSet(model.dhcp, vpc.dhcp)]

-----------------------------------------------------------------------------
(* For the properties *)

\* What the schema lets through: a zone, a set of host prefixes that is not
\* empty, any value of the others.
VpcWellFormed(c) ==
    /\ c = [zone |-> c.zone, host_prefix |-> c.host_prefix,
            host_prefixes |-> c.host_prefixes,
            vpc_prefixes |-> c.vpc_prefixes, ingress |-> c.ingress,
            egress |-> c.egress, dhcp |-> c.dhcp]
    /\ IsKnown(c.zone)
    /\ IsOptional(c.host_prefix) /\ IsOptional(c.vpc_prefixes)
    /\ c.host_prefixes # Null
          => LET prefixes == PlannedHostPrefixes(c.host_prefixes)
             IN IsKnown(prefixes) /\ prefixes # {}
    /\ c.ingress \in {Null, Bare} \cup BOOLEAN
    /\ c.egress \in {Null, Bare} \cup BOOLEAN
    /\ c.dhcp # Unknown

\* The VPC is as the configuration asks, attribute by attribute.
VpcAsAsked(config, vpc) ==
    /\ vpc.zone = config.zone
    /\ config.host_prefix # Null => vpc.host_prefix = config.host_prefix
    /\ config.host_prefixes # Null
          => vpc.host_prefixes = PlannedHostPrefixes(config.host_prefixes)
    /\ vpc.ingress = OrZero(config.ingress, FALSE)
    /\ vpc.egress = OrZero(config.egress, FALSE)
    /\ OrZero(vpc.dhcp, {}) = IF config.dhcp \in {Null, Bare, NoServers}
                              THEN {} ELSE config.dhcp

\* Configurations that the conversions do not carry there and back.
VpcLossy(config) ==
    \/ config.host_prefix = ""
    \/ config.ingress = Bare
    \/ config.egress = Bare
    \/ config.dhcp \in {Bare, NoServers, {}}
    \/ VpcPlanInvalid([config EXCEPT !.host_prefixes = PlannedHostPrefixes(@)])
=============================================================================
