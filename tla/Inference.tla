----------------------------- MODULE Inference -----------------------------
(***************************************************************************)
(* The conversions of the inference resources in src/coreweave/inference:  *)
(* deployment, gateway and capacity claim.                                 *)
(*                                                                         *)
(* A deployment model has the fields                                       *)
(*   name, target     target stands for the required attributes that are   *)
(*                    copied: gateway_ids, resources, model                *)
(*   engine, version, engine_config    of runtime (engine_env alike)       *)
(*   min, max, priority, concurrency, capacity_classes   of autoscaling    *)
(*   disabled                                                              *)
(*   weight           of traffic; Bare for traffic = {}                    *)
(* a gateway model                                                         *)
(*   name, zones, routing                                                  *)
(*   auth             "coreweave" or "weights_and_biases", the latter with *)
(*   server_url, enable_usage_reports  (api_key, enable_rate_limiting      *)
(*                    alike)                                               *)
(*   additional_dns   of endpoint_configuration; Bare without it           *)
(* and a capacity claim                                                    *)
(*   name, resources  instance_type, capacity_type and zones               *)
(*   instance_count                                                        *)
(* The observed attributes (status, updated_at, conditions, the claim's    *)
(* allocated_instances and pending_instances) are one: status.             *)
(***************************************************************************)
EXTENDS Attributes

CONSTANT LatestVersion  \* of an engine, which the API fills in

ASSUME VersionAssumption == IsKnown(LatestVersion) /\ LatestVersion # ""

-----------------------------------------------------------------------------
(* Deployment *)

\* ensureDeploymentNested: the model an import leaves to the first Read.
EmptyDeployment ==
    [name |-> Null, target |-> Null, engine |-> Null, version |-> Null,
     engine_config |-> Null, min |-> Null, max |-> Null, priority |-> Null,
     concurrency |-> Null, capacity_classes |-> Null, disabled |-> Null,
     weight |-> Null]

\* The schema: version and weight keep their prior value when the
\* configuration does not give them, but a missing traffic block is weight 0.
DeploymentPlan(prior, config) ==
    [config EXCEPT
        !.version  = UseStateForUnknown(@, prior.version),
        !.disabled = IF @ = Null THEN FALSE ELSE @,
        !.weight   = IF @ = Null THEN 0 ELSE UseStateForUnknown(@, prior.weight)]

\* ModifyPlan and validateEngineAvailable: an engine that the API does not
\* advertise makes every plan but a destroy an error.
EngineAvailable(advertised, config) ==
    advertised = {} \/ config.engine \in advertised

\* buildDeploymentFields, the body of both requests.
DeploymentRequest(plan) ==
    [name             |-> plan.name,
     target           |-> plan.target,
     engine           |-> plan.engine,
     version          |-> OrZero(plan.version, ""),
     engine_config    |-> OrZero(plan.engine_config, {}),
     min              |-> Uint32(plan.min),
     max              |-> Uint32(plan.max),
     priority         |-> Uint32(OrZero(plan.priority, 0)),
     concurrency      |-> Uint32(OrZero(plan.concurrency, 0)),
     capacity_classes |-> OrZero(plan.capacity_classes, <<>>),
     disabled         |-> plan.disabled,
     weight           |-> Uint32(OrZero(plan.weight, 0))]

\* stringMapFromProtoPreservingNull and setRuntimeFromDeployment.
RuntimeSet(model, d) ==
    [engine        |-> d.engine,
     version       |-> IF model.version \in {Null, Unknown} /\ d.version = ""
                       THEN Null ELSE d.version,
     engine_config |-> PreservingNull(model.engine_config, d.engine_config, {})]

\* setFromDeployment, without the observed attributes.
DeploymentSet(model, d) ==
    LET runtime == RuntimeSet(model, d)
    IN [name             |-> d.name,
        target           |-> d.target,
        engine           |-> runtime.engine,
        version          |-> runtime.version,
        engine_config    |-> runtime.engine_config,
        min              |-> d.min,
        max              |-> d.max,
        priority         |-> PreservingNull(model.priority, d.priority, 0),
        concurrency      |-> PreservingNull(model.concurrency, d.concurrency, 0),
        capacity_classes |-> PreservingNull(model.capacity_classes,
                                            d.capacity_classes, <<>>),
        disabled         |-> d.disabled,
        weight           |-> d.weight]

\* The API (external): a request replaces the deployment.
DeploymentStored(request) ==
    [request EXCEPT !.version = IF @ = "" THEN LatestVersion ELSE @]

-----------------------------------------------------------------------------
(* Gateway *)

EmptyGateway ==
    [name |-> Null, zones |-> Null, routing |-> Null, auth |-> Null,
     server_url |-> Null, enable_usage_reports |-> Null,
     additional_dns |-> Null]

\* The first part of buildGatewayFields: an EndpointConfiguration only when
\* additional_dns is given.
EndpointRequest(plan) ==
    IF IsKnown(plan.additional_dns) THEN plan.additional_dns ELSE Null

\* toCreateGatewayRequest and toUpdateGatewayRequest build the same fields.
\* Null attributes of weights_and_biases are not set.
GatewayCreateRequest(plan) ==
    [name       |-> plan.name,
     zones      |-> plan.zones,
     routing    |-> plan.routing,
     auth       |-> plan.auth,
     server_url |-> OrZero(plan.server_url, ""),
     enable_usage_reports |-> OrZero(plan.enable_usage_reports, FALSE),
     additional_dns       |-> EndpointRequest(plan)]

GatewayUpdateRequest(plan) == GatewayCreateRequest(plan)

\* The fields of weights_and_biases: null is preserved only if the model has
\* the block.
WeightsAndBiasesSet(model, got, field, zero) ==
    IF got.auth = "coreweave" THEN Null
    ELSE IF model.auth = "weights_and_biases"
         THEN PreservingNull(model[field], got[field], zero)
         ELSE got[field]

\* endpoint_configuration: the block is kept if the model has it.
EndpointSet(model, got) ==
    IF got.additional_dns # {} THEN got.additional_dns
    ELSE IF model.additional_dns = Null THEN Null ELSE Bare

\* setFromGateway, without the observed attributes.
GatewaySet(model, got) ==
    [name       |-> got.name,
     zones      |-> got.zones,
     routing    |-> got.routing,
     auth       |-> got.auth,
     server_url |-> WeightsAndBiasesSet(model, got, "server_url", ""),
     enable_usage_reports |->
        WeightsAndBiasesSet(model, got, "enable_usage_reports", FALSE),
     additional_dns |-> EndpointSet(model, got)]

\* The API (external): "the API merges DNS records rather than replacing
\* them" (resource_inference_gateway.go:569).
GatewayStored(request, dns) ==
    [request EXCEPT !.additional_dns =
        IF @ = Null THEN dns ELSE @ \cup dns]

-----------------------------------------------------------------------------
(* Capacity claim *)

EmptyClaim == [name |-> Null, resources |-> Null, instance_count |-> Null]

\* buildCapacityClaimFields; the update does not send the name.
ClaimRequest(plan) ==
    [name           |-> plan.name,
     resources      |-> plan.resources,
     instance_count |-> Uint32(plan.instance_count)]

\* The API (external): the name and the resources of a claim stay.
ClaimUpdated(claim, request) ==
    [claim EXCEPT !.instance_count = request.instance_count]

\* setFromCapacityClaim, without the observed attributes.
ClaimSet(model, claim) ==
    [name           |-> claim.name,
     resources      |-> claim.resources,
     instance_count |-> claim.instance_count]

-----------------------------------------------------------------------------
(* For the properties *)

\* What the schemas let through: required attributes are given; a version is a
\* version; priority and weight are at most 1000, the other numbers have no
\* maximum; a gateway has one kind of auth, and only weights_and_biases has a
\* server_url and enable_usage_reports.
DeploymentWellFormed(c) ==
    /\ c = [name |-> c.name, target |-> c.target, engine |-> c.engine,
            version |-> c.version, engine_config |-> c.engine_config,
            min |-> c.min, max |-> c.max, priority |-> c.priority,
            concurrency |-> c.concurrency,
            capacity_classes |-> c.capacity_classes,
            disabled |-> c.disabled, weight |-> c.weight]
    /\ IsKnown(c.name) /\ IsKnown(c.target) /\ IsKnown(c.engine)
    /\ IsOptional(c.version) /\ c.version # ""
    /\ IsOptional(c.engine_config) /\ IsOptional(c.capacity_classes)
    /\ c.min \in Int /\ c.max \in Int
    /\ c.priority \in {Null} \cup 0..1000
    /\ c.concurrency \in {Null} \cup Int
    /\ c.disabled \in {Null} \cup BOOLEAN
    /\ c.weight \in {Null, Bare} \cup 0..1000

GatewayWellFormed(c) ==
    /\ c = [name |-> c.name, zones |-> c.zones, routing |-> c.routing,
            auth |-> c.auth, server_url |-> c.server_url,
            enable_usage_reports |-> c.enable_usage_reports,
            additional_dns |-> c.additional_dns]
    /\ \A a \in {"name", "zones", "routing", "auth"} : IsKnown(c[a])
    /\ c.auth \in {"coreweave", "weights_and_biases"}
    /\ IsOptional(c.server_url)
    /\ c.enable_usage_reports \in {Null} \cup BOOLEAN
    /\ c.auth = "coreweave"
          => c.server_url = Null /\ c.enable_usage_reports = Null
    /\ c.additional_dns # Unknown

ClaimWellFormed(c) ==
    /\ c = [name |-> c.name, resources |-> c.resources,
            instance_count |-> c.instance_count]
    /\ IsKnown(c.name) /\ IsKnown(c.resources) /\ c.instance_count \in Int

DeploymentAsAsked(config, d) ==
    /\ d.name = config.name /\ d.target = config.target
    /\ d.engine = config.engine
    /\ config.version # Null => d.version = config.version
    /\ d.engine_config = OrZero(config.engine_config, {})
    /\ d.min = config.min /\ d.max = config.max
    /\ d.priority = OrZero(config.priority, 0)
    /\ d.concurrency = OrZero(config.concurrency, 0)
    /\ d.capacity_classes = OrZero(config.capacity_classes, <<>>)
    /\ d.disabled = OrZero(config.disabled, FALSE)
    /\ config.weight # Bare => d.weight = OrZero(config.weight, 0)

GatewayAsAsked(config, got) ==
    /\ \A a \in {"name", "zones", "routing", "auth"} : got[a] = config[a]
    /\ got.server_url = OrZero(config.server_url, "")
    /\ got.enable_usage_reports = OrZero(config.enable_usage_reports, FALSE)
    /\ got.additional_dns = OrZero(config.additional_dns, {})

ClaimAsAsked(config, claim) == claim = config

\* Configurations that the conversions do not carry there and back: numbers
\* beyond uint32 (the schemas give no maximum), and an empty set of records.
DeploymentLossy(config) ==
    \E n \in {config.min, config.max, OrZero(config.concurrency, 0)} :
       n # Uint32(n)
GatewayLossy(config) == config.additional_dns = {}
ClaimLossy(config) == config.instance_count # Uint32(config.instance_count)
=============================================================================
