-------------------------- MODULE MCManagedObject --------------------------
(* Values for ManagedObject's constants: for each kind a configuration, and *)
(* others that differ from it in an attribute or two, such that every case  *)
(* that the conversions tell apart is in one.                               *)
EXTENDS ManagedObject, TLC

Vary(base, changes) == {base} \cup {change @@ base : change \in changes}

Prefix(type, ipam) == {[type |-> type, range |-> "range1", ipam |-> ipam]}

Oidc(claim, algs) == [issuer |-> "issuer1", claim |-> claim, algs |-> algs]
Webhook(server, ca) == [server |-> server, ca |-> ca]

ClusterConfigs ==
    Vary([name |-> "name1", shared_storage |-> Null, public |-> Null,
          version |-> "v1", lb_names |-> <<"lb1">>, node_ports |-> Null,
          audit_policy |-> Null, oidc |-> Null, webhook |-> Null,
          tailscale |-> Null],
         {[shared_storage |-> "cluster1"], [version |-> "v2", public |-> TRUE],
          [node_ports |-> <<2, 4>>, lb_names |-> <<"lb1", "lb2">>],
          [node_ports |-> <<1, 5>>, audit_policy |-> "policy1"],
          [node_ports |-> NoPorts], [audit_policy |-> ""],
          [oidc |-> Oidc(Null, Null)], [oidc |-> Oidc("", {})],
          [oidc |-> Oidc("claim1", {"RS256"}), tailscale |-> "client1"],
          [oidc |-> Oidc(Null, {"ES256"})],
          [webhook |-> Webhook("server1", Null)],
          [webhook |-> Webhook("server1", "ca1")],
          [webhook |-> Webhook("", Null)]})

VpcConfigs ==
    Vary([zone |-> "zone1", host_prefix |-> Null, host_prefixes |-> Null,
          vpc_prefixes |-> {"p1"}, ingress |-> Null, egress |-> Null,
          dhcp |-> Null],
         {[zone |-> "zone2"], [host_prefix |-> "range1"], [host_prefix |-> ""],
          [host_prefixes |-> Prefix("PRIMARY", Bare)],
          [host_prefixes |-> Prefix("OTHER", Null)],
          [vpc_prefixes |-> Null], [ingress |-> TRUE, egress |-> TRUE],
          [ingress |-> Bare], [dhcp |-> {"server1"}], [dhcp |-> Bare],
          [dhcp |-> NoServers]})

DeploymentConfigs ==
    Vary([name |-> "name1", target |-> "model1", engine |-> "engine1",
          version |-> Null, engine_config |-> Null, min |-> 1, max |-> 1,
          priority |-> Null, concurrency |-> Null, capacity_classes |-> Null,
          disabled |-> Null, weight |-> Null],
         {[name |-> "name2"], [engine |-> "engine2"], [engine_config |-> {}],
          [version |-> "1.0.0", engine_config |-> {"key1"}],
          [min |-> Modulus + 1], [max |-> Modulus + 1],
          [priority |-> 5, concurrency |-> 2], [concurrency |-> Modulus],
          [capacity_classes |-> <<"RESERVED">>, disabled |-> TRUE],
          [weight |-> Bare], [weight |-> 3]})

GatewayConfigs ==
    Vary([name |-> "name1", zones |-> "zone1", routing |-> "path_based",
          auth |-> "weights_and_biases", server_url |-> Null,
          enable_usage_reports |-> Null, additional_dns |-> Null],
         {[name |-> "name2"], [auth |-> "coreweave", routing |-> "header_based"],
          [server_url |-> ""], [server_url |-> "url1"],
          [enable_usage_reports |-> FALSE], [enable_usage_reports |-> TRUE],
          [additional_dns |-> Bare], [additional_dns |-> {}],
          [additional_dns |-> {"record1"}]})

ClaimConfigs ==
    Vary([name |-> "name1", resources |-> "type1", instance_count |-> 1],
         {[resources |-> "type2"], [instance_count |-> 2],
          [instance_count |-> Modulus + 1]})

AllConfigs == [k \in AllKinds |-> CASE k = "cluster" -> ClusterConfigs
                                    [] k = "vpc" -> VpcConfigs
                                    [] k = "deployment" -> DeploymentConfigs
                                    [] k = "gateway" -> GatewayConfigs
                                    [] k = "claim" -> ClaimConfigs]

ApiPorts == <<2, 4>>
AdvertisedEngines == {{"engine1"}, {}}
=============================================================================
