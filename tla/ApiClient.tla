------------------------------ MODULE ApiClient ------------------------------
(***************************************************************************)
(* A call of the controller API: the attempts of Client::execute, which    *)
(* is the same in chimera-clash-api (linked by the manager) and clash-api  *)
(* (with two endpoints more, those that end in _value), each of them the   *)
(* attempts of retry_send on a busy named pipe (chimera-utils              *)
(* reqwest_ext.rs).  What a controller does with a request is how the      *)
(* endpoint is used here; addresses, bodies and their decoding are left    *)
(* out.                                                                    *)
(***************************************************************************)
EXTENDS Naturals, FiniteSets

CONSTANTS
  MaxRetries,    \* ExponentialRetry::max_retries; 0 is NoRetry
  MaxPipeTries   \* bound: attempts within the second that a busy pipe is given

ASSUME ClientAssumption == MaxRetries \in Nat /\ MaxPipeTries \in Nat \ {0}

VARIABLES
  call,     \* the call: endpoint, phase, retries left, attempts on the pipe
  applied,  \* how often the controller carried the request out
  held      \* the object that the request removes or reads is there

avars == <<call, applied, held>>

(***************************************************************************)
(* RequestMetadata of the endpoints: operation, method, retry_safe         *)
(***************************************************************************)
Meta(method, safe, names) == {[op |-> n, method |-> method, safe |-> safe] : n \in names}

ConfigsApi ==
  Meta("GET", TRUE, {"configs", "configs_value"}) \cup Meta("PUT", FALSE, {"update_config"})
    \cup Meta("PATCH", FALSE, {"patch_config", "patch_config_value"})
    \cup Meta("POST", FALSE, {"update_geo_databases"})
ConnectionsApi ==
  Meta("GET", TRUE, {"connections", "connections_ws"}) \cup Meta("DELETE", TRUE, {"close_connection"})
    \cup Meta("DELETE", FALSE, {"close_all_connections"})
MaintenanceApi ==
  Meta("GET", TRUE, {"hello"}) \cup Meta("PUT", FALSE, {"collect_garbage"})
    \cup Meta("POST", FALSE, {"flush_fake_ip_cache", "flush_dns_cache", "restart", "upgrade", "upgrade_ui",
                              "upgrade_geo_databases"})
ProxiesApi ==
  Meta("GET", TRUE, {"groups", "group", "proxies", "proxy", "proxy_providers", "proxy_provider", "provider_proxy"})
    \cup Meta("GET", FALSE, {"group_delay", "proxy_delay", "provider_proxy_delay", "healthcheck_proxy_provider"})
    \cup Meta("PUT", FALSE, {"select_proxy", "update_proxy_provider"})
    \cup Meta("DELETE", FALSE, {"clear_proxy_selection"})
RulesApi ==
  Meta("GET", TRUE, {"rules", "rule_providers"}) \cup Meta("PATCH", FALSE, {"patch_rules"})
    \cup Meta("PUT", FALSE, {"update_rule_provider"})
StorageApi ==
  Meta("GET", TRUE, {"storage_get"}) \cup Meta("PUT", FALSE, {"storage_put"})
    \cup Meta("DELETE", TRUE, {"storage_delete"})
DnsApi == Meta("GET", TRUE, {"dns_query"})
LogsApi == Meta("GET", TRUE, {"logs", "logs_ws", "structured_logs", "structured_logs_ws"})
TrafficApi == Meta("GET", TRUE, {"traffic", "traffic_ws"})
MemoryApi == Meta("GET", TRUE, {"memory", "memory_ws"})
VersionApi == Meta("GET", TRUE, {"version"})

Endpoints ==
  UNION {ConfigsApi, ConnectionsApi, MaintenanceApi, ProxiesApi, RulesApi, StorageApi, DnsApi, LogsApi,
         TrafficApi, MemoryApi, VersionApi}

(* What the controller does: a read; the removal of a named object, which  *)
(* succeeds when it is absent; or something that happens each time.        *)
Effect(e) ==
  CASE e.op \in {"close_connection", "storage_delete"} -> "removes"
    [] e.method = "GET" /\ e.op \notin {"group_delay", "proxy_delay", "provider_proxy_delay",
                                        "healthcheck_proxy_provider"} -> "reads"
    [] OTHER -> "acts"

(***************************************************************************)
(* Retrying                                                                *)
(***************************************************************************)
(* Errors of an attempt.  "lost": the request was sent and no answer came; *)
(* "gateway": 502, 503 or 504; "status": another status.                   *)
Errors == {"busy", "connect", "lost", "gateway", "status"}

IsTransient(error) == error \in {"busy", "connect", "lost", "gateway"}

(* Mutant: any transient error is repeated.                                *)
IsRetryableAny(e, error) == IsTransient(error)

IsRetryable(e, error) == e.safe /\ IsTransient(error)

ClientInit ==
  /\ call = [endpoint |-> [op |-> "none", method |-> "GET", safe |-> FALSE], phase |-> "idle", result |-> "none",
             left |-> 0, tries |-> 0]
  /\ applied = 0 /\ held = TRUE

(* execute: the delays of the policy are the retries that are left.        *)
Begin(e) ==
  /\ call.phase = "idle"
  /\ call' = [endpoint |-> e, phase |-> "send", result |-> "none", left |-> MaxRetries, tries |-> 0]
  /\ UNCHANGED <<applied, held>>

(* ERROR_PIPE_BUSY before anything was sent, and time is left.             *)
PipeBusy ==
  /\ call.phase = "send" /\ call.tries < MaxPipeTries - 1
  /\ call' = [call EXCEPT !.tries = @ + 1] /\ UNCHANGED <<applied, held>>

(* A busy pipe has used its budget; other errors are up to the policy.     *)
GivesUp(error) == error = "busy" \/ ~IsRetryable(call.endpoint, error) \/ call.left = 0

Failed(error) ==
  call' = IF GivesUp(error) THEN [call EXCEPT !.phase = "done", !.result = error]
          ELSE [call EXCEPT !.phase = "sleep", !.left = @ - 1]

(* The connection is never made.                                           *)
NotSent ==
  /\ call.phase = "send" /\ \E error \in {"busy", "connect"} : Failed(error)
  /\ UNCHANGED <<applied, held>>

CarriedOut ==
  /\ applied' = IF Effect(call.endpoint) = "removes" /\ ~held THEN applied ELSE applied + 1
  /\ held' = (held /\ Effect(call.endpoint) # "removes")

(* ensure_success passes; the body may still fail to arrive or to decode,  *)
(* which is outside of execute and never repeated.                         *)
Answers ==
  /\ call.phase = "send" /\ CarriedOut
  /\ \E result \in {"ok", "body"} : call' = [call EXCEPT !.phase = "done", !.result = result]

(* An error of an attempt that may have been carried out.                  *)
Fails ==
  /\ call.phase = "send"
  /\ \/ \E error \in {"lost", "gateway"} : Failed(error) /\ CarriedOut
     \/ \E error \in {"lost", "gateway", "status"} : Failed(error) /\ UNCHANGED <<applied, held>>

(* The delay is over.                                                      *)
Wake ==
  /\ call.phase = "sleep" /\ call' = [call EXCEPT !.phase = "send", !.tries = 0]
  /\ UNCHANGED <<applied, held>>

(* The next call.                                                          *)
Forget ==
  /\ call.phase = "done" /\ call' = [call EXCEPT !.phase = "idle", !.result = "none"]
  /\ applied' = 0 /\ held' = TRUE

ClientNext ==
  \/ \E e \in Endpoints : Begin(e)
  \/ PipeBusy \/ NotSent \/ Answers \/ Fails \/ Wake \/ Forget

ClientSpec == ClientInit /\ [][ClientNext]_avars

(***************************************************************************)
(* Properties                                                              *)
(***************************************************************************)
(* Types; a call has at most max_retries further attempts (execute).       *)
ClientTypeOK ==
  /\ call.endpoint.op = "none" \/ call.endpoint \in Endpoints
  /\ call.result \in {"none", "ok", "body"} \union Errors
  /\ call.phase \in {"idle", "send", "sleep", "done"} /\ call.left \in 0..MaxRetries
  /\ call.tries \in 0..(MaxPipeTries - 1) /\ applied \in 0..(MaxRetries + 1)

(* Nothing that happens each time it is asked for happens twice in a call, *)
(* however answers are lost: the flags of the endpoints against what the   *)
(* policy repeats (RequestMetadata, is_retryable).                         *)
AtMostOnce == Effect(call.endpoint) # "reads" => applied <= 1

(* An error of a busy pipe means that nothing was sent, unless the call    *)
(* may be repeated, and such an error ends the call (execute, retry_send). *)
BusyIsUnsent == (call.result = "busy" /\ ~call.endpoint.safe) => applied = 0

=============================================================================
