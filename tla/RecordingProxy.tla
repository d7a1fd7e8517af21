---------------------------- MODULE RecordingProxy ----------------------------
(***************************************************************************)
(* utilities/monitor.py: a mitmproxy addon that redirects every request to *)
(* the target_url option and appends the JSON bodies of requests and      *)
(* responses, tagged with a target, to log_file_name.  mitmproxy calls the *)
(* request hook before it forwards a flow and the response hook when the  *)
(* answer is back; flows interleave.  An exception in a hook (a body that *)
(* is not JSON) is reported by mitmproxy and the flow goes on: whatever   *)
(* the hook did before the exception stays done.                           *)
(*                                                                         *)
(* URLs are abstracted to host, scheme and port; port 0 stands for a URL   *)
(* without an explicit port.                                               *)
(***************************************************************************)
EXTENDS Naturals, Sequences

CONSTANTS
  Flows,       \* the HTTP flows going through the proxy
  Hosts,       \* host names
  Ports,       \* port numbers, 0 for "none given"
  TargetUrls,  \* the values --set target_url can take, NoTarget among them
  NoTarget     \* the default "": requests are not redirected

Url == [host : Hosts, scheme : {"http", "https"}, port : Ports]

ASSUME ProxyAssumption ==
  /\ Ports \subseteq Nat /\ {0, 80, 443} \subseteq Ports
  /\ NoTarget \in TargetUrls
  /\ TargetUrls \ {NoTarget} \subseteq Url

VARIABLES
  target_url,  \* ctx.options.target_url, fixed when the proxy starts
  origin,      \* per flow: where the client sent it
  reqJson,     \* per flow: whether the request body parses as JSON
  respJson,    \* per flow: whether the response body parses as JSON
  stage,       \* per flow: "client", "forwarded", "answered", "done"
  dest,        \* per flow: flow.request.host, scheme and port
  hostHeader,  \* per flow: flow.request.headers["Host"]
  log          \* the lines appended to log_file_name, oldest first

vars == <<target_url, origin, reqJson, respJson, stage, dest, hostHeader, log>>

(* Mutant: the two default ports swapped.                                  *)
TargetPortSwapped(u) == IF u.port # 0 THEN u.port ELSE IF u.scheme = "https" THEN 80 ELSE 443

(* flow.request.port = parsed_url.port or (443 if https else 80)           *)
TargetPort(u) == IF u.port # 0 THEN u.port ELSE IF u.scheme = "https" THEN 443 ELSE 80

(* Where the rewritten flow goes.                                          *)
Redirected(u) == [host |-> u.host, scheme |-> u.scheme, port |-> TargetPort(u)]

(* `with open(log_file_name, "a")`: body = json.loads(...), then          *)
(* body["target_url"] = tag and one line is written.  The tag is the       *)
(* parsed target URL in the request hook and the Host header in the        *)
(* response hook, both abstracted to a host.  json.loads raising ends the  *)
(* hook before the write.                                                  *)
AppendLine(json, entry) == log' = IF json THEN Append(log, entry) ELSE log

-----------------------------------------------------------------------------
(* load(): the options are registered; mitmproxy sets them at start-up.    *)
Init ==
  /\ target_url \in TargetUrls
  /\ origin \in [Flows -> Url]
  /\ reqJson \in [Flows -> BOOLEAN]
  /\ respJson \in [Flows -> BOOLEAN]
  /\ stage = [f \in Flows |-> "client"]
  /\ dest = origin
  /\ hostHeader = [f \in Flows |-> origin[f].host]
  /\ log = <<>>

(* Mutant: the request body is logged before the flow is redirected.      *)
RequestLogFirst(f) ==
  /\ stage[f] = "client"
  /\ target_url # NoTarget
  /\ AppendLine(reqJson[f], [flow |-> f, kind |-> "request", tag |-> target_url.host])
  /\ dest' = IF reqJson[f] THEN [dest EXCEPT ![f] = Redirected(target_url)] ELSE dest
  /\ hostHeader' = IF reqJson[f] THEN [hostHeader EXCEPT ![f] = target_url.host] ELSE hostHeader
  /\ stage' = [stage EXCEPT ![f] = "forwarded"]
  /\ UNCHANGED <<target_url, origin, reqJson, respJson>>

(* Mutant: the Host header is set to the whole target URL, not its host.  *)
RequestHostIsUrl(f) ==
  /\ stage[f] = "client"
  /\ target_url # NoTarget
  /\ dest' = [dest EXCEPT ![f] = Redirected(target_url)]
  /\ hostHeader' = [hostHeader EXCEPT ![f] = target_url]
  /\ AppendLine(reqJson[f], [flow |-> f, kind |-> "request", tag |-> target_url.host])
  /\ stage' = [stage EXCEPT ![f] = "forwarded"]
  /\ UNCHANGED <<target_url, origin, reqJson, respJson>>

(* request(flow) with a target_url: host, scheme, port and the Host header *)
(* are rewritten first, then the body is logged with the parsed URL.       *)
Request(f) ==
  /\ stage[f] = "client"
  /\ target_url # NoTarget
  /\ dest' = [dest EXCEPT ![f] = Redirected(target_url)]
  /\ hostHeader' = [hostHeader EXCEPT ![f] = target_url.host]
  /\ AppendLine(reqJson[f], [flow |-> f, kind |-> "request", tag |-> target_url.host])
  /\ stage' = [stage EXCEPT ![f] = "forwarded"]
  /\ UNCHANGED <<target_url, origin, reqJson, respJson>>

(* request(flow) with target_url = "": the hook does nothing.              *)
RequestPassThrough(f) ==
  /\ stage[f] = "client"
  /\ target_url = NoTarget
  /\ stage' = [stage EXCEPT ![f] = "forwarded"]
  /\ UNCHANGED <<target_url, origin, reqJson, respJson, dest, hostHeader, log>>

(* mitmproxy sends the flow to dest and the server answers.                *)
Upstream(f) ==
  /\ stage[f] = "forwarded"
  /\ stage' = [stage EXCEPT ![f] = "answered"]
  /\ UNCHANGED <<target_url, origin, reqJson, respJson, dest, hostHeader, log>>

(* response(flow): the response body, tagged with the request's Host       *)
(* header, is appended.                                                    *)
Response(f) ==
  /\ stage[f] = "answered"
  /\ AppendLine(respJson[f], [flow |-> f, kind |-> "response", tag |-> hostHeader[f]])
  /\ stage' = [stage EXCEPT ![f] = "done"]
  /\ UNCHANGED <<target_url, origin, reqJson, respJson, dest, hostHeader>>

Next ==
  \E f \in Flows :
    \/ Request(f) \/ RequestPassThrough(f) \/ Upstream(f) \/ Response(f)

Spec == Init /\ [][Next]_vars

-----------------------------------------------------------------------------
ProxyTypeOK ==
  /\ target_url \in TargetUrls
  /\ stage \in [Flows -> {"client", "forwarded", "answered", "done"}]
  /\ dest \in [Flows -> Url]
  /\ hostHeader \in [Flows -> Hosts]
  /\ log \in Seq([flow : Flows, kind : {"request", "response"}, tag : Hosts])

(* The standard port of each scheme (RFC 9110: 80 for http, 443 for       *)
(* https), the reference the rewritten port is checked against.            *)
StandardPort == [http |-> 80, https |-> 443]

(* With a target_url, every flow that left the proxy went to the target's  *)
(* host and scheme, on the URL's port or else the scheme's standard port,  *)
(* even when its body is not JSON and the hook raised: the rewrite comes   *)
(* before json.loads.                                                      *)
ForwardedToTarget ==
  target_url # NoTarget =>
    \A f \in Flows :
       stage[f] # "client" =>
          dest[f] = [host |-> target_url.host, scheme |-> target_url.scheme,
                     port |-> IF target_url.port # 0 THEN target_url.port
                                                     ELSE StandardPort[target_url.scheme]]
=============================================================================
