------------------------- MODULE RecordingProxyProofs -------------------------
(***************************************************************************)
(* Proofs about the hooks of utilities/monitor.py, for every set of flows, *)
(* hosts, ports and target URLs satisfying ProxyAssumption.                *)
(***************************************************************************)
EXTENDS RecordingProxy, TLAPS

LogEntry == [flow : Flows, kind : {"request", "response"}, tag : Hosts]

IInv == ProxyTypeOK /\ ForwardedToTarget

-----------------------------------------------------------------------------
(* Redirecting to a target URL yields a URL: the default port of the       *)
(* scheme is one of Ports.                                                  *)
LEMMA RedirectedType ==
  ASSUME NEW u \in Url
  PROVE  Redirected(u) \in Url
BY ProxyAssumption DEF Redirected, TargetPort, Url

(* The code's port rule gives the URL's port or the scheme's standard one. *)
LEMMA RedirectedStandard ==
  ASSUME NEW u \in Url
  PROVE  Redirected(u) = [host |-> u.host, scheme |-> u.scheme,
                          port |-> IF u.port # 0 THEN u.port ELSE StandardPort[u.scheme]]
BY DEF Redirected, TargetPort, StandardPort, Url

(* A target other than the default "" is a URL.                           *)
LEMMA TargetType ==
  ASSUME NEW u \in TargetUrls, u # NoTarget
  PROVE  u \in Url /\ u.host \in Hosts
BY ProxyAssumption DEF Url

(* Appending a line keeps the log a sequence of lines, and keeps its old  *)
(* lines where they were.                                                  *)
LEMMA AppendLineType ==
  ASSUME NEW json, NEW e \in LogEntry, log \in Seq(LogEntry),
         AppendLine(json, e)
  PROVE  /\ log' \in Seq(LogEntry)
         /\ \/ log' = log
            \/ /\ Len(log') = Len(log) + 1
               /\ \A i \in 1..Len(log) : log'[i] = log[i]
               /\ log'[Len(log')] = e
BY DEF AppendLine

LEMMA IInvInit == Init => IInv
<1> SUFFICES ASSUME Init PROVE IInv
  OBVIOUS
<1>1. ProxyTypeOK
  BY DEF Init, ProxyTypeOK, Url
<1>2. QED
  BY <1>1 DEF Init, IInv, ForwardedToTarget

LEMMA IInvStep == IInv /\ [Next]_vars => IInv'
<1> SUFFICES ASSUME IInv, [Next]_vars PROVE IInv'
  OBVIOUS
<1> USE DEF IInv, ProxyTypeOK
<1>0. log \in Seq(LogEntry)
  BY DEF LogEntry
<1>1. ASSUME NEW f \in Flows, Request(f) PROVE IInv'
  <2>1. target_url \in Url /\ target_url.host \in Hosts
    BY <1>1, TargetType DEF Request
  <2>2. Redirected(target_url) \in Url
    BY <2>1, RedirectedType
  <2>3. [flow |-> f, kind |-> "request", tag |-> target_url.host] \in LogEntry
    BY <2>1 DEF LogEntry
  <2>4. log' \in Seq(LogEntry)
    BY <1>1, <1>0, <2>3, AppendLineType DEF Request
  <2>5. ProxyTypeOK'
    <3>1. stage' \in [Flows -> {"client", "forwarded", "answered", "done"}]
      BY <1>1 DEF Request
    <3>2. dest' \in [Flows -> Url]
      BY <1>1, <2>2 DEF Request
    <3>3. hostHeader' \in [Flows -> Hosts]
      BY <1>1, <2>1 DEF Request
    <3>4. QED
      BY <1>1, <2>4, <3>1, <3>2, <3>3 DEF Request, LogEntry
  <2>6. ForwardedToTarget'
    BY <1>1, <2>1, RedirectedStandard DEF Request, ForwardedToTarget
  <2>7. QED
    BY <2>5, <2>6
<1>2. ASSUME NEW f \in Flows, RequestPassThrough(f) PROVE IInv'
  BY <1>2 DEF RequestPassThrough, ForwardedToTarget
<1>3. ASSUME NEW f \in Flows, Upstream(f) PROVE IInv'
  BY <1>3 DEF Upstream, ForwardedToTarget
<1>4. ASSUME NEW f \in Flows, Response(f) PROVE IInv'
  <2>1. [flow |-> f, kind |-> "response", tag |-> hostHeader[f]] \in LogEntry
    BY DEF LogEntry
  <2>2. log' \in Seq(LogEntry)
    BY <1>4, <1>0, <2>1, AppendLineType DEF Response
  <2>3. stage' \in [Flows -> {"client", "forwarded", "answered", "done"}]
    BY <1>4 DEF Response
  <2>4. QED
    BY <1>4, <2>2, <2>3 DEF Response, ForwardedToTarget, LogEntry
<1>5. CASE UNCHANGED vars
  BY <1>5 DEF vars, ForwardedToTarget
<1>6. QED
  BY <1>1, <1>2, <1>3, <1>4, <1>5 DEF Next

(* Every state of the proxy is well typed.                                  *)
THEOREM ProxyTypeCorrect == Spec => []ProxyTypeOK
<1>1. IInv => ProxyTypeOK
  BY DEF IInv
<1>2. QED
  BY <1>1, IInvInit, IInvStep, PTL DEF Spec

(* With a target_url, every flow that left the proxy was sent to the       *)
(* target's host and scheme, on its port or the scheme's standard port,    *)
(* even when json.loads raised in its request hook.                        *)
THEOREM AlwaysForwardedToTarget == Spec => []ForwardedToTarget
<1>1. IInv => ForwardedToTarget
  BY DEF IInv
<1>2. QED
  BY <1>1, IInvInit, IInvStep, PTL DEF Spec
=============================================================================
