-------------------------- MODULE LlmRouterProofs ---------------------------
(***************************************************************************)
(* Theorems about the LLM router, its cost model and the chat page in      *)
(* front of it, for every number of requests, every set of requests and    *)
(* every behaviour of the two endpoints.                                   *)
(***************************************************************************)
EXTENDS WebChat, MCLlmRouter, FiniteSetTheorems, SequenceTheorems, TLAPS

\* A job's target is the one forced on its request, if any; its prompt is only where
\* it was posted, and an answer to /infer comes from there.
JobInv(j) ==
  /\ phase[j] = "idle" => target[j] = NoTarget /\ status[j] = 0 /\ request[j] = NoRequest
  /\ phase[j] \in {"idle", "check_edge", "check_server", "post"} => received[j] = {}
  /\ phase[j] \in {"check_edge", "check_server"} => target[j] = NoTarget
  /\ phase[j] \in {"post", "wait"} => target[j] \in Targets
  /\ phase[j] = "wait" => received[j] = {target[j]}
  /\ received[j] \subseteq {target[j]}
  /\ phase[j] # "idle" => request[j] \in Requests
  /\ phase[j] \in {"check_edge", "check_server"} => Forced(request[j]) = NoTarget
  /\ phase[j] \in {"post", "wait", "done"} /\ Forced(request[j]) # NoTarget =>
       target[j] = Forced(request[j])
  /\ status[j] = 200 => phase[j] = "done"
  /\ status[j] = 200 /\ request[j].path = "/infer" => received[j] = {target[j]}

RouterInv == RouterTypeOK /\ \A j \in Jobs : JobInv(j)

-----------------------------------------------------------------------------
\* The target forced on a request, if any, is the edge for a private one in the
\* adaptive mode.
LEMMA ForcedTargets ==
  ASSUME NEW r \in Requests
  PROVE  /\ Forced(r) \in Targets \cup {NoTarget}
         /\ r.private /\ r.mode # "always_server" => Forced(r) = "edge"
         /\ r.path \in {"/route", "/infer"} /\ r # NoRequest
<1>1. r \in InferenceRequest
  BY RequestsAssumption
<1>2. r.path \in {"/route", "/infer"} /\ r.private \in BOOLEAN /\ r.mode \in Modes
  BY <1>1 DEF InferenceRequest
<1>3. NoRequest.path = "none"
  BY DEF NoRequest
<1>4. r # NoRequest
  BY <1>2, <1>3
<1> QED
  BY <1>2, <1>4 DEF Forced, Targets, NoTarget, Modes

\* run_inference ends in one of five statuses.
LEMMA StatusesTyped ==
  ASSUME NEW state \in EndpointStates
  PROVE  Statuses(state) \subseteq {200, 500, 502, 503, 504}
BY DEF Statuses, EndpointStates

\* The states of the other jobs do not enter the invariant of a job.
LEMMA OthersUntouched ==
  ASSUME NEW j \in Jobs, JobInv(j),
         phase'[j] = phase[j], request'[j] = request[j], target'[j] = target[j],
         status'[j] = status[j], received'[j] = received[j]
  PROVE  JobInv(j)'
BY DEF JobInv, Forced

\* RouterInv holds before the first request.
LEMMA RouterStart == Init => RouterInv
<1> SUFFICES ASSUME Init PROVE RouterInv
  OBVIOUS
<1>1. RouterTypeOK
  BY DEF Init, RouterTypeOK, Targets, NoTarget
<1>2. ASSUME NEW j \in Jobs PROVE JobInv(j)
  BY DEF Init, JobInv
<1> QED
  BY <1>1, <1>2 DEF RouterInv

\* Every step of the router keeps RouterInv.
LEMMA RouterStep == RouterInv /\ [Next]_routerVars => RouterInv'
<1> SUFFICES ASSUME RouterInv, [Next]_routerVars PROVE RouterInv'
  OBVIOUS
<1> USE DEF RouterInv
<1>1. ASSUME NEW j \in Jobs, NEW r \in Requests, Receive(j, r) PROVE RouterInv'
  <2>1. /\ Forced(r) \in Targets \cup {NoTarget} /\ r.path \in {"/route", "/infer"}
        /\ phase[j] = "idle" /\ JobInv(j)
    BY <1>1, ForcedTargets DEF Receive
  <2>2. RouterTypeOK'
    BY <1>1, <2>1 DEF Receive, DecideAnd, RouterTypeOK, Targets, NoTarget
  <2>3. JobInv(j)'
    BY <1>1, <2>1 DEF Receive, DecideAnd, RouterTypeOK, JobInv, NoTarget, Targets, Forced
  <2>4. ASSUME NEW k \in Jobs, k # j PROVE JobInv(k)'
    BY <1>1, <2>4, OthersUntouched DEF Receive, DecideAnd, RouterTypeOK
  <2> QED
    BY <2>2, <2>3, <2>4
<1>2. ASSUME NEW j \in Jobs, CheckEdge(j) PROVE RouterInv'
  <2>1. RouterTypeOK'
    BY <1>2 DEF CheckEdge, RouterTypeOK, Available
  <2>2. JobInv(j)'
    BY <1>2 DEF CheckEdge, RouterTypeOK, JobInv, Forced
  <2>3. ASSUME NEW k \in Jobs, k # j PROVE JobInv(k)'
    BY <1>2, <2>3, OthersUntouched DEF CheckEdge, RouterTypeOK
  <2> QED
    BY <2>1, <2>2, <2>3
<1>3. ASSUME NEW j \in Jobs, CheckServer(j) PROVE RouterInv'
  <2> DEFINE r == request[j]
  <2>1. phase[j] = "check_server" /\ r \in Requests /\ Forced(r) = NoTarget /\ JobInv(j)
    BY <1>3 DEF CheckServer, JobInv
  <2>2. r.path \in {"/route", "/infer"}
    BY <2>1, ForcedTargets
  <2>3. CASE Fail(j, 503) /\ UNCHANGED target
    <3>1. RouterTypeOK'
      BY <1>3, <2>3 DEF CheckServer, Fail, RouterTypeOK
    <3>2. JobInv(j)'
      BY <1>3, <2>1, <2>3 DEF CheckServer, Fail, RouterTypeOK, JobInv, Forced
    <3>3. ASSUME NEW k \in Jobs, k # j PROVE JobInv(k)'
      BY <1>3, <2>3, <3>3, OthersUntouched DEF CheckServer, Fail, RouterTypeOK
    <3> QED
      BY <3>1, <3>2, <3>3
  <2>4. ASSUME NEW t \in Targets, DecideAnd(j, r, t) PROVE RouterInv'
    <3>1. RouterTypeOK'
      BY <1>3, <2>4 DEF CheckServer, DecideAnd, RouterTypeOK
    <3>2. JobInv(j)'
      BY <1>3, <2>1, <2>2, <2>4 DEF CheckServer, DecideAnd, RouterTypeOK, JobInv, Forced
    <3>3. ASSUME NEW k \in Jobs, k # j PROVE JobInv(k)'
      BY <1>3, <2>4, <3>3, OthersUntouched DEF CheckServer, DecideAnd, RouterTypeOK
    <3> QED
      BY <3>1, <3>2, <3>3
  <2>5. Online(j) \subseteq Targets
    BY DEF Online
  <2> QED
    BY <1>3, <2>3, <2>4, <2>5 DEF CheckServer
<1>4. ASSUME NEW j \in Jobs, Post(j) PROVE RouterInv'
  <2>1. phase[j] = "post" /\ target[j] \in Targets /\ received[j] = {} /\ JobInv(j)
    BY <1>4 DEF Post, JobInv
  <2>2. RouterTypeOK'
    BY <1>4, <2>1 DEF Post, Fail, RouterTypeOK
  <2>3. JobInv(j)'
    BY <1>4, <2>1 DEF Post, Fail, RouterTypeOK, JobInv, Forced
  <2>4. ASSUME NEW k \in Jobs, k # j PROVE JobInv(k)'
    BY <1>4, <2>4, OthersUntouched DEF Post, Fail, RouterTypeOK
  <2> QED
    BY <2>2, <2>3, <2>4
<1>5. ASSUME NEW j \in Jobs, Answer(j) PROVE RouterInv'
  <2>1. phase[j] = "wait" /\ target[j] \in Targets /\ received[j] = {target[j]} /\ JobInv(j)
    BY <1>5 DEF Answer, JobInv
  <2>2. PICK code \in Statuses(endpoint[target[j]]) : Fail(j, code)
    BY <1>5 DEF Answer
  <2>3. code \in {200, 500, 502, 503, 504}
    BY <2>1, <2>2, StatusesTyped DEF RouterTypeOK
  <2>4. RouterTypeOK'
    BY <1>5, <2>2, <2>3 DEF Answer, Fail, RouterTypeOK
  <2>5. JobInv(j)'
    BY <1>5, <2>1, <2>2 DEF Answer, Fail, RouterTypeOK, JobInv, Forced
  <2>6. ASSUME NEW k \in Jobs, k # j PROVE JobInv(k)'
    BY <1>5, <2>2, <2>6, OthersUntouched DEF Answer, Fail, RouterTypeOK
  <2> QED
    BY <2>4, <2>5, <2>6
<1>6. CASE EndpointChanges
  BY <1>6 DEF EndpointChanges, jobVars, RouterTypeOK, JobInv, Forced
<1>7. CASE UNCHANGED routerVars
  BY <1>7 DEF routerVars, RouterTypeOK, JobInv, Forced
<1> QED
  BY <1>1, <1>2, <1>3, <1>4, <1>5, <1>6, <1>7 DEF Next, Handle

\* RouterInv holds in every reachable state.
LEMMA RouterInvariant == Spec => []RouterInv
BY RouterStart, RouterStep, PTL DEF Spec

-----------------------------------------------------------------------------
\* Every variable of the LLM router keeps its type: in particular every decision is
\* one of the two targets infer() knows how to reach.
THEOREM RouterTypes == Spec => []RouterTypeOK
<1>1. RouterInv => RouterTypeOK
  BY DEF RouterInv
<1> QED
  BY <1>1, RouterInvariant, PTL

\* A private prompt sent in the adaptive mode never reaches the server, for any number
\* of requests and whatever the endpoints do in between.
THEOREM PrivatePrompts == Spec => []PrivatePromptsStayOnEdge
<1>1. RouterInv => PrivatePromptsStayOnEdge
  <2> SUFFICES ASSUME RouterInv, NEW j \in Jobs, "server" \in received[j],
                      request[j].private, request[j].mode # "always_server"
               PROVE  FALSE
    BY DEF PrivatePromptsStayOnEdge
  <2>1. JobInv(j)
    BY DEF RouterInv
  <2>2. phase[j] \in {"wait", "done"} /\ target[j] = "server" /\ request[j] \in Requests
    BY <2>1 DEF JobInv, RouterInv, RouterTypeOK
  <2>3. Forced(request[j]) = "edge"
    BY <2>2, ForcedTargets
  <2> QED
    BY <2>1, <2>2, <2>3 DEF JobInv, NoTarget
<1> QED
  BY <1>1, RouterInvariant, PTL

\* An answer comes from the one target that got the prompt.
THEOREM AnswersFromTarget == Spec => []AnsweredWhereItRan
<1>1. RouterInv => AnsweredWhereItRan
  BY DEF RouterInv, JobInv, AnsweredWhereItRan
<1> QED
  BY <1>1, RouterInvariant, PTL

-----------------------------------------------------------------------------
(* What a job has seen of the endpoints. *)

\* A job under way has seen every endpoint that is not up now, and every one that made
\* it fail or go elsewhere.
News(j) ==
  /\ phase[j] \notin {"idle", "done"} => NotUp(endpoint) \subseteq failed[j]
  /\ phase[j] = "check_server" /\ ~edge_online[j] => "edge" \in failed[j]
  /\ phase[j] \in {"post", "wait", "done"} /\ Forced(request[j]) = NoTarget
     /\ target[j] # CheapestOf(request[j]) => CheapestOf(request[j]) \in failed[j]
  /\ phase[j] = "done" /\ status[j] # 200 =>
       IF target[j] = NoTarget THEN failed[j] = Targets ELSE target[j] \in failed[j]

NewsInv == failed \in [Jobs -> SUBSET Targets] /\ \A j \in Jobs : News(j)

\* Watch adds the endpoints that are not up to what every job under way has seen.
LEMMA Watched ==
  ASSUME Watch, NEW j \in Jobs
  PROVE  /\ phase[j] = "done" => failed'[j] = failed[j]
         /\ phase[j] # "done" /\ phase'[j] = "idle" => failed'[j] = {}
         /\ phase[j] # "done" /\ phase'[j] # "idle" =>
              failed'[j] = failed[j] \cup NotUp(endpoint')
BY DEF Watch

\* What Watch collects are targets.
LEMMA WatchTyped ==
  ASSUME Watch, failed \in [Jobs -> SUBSET Targets]
  PROVE  failed' \in [Jobs -> SUBSET Targets]
<1>1. \A e : NotUp(e) \subseteq Targets
  BY DEF NotUp
<1> QED
  BY <1>1 DEF Watch

\* A job that does nothing keeps its News, whatever the endpoints do.
LEMMA OthersNews ==
  ASSUME Watch, NEW j \in Jobs, News(j),
         phase'[j] = phase[j], request'[j] = request[j], target'[j] = target[j],
         status'[j] = status[j], edge_online'[j] = edge_online[j],
         phase[j] = "idle" \/ phase[j] \in {"check_edge", "check_server", "post", "wait", "done"}
  PROVE  News(j)'
<1>1. CASE phase[j] = "done"
  <2>1. failed'[j] = failed[j]
    BY <1>1, Watched
  <2> QED
    BY <1>1, <2>1 DEF News, Forced, CheapestOf, Preferred
<1>2. CASE phase[j] = "idle"
  BY <1>2 DEF News
<1>3. CASE phase[j] \notin {"idle", "done"}
  <2>1. failed'[j] = failed[j] \cup NotUp(endpoint')
    BY <1>3, Watched
  <2>2. NotUp(endpoint)' = NotUp(endpoint')
    BY DEF NotUp
  <2> QED
    BY <1>3, <2>1, <2>2 DEF News, Forced, CheapestOf, Preferred
<1> QED
  BY <1>1, <1>2, <1>3

\* The cheaper target is one of the two.
LEMMA CheapestTargets == \A r : CheapestOf(r) \in Targets
BY DEF CheapestOf, Preferred, Targets

\* Only an endpoint that is up answers with 200, and one that is up always does.
LEMMA UpAnswers ==
  ASSUME NEW state \in EndpointStates, NEW code \in Statuses(state), code # 200
  PROVE  state # "up"
<1>1. state = "up" => Statuses(state) = {200}
  BY DEF Statuses
<1> QED
  BY <1>1

\* Every step of the watched router keeps News.
LEMMA NewsStep == RouterInv /\ NewsInv /\ [MCNext]_mcVars => NewsInv'
<1> SUFFICES ASSUME RouterInv, NewsInv, [MCNext]_mcVars PROVE NewsInv'
  OBVIOUS
<1>1. CASE UNCHANGED mcVars
  BY <1>1 DEF NewsInv, News, mcVars, routerVars, Forced, CheapestOf, Preferred, NotUp
<1>2. CASE MCNext
  <2>0. Watch /\ Next /\ RouterTypeOK /\ \A k \in Jobs : JobInv(k) /\ News(k)
    BY <1>2 DEF MCNext, RouterInv, NewsInv
  <2>1. failed' \in [Jobs -> SUBSET Targets] /\ failed \in [Jobs -> SUBSET Targets]
    BY <2>0, WatchTyped DEF NewsInv
  <2>2. \A k \in Jobs : phase[k] = "idle" \/ phase[k] \in {"check_edge", "check_server", "post", "wait", "done"}
    BY <2>0 DEF RouterTypeOK
  <2>3. ASSUME NEW j \in Jobs, NEW r \in Requests, Receive(j, r) PROVE NewsInv'
    <3>1. ASSUME NEW k \in Jobs, k # j PROVE News(k)'
      BY <2>0, <2>2, <2>3, <3>1, OthersNews DEF Receive, DecideAnd, RouterTypeOK
    <3>2. News(j)'
      BY <2>0, <2>3, ForcedTargets, Watched
      DEF Receive, DecideAnd, RouterTypeOK, News, NotUp, Forced, Targets, NoTarget
    <3> QED
      BY <2>1, <3>1, <3>2 DEF NewsInv
  <2>4. ASSUME NEW j \in Jobs, CheckEdge(j) PROVE NewsInv'
    <3>1. ASSUME NEW k \in Jobs, k # j PROVE News(k)'
      BY <2>0, <2>2, <2>4, <3>1, OthersNews DEF CheckEdge, RouterTypeOK
    <3>2. News(j)'
      <4>1. /\ phase'[j] = "check_server" /\ phase[j] = "check_edge" /\ endpoint' = endpoint
            /\ edge_online'[j] <=> Available("edge")
        <5>1. edge_online' = [edge_online EXCEPT ![j] = Available("edge")]
          BY <2>4 DEF CheckEdge
        <5>2. edge_online'[j] <=> Available("edge")
          BY <5>1, <2>0, ZenonT(30) DEF RouterTypeOK
        <5> QED
          BY <2>0, <2>4, <5>2 DEF CheckEdge, RouterTypeOK
      <4>2. failed'[j] = failed[j] \cup NotUp(endpoint)
        BY <2>0, <4>1, Watched
      <4>3. ~Available("edge") => "edge" \in NotUp(endpoint)
        BY DEF Available, NotUp, Targets
      <4> QED
        BY <4>1, <4>2, <4>3 DEF News
    <3> QED
      BY <2>1, <3>1, <3>2 DEF NewsInv
  <2>5. ASSUME NEW j \in Jobs, CheckServer(j) PROVE NewsInv'
    <3>1. ASSUME NEW k \in Jobs, k # j PROVE News(k)'
      BY <2>0, <2>2, <2>5, <3>1, OthersNews DEF CheckServer, DecideAnd, Fail, RouterTypeOK
    <3>2. /\ phase[j] = "check_server" /\ phase'[j] \in {"done", "post"} /\ endpoint' = endpoint
          /\ request' = request /\ request[j] \in Requests /\ target[j] = NoTarget
      BY <2>0, <2>5 DEF CheckServer, DecideAnd, Fail, RouterTypeOK, JobInv
    <3>3. failed'[j] = failed[j] \cup NotUp(endpoint)
      BY <2>0, <3>2, Watched
    <3>4. ASSUME NEW t \in Targets, t \notin Online(j) PROVE t \in failed'[j]
      <4>1. CASE t = "edge"
        BY <2>0, <3>2, <3>3, <3>4, <4>1 DEF Online, News
      <4>2. CASE t # "edge"
        <5>1. endpoint[t] # "up"
          BY <3>4, <4>2 DEF Online, Available, Targets
        <5> QED
          BY <5>1, <3>3 DEF NotUp
      <4> QED
        BY <4>1, <4>2
    <3>5. CASE Online(j) = {} /\ Fail(j, 503) /\ UNCHANGED target
      <4>1. failed'[j] = Targets
        BY <2>1, <3>4, <3>5
      <4>2. phase'[j] = "done" /\ status'[j] = 503 /\ target'[j] = NoTarget
        BY <2>0, <3>2, <3>5 DEF Fail, RouterTypeOK
      <4>3. News(j)'
        BY <4>1, <4>2, CheapestTargets DEF News
      <4> QED
        BY <2>1, <3>1, <4>3 DEF NewsInv
    <3>6. ASSUME NEW t \in Online(j), Online(j) = {t} \/ t = CheapestOf(request[j]),
                 DecideAnd(j, request[j], t)
          PROVE  NewsInv'
      <4>1. target'[j] = t /\ (phase'[j] = "done" => status'[j] = 200)
        BY <2>0, <3>2, <3>6 DEF DecideAnd, RouterTypeOK
      <4>2. t # CheapestOf(request[j]) => CheapestOf(request[j]) \in failed'[j]
        BY <3>4, <3>6, CheapestTargets
      <4>3. CheapestOf(request[j])' = CheapestOf(request[j])
        BY <3>2 DEF CheapestOf, Preferred
      <4>4. News(j)'
        BY <3>2, <3>3, <4>1, <4>2, <4>3 DEF News
      <4> QED
        BY <2>1, <3>1, <4>4 DEF NewsInv
    <3> QED
      BY <2>5, <3>5, <3>6 DEF CheckServer
  <2>6. ASSUME NEW j \in Jobs, Post(j) PROVE NewsInv'
    <3>1. ASSUME NEW k \in Jobs, k # j PROVE News(k)'
      BY <2>0, <2>2, <2>6, <3>1, OthersNews DEF Post, Fail, RouterTypeOK
    <3>2. /\ phase[j] = "post" /\ phase'[j] \in {"done", "wait"} /\ endpoint' = endpoint
          /\ request' = request /\ target' = target /\ target[j] \in Targets
      BY <2>0, <2>6 DEF Post, Fail, RouterTypeOK, JobInv
    <3>3. failed'[j] = failed[j] \cup NotUp(endpoint)
      BY <2>0, <3>2, Watched
    <3>4. phase'[j] = "done" => target[j] \in NotUp(endpoint)
      BY <2>0, <2>6, <3>2 DEF Post, RouterTypeOK, NotUp
    <3>5. CheapestOf(request[j])' = CheapestOf(request[j])
      BY <3>2 DEF CheapestOf, Preferred
    <3>6. Forced(request[j])' = Forced(request[j]) /\ NoTarget \notin Targets
      BY <3>2 DEF Forced, NoTarget, Targets
    <3>7. News(j)'
      BY <2>0, <3>2, <3>3, <3>4, <3>5, <3>6 DEF News
    <3> QED
      BY <2>1, <3>1, <3>7 DEF NewsInv
  <2>7. ASSUME NEW j \in Jobs, Answer(j) PROVE NewsInv'
    <3>0. PICK code \in Statuses(endpoint[target[j]]) : Fail(j, code)
      BY <2>7 DEF Answer
    <3>1. ASSUME NEW k \in Jobs, k # j PROVE News(k)'
      BY <2>0, <2>2, <2>7, <3>0, <3>1, OthersNews DEF Answer, Fail, RouterTypeOK
    <3>2. /\ phase[j] = "wait" /\ phase'[j] = "done" /\ status'[j] = code /\ endpoint' = endpoint
          /\ request' = request /\ target' = target /\ target[j] \in Targets
      BY <2>0, <2>7, <3>0 DEF Answer, Fail, RouterTypeOK, JobInv
    <3>3. failed'[j] = failed[j] \cup NotUp(endpoint)
      BY <2>0, <3>2, Watched
    <3>4. code # 200 => target[j] \in NotUp(endpoint)
      BY <2>0, <3>0, <3>2, UpAnswers DEF NotUp, RouterTypeOK
    <3>5. CheapestOf(request[j])' = CheapestOf(request[j])
      BY <3>2 DEF CheapestOf, Preferred
    <3>6. Forced(request[j])' = Forced(request[j]) /\ NoTarget \notin Targets
      BY <3>2 DEF Forced, NoTarget, Targets
    <3>7. News(j)'
      BY <2>0, <3>2, <3>3, <3>4, <3>5, <3>6 DEF News
    <3> QED
      BY <2>1, <3>1, <3>7 DEF NewsInv
  <2>8. ASSUME EndpointChanges PROVE NewsInv'
    <3>1. ASSUME NEW k \in Jobs PROVE News(k)'
      BY <2>0, <2>2, <2>8, <3>1, OthersNews DEF EndpointChanges, jobVars
    <3> QED
      BY <2>1, <3>1 DEF NewsInv
  <2> QED
    BY <2>0, <2>3, <2>4, <2>5, <2>6, <2>7, <2>8 DEF Next, Handle
<1> QED
  BY <1>1, <1>2

\* No job has news before it arrives.
LEMMA NewsStart == MCInit => NewsInv
<1> SUFFICES ASSUME MCInit PROVE NewsInv
  OBVIOUS
<1>1. failed = [j \in Jobs |-> {}] /\ phase = [j \in Jobs |-> "idle"]
  BY DEF MCInit, Init
<1> QED
  BY <1>1 DEF NewsInv, News

\* NewsInv holds in every reachable state of the watched router.
LEMMA NewsInvariant == MCSpec => [](RouterInv /\ NewsInv)
<1>1. MCInit => RouterInv /\ NewsInv
  BY RouterStart, NewsStart DEF MCInit
<1>2. [MCNext]_mcVars => [Next]_routerVars
  BY DEF MCNext, mcVars
<1> QED
  BY <1>1, <1>2, RouterStep, NewsStep, PTL DEF MCSpec

\* A request fails, or goes to the dearer target, only because a target was not up at
\* some moment while it was handled; for any number of jobs (choose_target, infer).
THEOREM FailureCauses == MCSpec => []FailuresHaveCauses
<1>1. NewsInv => FailuresHaveCauses
  BY DEF NewsInv, News, FailuresHaveCauses
<1> QED
  BY <1>1, NewsInvariant, PTL

-----------------------------------------------------------------------------
(* The cost model. *)

\* Division with remainder.
LEMMA Quotient ==
  ASSUME NEW a \in Int, NEW d \in Nat, d > 0
  PROVE  a \div d \in Int /\ d * (a \div d) <= a /\ a < d * (a \div d) + d
BY SMT

\* Products keep the order of their factors.
LEMMA Products ==
  ASSUME NEW a \in Int, NEW b \in Int, NEW c \in Nat
  PROVE  /\ a <= b => c * a <= c * b
         /\ a < b /\ c > 0 => c * a < c * b
BY SMT

\* Normalised quotients are ordered as the fractions are.
LEMMA Ratios ==
  ASSUME NEW x \in Nat, NEW m \in Nat, m > 0, NEW y \in Nat, NEW n \in Nat, n > 0,
         x * n <= y * m
  PROVE  (x * Norm) \div m <= (y * Norm) \div n
<1> DEFINE q == (x * Norm) \div m
<1> DEFINE r == (y * Norm) \div n
<1>1. q \in Int /\ m * q <= x * Norm
  BY Quotient DEF Norm
<1>2. r \in Int /\ y * Norm < n * r + n
  BY Quotient DEF Norm
<1> HIDE DEF q, r
<1>3. SUFFICES ASSUME q >= r + 1 PROVE FALSE
  BY <1>1, <1>2 DEF q, r
<1>4. n * r + n <= n * q
  <2>1. n * (r + 1) <= n * q
    BY <1>1, <1>2, <1>3, Products
  <2> QED
    BY <2>1, <1>1, <1>2
<1>5. y * Norm < n * q
  BY <1>1, <1>2, <1>4 DEF Norm
<1>6. m * (y * Norm) < m * (n * q)
  BY <1>1, <1>5, Products DEF Norm
<1>7. n * (m * q) <= n * (x * Norm)
  BY <1>1, Products DEF Norm
<1>8. n * (x * Norm) <= m * (y * Norm)
  <2>1. n * (x * Norm) = (x * n) * Norm /\ m * (y * Norm) = (y * m) * Norm
    BY DEF Norm
  <2> QED
    BY <2>1 DEF Norm
<1>9. n * (m * q) = m * (n * q)
  BY <1>1
<1> QED
  BY <1>1, <1>6, <1>7, <1>8, <1>9 DEF Norm

\* normalize_pair: the larger of two costs becomes 1.0, the other less.
LEMMA Normalized ==
  ASSUME NEW first \in Nat, first > 0, NEW second \in Nat, second > 0
  PROVE  LET pair == normalize_pair(first, second) IN
         /\ pair[1] \in 0..Norm /\ pair[2] \in 0..Norm
         /\ first <= second => pair[1] = (first * Norm) \div second /\ pair[2] = Norm
         /\ second <= first => pair[1] = Norm /\ pair[2] = (second * Norm) \div first
         /\ first < second => pair[1] < Norm
         /\ second < first => pair[2] < Norm
<1> DEFINE Share(x, m) == (x * Norm) \div m
<1>1. ASSUME NEW x \in Nat, NEW m \in Nat, m > 0
      PROVE  /\ x <= m => Share(x, m) \in 0..Norm
             /\ x < m => Share(x, m) < Norm
             /\ x = m => Share(x, m) = Norm
  <2> DEFINE q == (x * Norm) \div m
  <2>1. q \in Int /\ m * q <= x * Norm /\ x * Norm < m * q + m
    BY <1>1, Quotient DEF Norm
  <2> HIDE DEF q
  <2>2. q >= 0
    <3>1. q <= -1 => m * q <= m * (-1)
      BY <1>1, <2>1, Products
    <3> QED
      BY <1>1, <2>1, <3>1 DEF Norm
  <2>3. x <= m => q <= Norm
    <3>1. q >= Norm + 1 => m * (Norm + 1) <= m * q
      BY <2>1, Products DEF Norm
    <3> QED
      BY <1>1, <2>1, <3>1 DEF Norm
  <2>4. x < m => q < Norm
    <3>1. q >= Norm => m * Norm <= m * q
      BY <2>1, Products DEF Norm
    <3> QED
      BY <1>1, <2>1, <3>1 DEF Norm
  <2>5. x = m => q = Norm
    <3>1. q <= Norm - 1 => m * q <= m * (Norm - 1)
      BY <1>1, <2>1, Products DEF Norm
    <3> QED
      BY <1>1, <2>1, <2>3, <3>1 DEF Norm
  <2>6. x <= m => q \in 0..Norm
    <3>1. q \in Int /\ Norm \in Int
      BY <2>1 DEF Norm
    <3> QED
      BY <2>2, <2>3, <3>1
  <2>7. Share(x, m) = q
    BY DEF q
  <2> HIDE DEF Share
  <2> QED
    BY <2>4, <2>5, <2>6, <2>7
<1>2. Norm \in Nat
  BY DEF Norm
<1> DEFINE shares == normalize_pair(first, second)
<1> SUFFICES /\ shares[1] \in 0..Norm /\ shares[2] \in 0..Norm
             /\ first <= second => shares[1] = Share(first, second) /\ shares[2] = Norm
             /\ second <= first => shares[1] = Norm /\ shares[2] = Share(second, first)
             /\ first < second => shares[1] < Norm
             /\ second < first => shares[2] < Norm
  BY Zenon
<1> HIDE DEF shares, Share
<1>3. CASE first < second
  <2> DEFINE q == Share(first, second)
             r == Share(second, second)
  <2>1. shares[1] = q /\ shares[2] = r
    BY <1>3 DEF normalize_pair, shares, Share
  <2>2. q \in 0..Norm /\ q < Norm /\ r \in 0..Norm /\ r = Norm
    BY <1>1, <1>2, <1>3
  <2> HIDE DEF q, r
  <2>3. shares[1] \in 0..Norm /\ shares[2] \in 0..Norm /\ shares[1] < Norm /\ shares[2] = Norm
    BY <2>1, <2>2
  <2>4. ~(second <= first)
    BY <1>3
  <2> QED
    BY <1>3, <2>1, <2>3, <2>4 DEF q
<1>4. CASE ~(first < second)
  <2> DEFINE q == Share(second, first)
             r == Share(first, first)
  <2>1. shares[1] = r /\ shares[2] = q
    BY <1>4 DEF normalize_pair, shares, Share
  <2>2. q \in 0..Norm /\ r \in 0..Norm /\ r = Norm
    BY <1>1, <1>2, <1>4
  <2>3. second < first => q < Norm
    BY <1>1
  <2>4. first <= second => first = second
    BY <1>4
  <2>5. first = second => q = r
    OBVIOUS
  <2> HIDE DEF q, r
  <2>6. /\ shares[1] \in 0..Norm /\ shares[2] \in 0..Norm /\ shares[1] = Norm
        /\ second < first => shares[2] < Norm
        /\ first <= second => shares[2] = Norm
    BY <2>1, <2>2, <2>3, <2>4, <2>5
  <2>7. first <= second => shares[1] = Share(first, second)
    BY <2>1, <2>4 DEF r
  <2> QED
    BY <1>4, <2>1, <2>6, <2>7 DEF q
<1> QED
  BY <1>3, <1>4

\* The predictions for the lengths and network latencies a request may have.
LEMMA Predictions ==
  ASSUME NEW t \in 1..MAX_OUTPUT_TOKENS, NEW l \in 0..MaxNetworkLatencyMs
  PROVE  /\ predict_edge_latency(t) \in Nat /\ predict_edge_latency(t) > 0
         /\ predict_edge_latency(t) <= 22500
         /\ predict_server_latency(t, l) \in Nat /\ predict_server_latency(t, l) >= 2500
         /\ predict_edge_energy(t) \in Nat /\ predict_edge_energy(t) > 0
         /\ predict_server_energy(t) \in Nat
         /\ predict_edge_energy(t) < predict_server_energy(t)
BY DEF MAX_OUTPUT_TOKENS, MaxNetworkLatencyMs, predict_edge_latency, predict_server_latency,
       predict_edge_energy, predict_server_energy, EDGE_BASE_LATENCY_MS, EDGE_TOKENS_PER_10S,
       SERVER_BASE_LATENCY_MS, SERVER_TOKENS_PER_10S, EDGE_POWER_PROXY_W, SERVER_POWER_PROXY_W

\* A longer answer costs the Pi more than nine times the latency it costs the server,
\* and more energy.
LEMMA LongerAnswers ==
  ASSUME NEW t \in 1..MAX_OUTPUT_TOKENS, NEW t2 \in 1..MAX_OUTPUT_TOKENS, t <= t2,
         NEW l \in 0..MaxNetworkLatencyMs
  PROVE  /\ predict_server_latency(t, l) <= predict_server_latency(t2, l)
         /\ 9 * (predict_server_latency(t2, l) - predict_server_latency(t, l))
              <= predict_edge_latency(t2) - predict_edge_latency(t)
         /\ predict_server_energy(t) <= predict_server_energy(t2)
         /\ predict_server_energy(t2) - predict_server_energy(t)
              <= predict_edge_energy(t2) - predict_edge_energy(t)
BY DEF MAX_OUTPUT_TOKENS, MaxNetworkLatencyMs, predict_edge_latency, predict_server_latency,
       predict_edge_energy, predict_server_energy, EDGE_BASE_LATENCY_MS, EDGE_TOKENS_PER_10S,
       SERVER_BASE_LATENCY_MS, SERVER_TOKENS_PER_10S, EDGE_POWER_PROXY_W, SERVER_POWER_PROXY_W

\* The server is preferred if it is the faster one, and what it saves in normalised
\* latency outweighs what the Pi saves in normalised energy.
LEMMA ServerPreferred ==
  ASSUME NEW t \in 1..MAX_OUTPUT_TOKENS, NEW l \in 0..MaxNetworkLatencyMs, NEW p \in 0..Full
  PROVE  LET edge == predict_edge_latency(t)
             server == predict_server_latency(t, l)
             slower == (server * Norm) \div edge
             dearer == (predict_edge_energy(t) * Norm) \div predict_server_energy(t)
         IN  /\ dearer \in 0..Norm
             /\ server < edge => slower \in 0..Norm
             /\ Preferred(t, l, p) = "server" <=>
                  server < edge /\ p * (Norm - slower) > (Full - p) * (Norm - dearer)
             /\ p = Full => (Preferred(t, l, p) = "edge" <=> edge <= server)
             /\ p = 0 => Preferred(t, l, p) = "edge"
<1> DEFINE edge == predict_edge_latency(t)
<1> DEFINE server == predict_server_latency(t, l)
<1> DEFINE ours == predict_edge_energy(t)
<1> DEFINE theirs == predict_server_energy(t)
<1> DEFINE slower == (server * Norm) \div edge
<1> DEFINE dearer == (ours * Norm) \div theirs
<1> DEFINE latency == normalize_pair(edge, server)
<1> DEFINE energy == normalize_pair(ours, theirs)
<1> DEFINE edgeCost == p * latency[1] + (Full - p) * energy[1]
<1> DEFINE serverCost == p * latency[2] + (Full - p) * energy[2]
<1>1. /\ edge \in Nat /\ edge > 0 /\ server \in Nat /\ server > 0
      /\ ours \in Nat /\ ours > 0 /\ theirs \in Nat /\ theirs > 0 /\ ours < theirs
  BY Predictions
<1>2. Preferred(t, l, p) = IF edgeCost <= serverCost THEN "edge" ELSE "server"
  BY DEF Preferred, costs
<1> HIDE DEF edge, server, ours, theirs
<1>3. /\ latency[1] \in 0..Norm /\ latency[2] \in 0..Norm
      /\ edge <= server => latency[2] = Norm
      /\ server < edge => latency[1] = Norm /\ latency[2] = slower /\ latency[2] < Norm
      /\ edge < server => latency[1] < Norm
      /\ edge = server => latency[1] = Norm
  <2>1. edge = server => latency[2] = Norm /\ latency[1] = Norm
    BY <1>1, Normalized
  <2> QED
    BY <1>1, <2>1, Normalized
<1>4. energy[1] = dearer /\ energy[1] \in 0..Norm /\ energy[2] = Norm
  BY <1>1, Normalized
<1>5. edgeCost = p * latency[1] + (Full - p) * dearer
      /\ serverCost = p * latency[2] + (Full - p) * Norm
  BY <1>4
<1> HIDE DEF slower, dearer, latency, energy, edgeCost, serverCost
<1>6. dearer \in 0..Norm /\ (server < edge => slower \in 0..Norm)
  BY <1>3, <1>4
<1>7. p \in Nat /\ Full - p \in Nat /\ p <= Full /\ Full = 10 /\ Norm = 10000
  BY DEF Full, Norm
<1>8. /\ latency[1] \in Int /\ latency[1] <= 10000 /\ latency[2] \in Int /\ latency[2] <= 10000
      /\ dearer \in Int /\ dearer >= 0 /\ dearer <= 10000
      /\ server < edge => slower \in Int /\ slower <= 10000
  <2>1. ASSUME NEW x \in 0..Norm PROVE x \in Int /\ x >= 0 /\ x <= 10000
    BY <1>7
  <2> QED
    BY <1>3, <1>6, <2>1
<1>9. /\ p * latency[1] \in Int /\ p * latency[2] \in Int /\ p * Norm \in Int
      /\ (Full - p) * dearer \in Int /\ (Full - p) * Norm \in Int
  BY <1>7, <1>8
<1>10. (Full - p) * dearer <= (Full - p) * Norm
  <2>1. dearer <= Norm /\ dearer \in Int /\ Norm \in Int /\ Full - p \in Nat
    BY <1>7, <1>8
  <2> QED
    BY <2>1, Products
<1>11. edge <= server => edgeCost <= serverCost
  <2>1. edge <= server => p * latency[1] <= p * latency[2]
    <3>1. edge <= server => latency[1] <= latency[2]
      <4>1. edge <= server => latency[2] = Norm
        BY <1>3
      <4>2. latency[1] <= Norm
        BY <1>7, <1>8
      <4> QED
        BY <4>1, <4>2
    <3> QED
      BY <1>7, <1>8, <3>1, Products
  <2> QED
    BY <1>1, <1>3, <1>5, <1>10, <1>9, <2>1
<1>12. server < edge => (edgeCost > serverCost <=> p * (Norm - slower) > (Full - p) * (Norm - dearer))
  <2> SUFFICES ASSUME server < edge
               PROVE  edgeCost > serverCost <=> p * (Norm - slower) > (Full - p) * (Norm - dearer)
    OBVIOUS
  <2>1. edgeCost = p * Norm + (Full - p) * dearer /\ serverCost = p * slower + (Full - p) * Norm
    BY <1>3, <1>5
  <2>2. /\ p * (Norm - slower) = p * Norm - p * slower
        /\ (Full - p) * (Norm - dearer) = (Full - p) * Norm - (Full - p) * dearer
    BY <1>7, <1>8
  <2>3. p * slower \in Int
    BY <1>7, <1>8
  <2> QED
    BY <2>1, <2>2, <2>3, <1>9
<1>13. p = Full => (edgeCost <= serverCost <=> edge <= server)
  <2> SUFFICES ASSUME p = Full PROVE edgeCost <= serverCost <=> edge <= server
    OBVIOUS
  <2>1. edgeCost = 10 * latency[1] /\ serverCost = 10 * latency[2]
    BY <1>5, <1>7, <1>8
  <2>2. server < edge => latency[2] < latency[1]
    BY <1>3
  <2>3. server < edge => serverCost < edgeCost
    BY <1>8, <2>1, <2>2
  <2>4. edgeCost \in Int /\ serverCost \in Int
    BY <1>8, <2>1
  <2> QED
    BY <1>1, <1>11, <2>3, <2>4
<1>14. p = 0 => edgeCost <= serverCost
  BY <1>5, <1>7, <1>8
<1>15. edgeCost \in Int /\ serverCost \in Int
  BY <1>5, <1>9
<1>16. /\ Preferred(t, l, p) = "server" <=> edgeCost > serverCost
       /\ Preferred(t, l, p) = "edge" <=> edgeCost <= serverCost
  BY <1>2, <1>15
<1>17. Preferred(t, l, p) = "server" <=>
         server < edge /\ p * (Norm - slower) > (Full - p) * (Norm - dearer)
  BY <1>1, <1>11, <1>12, <1>15, <1>16
<1> QED
  BY <1>6, <1>13, <1>14, <1>16, <1>17 DEF edge, server, ours, theirs, slower, dearer

\* A heavier weight of a larger gain still exceeds a lighter weight of a smaller loss.
LEMMA Weighed ==
  ASSUME NEW weight \in Nat, NEW weight2 \in Nat, weight <= weight2,
         NEW other \in Nat, NEW other2 \in Nat, other2 <= other,
         NEW gain \in Nat, NEW gain2 \in Nat, gain <= gain2,
         NEW loss \in Nat, NEW loss2 \in Nat, loss2 <= loss,
         weight * gain > other * loss
  PROVE  weight2 * gain2 > other2 * loss2
<1>1. weight * gain <= weight * gain2 /\ gain2 * weight <= gain2 * weight2
  BY Products
<1>2. other2 * loss2 <= other2 * loss /\ loss * other2 <= loss * other
  BY Products
<1> QED
  BY <1>1, <1>2

\* The preference for the server is monotone: a longer answer, a faster network or more
\* weight on latency never turns it into one for the Pi.
LEMMA PreferenceMonotone ==
  ASSUME NEW t \in 1..MAX_OUTPUT_TOKENS, NEW l \in 0..MaxNetworkLatencyMs, NEW p \in 0..Full,
         NEW t2 \in 1..MAX_OUTPUT_TOKENS, NEW l2 \in 0..MaxNetworkLatencyMs, NEW p2 \in 0..Full,
         t <= t2, l2 <= l, p <= p2, Preferred(t, l, p) = "server"
  PROVE  Preferred(t2, l2, p2) = "server"
<1> DEFINE edge == predict_edge_latency(t)
<1> DEFINE edge2 == predict_edge_latency(t2)
<1> DEFINE server == predict_server_latency(t, l)
<1> DEFINE server2 == predict_server_latency(t2, l2)
<1> DEFINE between == predict_server_latency(t2, l)
<1> DEFINE ours == predict_edge_energy(t)
<1> DEFINE ours2 == predict_edge_energy(t2)
<1> DEFINE theirs == predict_server_energy(t)
<1> DEFINE theirs2 == predict_server_energy(t2)
<1> DEFINE slower == (server * Norm) \div edge
<1> DEFINE slower2 == (server2 * Norm) \div edge2
<1> DEFINE dearer == (ours * Norm) \div theirs
<1> DEFINE dearer2 == (ours2 * Norm) \div theirs2
<1>1. /\ edge \in Nat /\ edge > 0 /\ edge2 \in Nat /\ edge2 > 0 /\ edge <= 22500
      /\ server \in Nat /\ server >= 2500 /\ server2 \in Nat /\ between \in Nat
      /\ ours \in Nat /\ ours2 \in Nat /\ theirs \in Nat /\ theirs > 0 /\ theirs2 \in Nat /\ theirs2 > 0
      /\ ours < theirs
  BY Predictions
<1>2. /\ server <= between /\ 9 * (between - server) <= edge2 - edge
      /\ theirs <= theirs2 /\ theirs2 - theirs <= ours2 - ours
  BY LongerAnswers
<1>3. server2 <= between
  BY DEF predict_server_latency, SERVER_BASE_LATENCY_MS, SERVER_TOKENS_PER_10S,
         MAX_OUTPUT_TOKENS, MaxNetworkLatencyMs
<1>4. /\ server < edge /\ p * (Norm - slower) > (Full - p) * (Norm - dearer)
      /\ slower \in 0..Norm /\ dearer \in 0..Norm
  BY ServerPreferred
<1>5. /\ Preferred(t2, l2, p2) = "server" <=>
           server2 < edge2 /\ p2 * (Norm - slower2) > (Full - p2) * (Norm - dearer2)
      /\ server2 < edge2 => slower2 \in 0..Norm
      /\ dearer2 \in 0..Norm
  BY ServerPreferred
<1> HIDE DEF edge, edge2, server, server2, between, ours, ours2, theirs, theirs2
<1>6. server2 < edge2
  BY <1>1, <1>2, <1>3, <1>4
<1>7. server2 * edge <= server * edge2
  <2> DEFINE more == between - server
  <2>1. more \in Nat /\ between = server + more /\ edge2 >= edge + 9 * more
    BY <1>1, <1>2
  <2> HIDE DEF more
  <2>2. server2 * edge <= (server + more) * edge
    BY <1>1, <1>3, <2>1, Products
  <2>3. more * edge <= more * (9 * server)
    BY <1>1, <2>1, Products
  <2>4. server * (edge + 9 * more) <= server * edge2
    BY <1>1, <2>1, Products
  <2>5. (server + more) * edge = server * edge + more * edge
        /\ server * (edge + 9 * more) = server * edge + more * (9 * server)
    BY <1>1, <2>1
  <2> QED
    BY <1>1, <2>1, <2>2, <2>3, <2>4, <2>5
<1>8. slower2 <= slower
  BY <1>1, <1>7, Ratios
<1>9. ours * theirs2 <= ours2 * theirs
  <2> DEFINE more == theirs2 - theirs
  <2>1. more \in Nat /\ theirs2 = theirs + more /\ ours2 >= ours + more
    BY <1>1, <1>2
  <2> HIDE DEF more
  <2>2. ours * theirs2 = ours * theirs + more * ours
    BY <1>1, <2>1
  <2>3. more * ours <= more * theirs
    BY <1>1, <2>1, Products
  <2>4. theirs * (ours + more) <= theirs * ours2
    BY <1>1, <2>1, Products
  <2>5. theirs * (ours + more) = ours * theirs + more * theirs /\ theirs * ours2 = ours2 * theirs
    BY <1>1, <2>1
  <2> QED
    BY <1>1, <2>1, <2>2, <2>3, <2>4, <2>5
<1>10. dearer <= dearer2
  BY <1>1, <1>9, Ratios
<1> HIDE DEF slower, slower2, dearer, dearer2
<1>11. slower2 \in 0..Norm
  BY <1>5, <1>6
<1>12. Norm \in Int
  BY DEF Norm
<1>13. Norm - slower \in Nat /\ Norm - slower2 \in Nat /\ Norm - slower <= Norm - slower2
  BY <1>4, <1>8, <1>11, <1>12
<1>14. Norm - dearer \in Nat /\ Norm - dearer2 \in Nat /\ Norm - dearer2 <= Norm - dearer
  BY <1>4, <1>5, <1>10, <1>12
<1>15. p \in Nat /\ p2 \in Nat /\ Full - p \in Nat /\ Full - p2 \in Nat /\ Full - p2 <= Full - p
  BY DEF Full
<1>16. p2 * (Norm - slower2) > (Full - p2) * (Norm - dearer2)
  BY <1>4, <1>13, <1>14, <1>15, Weighed
<1> QED
  BY <1>5, <1>6, <1>16

\* The fields of a request.
LEMMA RequestFields ==
  ASSUME NEW r \in Requests
  PROVE  /\ r.expected_output_tokens \in 1..MAX_OUTPUT_TOKENS
         /\ r.network_latency_ms \in 0..MaxNetworkLatencyMs
         /\ r.priority \in 0..Full
BY RequestsAssumption DEF InferenceRequest

\* A job decided by cost went to the cheaper target.
LEMMA CostDecides ==
  ASSUME RouterInv, NewsInv, NEW j \in Jobs, DecidedByCost(j)
  PROVE  request[j] \in Requests /\ target[j] = CheapestOf(request[j])
<1>1. JobInv(j) /\ News(j)
  BY DEF RouterInv, NewsInv
<1> QED
  BY <1>1 DEF JobInv, News, DecidedByCost

\* "1.0 = latency only": decided by cost with full priority, a request goes to the target
\* predicted to be faster, whatever it asks for (router.py, calculate_routing_metrics).
THEOREM LatencyOnly == MCSpec => []LatencyOnlyIsFastest
<1>1. RouterInv /\ NewsInv => LatencyOnlyIsFastest
  <2> SUFFICES ASSUME RouterInv, NewsInv, NEW j \in Jobs, DecidedByCost(j), request[j].priority = Full
               PROVE  target[j] = "edge" <=>
                        predict_edge_latency(request[j].expected_output_tokens)
                          <= predict_server_latency(request[j].expected_output_tokens,
                                                    request[j].network_latency_ms)
    BY DEF LatencyOnlyIsFastest
  <2>1. request[j] \in Requests /\ target[j] = CheapestOf(request[j])
    BY CostDecides
  <2> QED
    BY <2>1, RequestFields, ServerPreferred DEF CheapestOf
<1> QED
  BY <1>1, NewsInvariant, PTL

\* "0.0 = energy proxy only": no length the request model admits then leaves the Pi.
THEOREM EnergyOnly == MCSpec => []EnergyOnlyStaysOnEdge
<1>1. RouterInv /\ NewsInv => EnergyOnlyStaysOnEdge
  <2> SUFFICES ASSUME RouterInv, NewsInv, NEW j \in Jobs, DecidedByCost(j), request[j].priority = 0
               PROVE  target[j] = "edge"
    BY DEF EnergyOnlyStaysOnEdge
  <2>1. request[j] \in Requests /\ target[j] = CheapestOf(request[j])
    BY CostDecides
  <2> QED
    BY <2>1, RequestFields, ServerPreferred DEF CheapestOf
<1> QED
  BY <1>1, NewsInvariant, PTL

\* No request that is longer, on a faster network or keener on latency than one that
\* went to the server is cheaper on the Pi, though every pair of costs is normalised by
\* its own maximum.
THEOREM ServerChoice == MCSpec => []ServerChoiceIsMonotone
<1>1. RouterInv /\ NewsInv => ServerChoiceIsMonotone
  <2> SUFFICES ASSUME RouterInv, NewsInv, NEW j \in Jobs, DecidedByCost(j), target[j] = "server",
                      NEW r \in EdgeRequests,
                      r.expected_output_tokens >= request[j].expected_output_tokens,
                      r.network_latency_ms <= request[j].network_latency_ms,
                      r.priority >= request[j].priority
               PROVE  FALSE
    BY DEF ServerChoiceIsMonotone
  <2>1. request[j] \in Requests /\ CheapestOf(request[j]) = "server"
    BY CostDecides
  <2>2. r \in Requests /\ CheapestOf(r) = "edge"
    BY DEF EdgeRequests
  <2>3. CheapestOf(r) = "server"
    <3> DEFINE q == request[j]
    <3>1. /\ q.expected_output_tokens \in 1..MAX_OUTPUT_TOKENS
          /\ q.network_latency_ms \in 0..MaxNetworkLatencyMs /\ q.priority \in 0..Full
      BY <2>1, RequestFields
    <3>2. /\ r.expected_output_tokens \in 1..MAX_OUTPUT_TOKENS
          /\ r.network_latency_ms \in 0..MaxNetworkLatencyMs /\ r.priority \in 0..Full
      BY <2>2, RequestFields
    <3>3. /\ q.expected_output_tokens <= r.expected_output_tokens /\ q.priority <= r.priority
          /\ Preferred(q.expected_output_tokens, q.network_latency_ms, q.priority) = "server"
      BY <2>1, <3>1, <3>2 DEF CheapestOf, Full, MAX_OUTPUT_TOKENS
    <3> QED
      BY <3>1, <3>2, <3>3, PreferenceMonotone DEF CheapestOf
  <2> QED
    BY <2>2, <2>3
<1> QED
  BY <1>1, NewsInvariant, PTL

-----------------------------------------------------------------------------
(* The chat page. *)

\* A message that is in a sequence once, or not at all.
OneOf(s, m) == \E i \in DOMAIN s : \A k \in DOMAIN s : s[k] = m <=> k = i
NoneOf(s, m) == \A k \in DOMAIN s : s[k] # m

\* A message of the page.
ChatMessage == [kind : {"user", "loading", "answer", "error"}, job : Jobs]

\* A prompt under way was asked and has one loading message, the others have none; the
\* router has the request that was asked, if any.
PageInv ==
  /\ chat \in Seq(ChatMessage)
  /\ asked \in [Jobs -> Requests \cup {NoRequest}]
  /\ pending \subseteq Jobs
  /\ disabled => pending # {}
  /\ \A j \in Jobs :
       /\ j \in pending => asked[j] # NoRequest /\ OneOf(chat, Loading(j))
       /\ j \notin pending => NoneOf(chat, Loading(j))
       /\ phase[j] # "idle" => request[j] = asked[j] /\ asked[j] # NoRequest

\* Messages differ if their prompts or their kinds do.
LEMMA MessagesDiffer ==
  ASSUME NEW a, NEW j, NEW b, NEW k, Message(a, j) = Message(b, k)
  PROVE  a = b /\ j = k
BY DEF Message

\* Appending messages.
LEMMA Appended ==
  ASSUME NEW S, NEW s \in Seq(S), NEW m \in S
  PROVE  /\ Append(s, m) \in Seq(S) /\ DOMAIN Append(s, m) = 1..(Len(s) + 1)
         /\ DOMAIN s = 1..Len(s) /\ Len(s) \in Nat
         /\ \A i \in DOMAIN s : Append(s, m)[i] = s[i]
         /\ Append(s, m)[Len(s) + 1] = m
OBVIOUS

\* Removing one message.
LEMMA Removed ==
  ASSUME NEW S, NEW s \in Seq(S), NEW i \in DOMAIN s
  PROVE  /\ RemoveAt(s, i) \in Seq(S)
         /\ DOMAIN RemoveAt(s, i) = 1..(Len(s) - 1) /\ DOMAIN s = 1..Len(s) /\ Len(s) \in Nat
         /\ \A k \in 1..(Len(s) - 1) : RemoveAt(s, i)[k] = IF k < i THEN s[k] ELSE s[k + 1]
<1>1. i \in 1..Len(s) /\ Len(s) \in Nat /\ DOMAIN s = 1..Len(s)
  OBVIOUS
<1> DEFINE front == SubSeq(s, 1, i - 1)
<1> DEFINE back == SubSeq(s, i + 1, Len(s))
<1>2. front \in Seq(S) /\ Len(front) = i - 1 /\ \A k \in 1..(i - 1) : front[k] = s[k]
  BY <1>1
<1>3. back \in Seq(S) /\ Len(back) = Len(s) - i /\ \A k \in 1..(Len(s) - i) : back[k] = s[i + k]
  BY <1>1
<1> HIDE DEF front, back
<1>4. RemoveAt(s, i) = front \o back
  BY DEF RemoveAt, front, back
<1>5. /\ front \o back \in Seq(S) /\ Len(front \o back) = Len(s) - 1
      /\ \A k \in 1..(Len(s) - 1) : (front \o back)[k] = IF k <= i - 1 THEN front[k] ELSE back[k - (i - 1)]
  <2>1. /\ front \o back \in Seq(S) /\ Len(front \o back) = Len(front) + Len(back)
        /\ \A k \in 1..(Len(front) + Len(back)) :
             (front \o back)[k] = IF k <= Len(front) THEN front[k] ELSE back[k - Len(front)]
    BY <1>2, <1>3, ConcatProperties
  <2>2. Len(front) = i - 1 /\ Len(front) + Len(back) = Len(s) - 1
    BY <1>1, <1>2, <1>3
  <2> QED
    BY <2>1, <2>2
<1>6. ASSUME NEW k \in 1..(Len(s) - 1) PROVE (front \o back)[k] = IF k < i THEN s[k] ELSE s[k + 1]
  <2>1. CASE k < i
    BY <2>1, <1>1, <1>2, <1>5
  <2>2. CASE ~(k < i)
    <3>1. (front \o back)[k] = back[k - (i - 1)] /\ k - (i - 1) \in 1..(Len(s) - i)
      BY <2>2, <1>1, <1>5
    <3>2. back[k - (i - 1)] = s[i + (k - (i - 1))] /\ i + (k - (i - 1)) = k + 1
      BY <3>1, <1>1, <1>3
    <3> QED
      BY <2>2, <3>1, <3>2
  <2> QED
    BY <2>1, <2>2
<1>7. DOMAIN (front \o back) = 1..(Len(s) - 1)
  BY <1>5
<1> QED
  BY <1>1, <1>4, <1>5, <1>6, <1>7

\* Another message that is appended, replaced or removed leaves a message alone.
LEMMA OtherAppended ==
  ASSUME NEW S, NEW s \in Seq(S), NEW n \in S, NEW m, n # m
  PROVE  /\ OneOf(s, m) => OneOf(Append(s, n), m)
         /\ NoneOf(s, m) => NoneOf(Append(s, n), m)
<1> DEFINE longer == Append(s, n)
<1>1. /\ DOMAIN longer = 1..(Len(s) + 1) /\ DOMAIN s = 1..Len(s) /\ Len(s) \in Nat
      /\ \A i \in DOMAIN s : longer[i] = s[i]
      /\ longer[Len(s) + 1] = n
  BY Appended
<1> HIDE DEF longer
<1>2. \A i \in DOMAIN longer : i \in DOMAIN s \/ i = Len(s) + 1
  BY <1>1
<1>3. DOMAIN s \subseteq DOMAIN longer /\ Len(s) + 1 \notin DOMAIN s
  BY <1>1
<1>4. NoneOf(s, m) => NoneOf(longer, m)
  BY <1>1, <1>2 DEF NoneOf
<1>5. OneOf(s, m) => OneOf(longer, m)
  BY <1>1, <1>2, <1>3 DEF OneOf
<1> QED
  BY <1>4, <1>5 DEF longer

\* A new message, appended, is there once.
LEMMA NewAppended ==
  ASSUME NEW S, NEW s \in Seq(S), NEW m \in S, NoneOf(s, m)
  PROVE  OneOf(Append(s, m), m)
<1> DEFINE longer == Append(s, m)
<1>1. /\ DOMAIN longer = 1..(Len(s) + 1) /\ DOMAIN s = 1..Len(s) /\ Len(s) \in Nat
      /\ \A i \in DOMAIN s : longer[i] = s[i]
      /\ longer[Len(s) + 1] = m
  BY Appended
<1> HIDE DEF longer
<1>2. \A i \in DOMAIN longer : i \in DOMAIN s \/ i = Len(s) + 1
  BY <1>1
<1>3. Len(s) + 1 \in DOMAIN longer /\ Len(s) + 1 \notin DOMAIN s
  BY <1>1
<1>4. \A k \in DOMAIN longer : longer[k] = m <=> k = Len(s) + 1
  BY <1>1, <1>2, <1>3 DEF NoneOf
<1>5. OneOf(longer, m)
  BY <1>3, <1>4 DEF OneOf
<1> QED
  BY <1>5 DEF longer

\* Writing into a message.
LEMMA OtherReplaced ==
  ASSUME NEW S, NEW s \in Seq(S), NEW i \in DOMAIN s, NEW n \in S, NEW m, n # m
  PROVE  /\ ReplaceAt(s, i, n) \in Seq(S)
         /\ s[i] # m /\ OneOf(s, m) => OneOf(ReplaceAt(s, i, n), m)
         /\ s[i] # m /\ NoneOf(s, m) => NoneOf(ReplaceAt(s, i, n), m)
         /\ (\A k \in DOMAIN s : s[k] = m <=> k = i) => NoneOf(ReplaceAt(s, i, n), m)
<1> DEFINE changed == ReplaceAt(s, i, n)
<1>1. /\ changed \in Seq(S) /\ DOMAIN changed = DOMAIN s
      /\ \A k \in DOMAIN s : changed[k] = IF k = i THEN n ELSE s[k]
  BY DEF ReplaceAt
<1> HIDE DEF changed
<1>2. s[i] # m /\ NoneOf(s, m) => NoneOf(changed, m)
  BY <1>1 DEF NoneOf
<1>3. ASSUME s[i] # m, OneOf(s, m) PROVE OneOf(changed, m)
  <2>1. \A k \in DOMAIN s : changed[k] = m <=> s[k] = m
    BY <1>1, <1>3
  <2>2. PICK j \in DOMAIN s : \A k \in DOMAIN s : s[k] = m <=> k = j
    BY <1>3 DEF OneOf
  <2>3. \A k \in DOMAIN changed : changed[k] = m <=> k = j
    BY <1>1, <2>1, <2>2
  <2> QED
    BY <1>1, <2>2, <2>3 DEF OneOf
<1>4. (\A k \in DOMAIN s : s[k] = m <=> k = i) => NoneOf(changed, m)
  BY <1>1 DEF NoneOf
<1> QED
  BY <1>1, <1>2, <1>3, <1>4 DEF changed

\* Removing a message.
LEMMA OtherRemoved ==
  ASSUME NEW S, NEW s \in Seq(S), NEW i \in DOMAIN s, NEW m
  PROVE  /\ s[i] # m /\ OneOf(s, m) => OneOf(RemoveAt(s, i), m)
         /\ s[i] # m /\ NoneOf(s, m) => NoneOf(RemoveAt(s, i), m)
         /\ (\A k \in DOMAIN s : s[k] = m <=> k = i) => NoneOf(RemoveAt(s, i), m)
<1> DEFINE rest == RemoveAt(s, i)
<1>1. /\ DOMAIN rest = 1..(Len(s) - 1) /\ DOMAIN s = 1..Len(s) /\ Len(s) \in Nat
      /\ \A k \in 1..(Len(s) - 1) : rest[k] = IF k < i THEN s[k] ELSE s[k + 1]
  BY Removed
<1> HIDE DEF rest
<1>2. \A k \in DOMAIN rest : k \in DOMAIN s /\ k + 1 \in DOMAIN s /\ k \in Int
  BY <1>1
<1>3. i \in Int /\ i \in 1..Len(s)
  BY <1>1
<1>4. s[i] # m /\ NoneOf(s, m) => NoneOf(rest, m)
  BY <1>1, <1>2 DEF NoneOf
<1>5. ASSUME NEW k \in DOMAIN rest
      PROVE  \E q \in DOMAIN s : q # i /\ rest[k] = s[q] /\ q = IF k < i THEN k ELSE k + 1
  BY <1>1, <1>2, <1>3
<1>6. (\A k \in DOMAIN s : s[k] = m <=> k = i) => NoneOf(rest, m)
  BY <1>5 DEF NoneOf
<1>7. ASSUME s[i] # m, OneOf(s, m) PROVE OneOf(rest, m)
  <2>1. PICK at \in DOMAIN s : \A k \in DOMAIN s : s[k] = m <=> k = at
    BY <1>7 DEF OneOf
  <2>2. at # i /\ at \in 1..Len(s)
    BY <1>1, <1>7, <2>1
  <2> DEFINE now == IF at < i THEN at ELSE at - 1
  <2>3. now \in DOMAIN rest
    BY <1>1, <1>3, <2>2
  <2>4. ASSUME NEW k \in DOMAIN rest PROVE rest[k] = m <=> k = now
    <3>1. CASE k < i
      <4>1. rest[k] = s[k] /\ k \in DOMAIN s
        BY <1>1, <1>2, <3>1
      <4> QED
        BY <4>1, <2>1, <2>2, <3>1, <1>2, <1>3
    <3>2. CASE ~(k < i)
      <4>1. rest[k] = s[k + 1] /\ k + 1 \in DOMAIN s
        BY <1>1, <1>2, <3>2
      <4> QED
        BY <4>1, <2>1, <2>2, <3>2, <1>2, <1>3
    <3> QED
      BY <3>1, <3>2
  <2> QED
    BY <2>3, <2>4 DEF OneOf
<1> QED
  BY <1>4, <1>6, <1>7 DEF rest

\* The page's steps are steps of the router, or none.
LEMMA PageRoutes == PageInv /\ [PageNext]_vars => [Next]_routerVars
<1> SUFFICES ASSUME PageInv, [PageNext]_vars PROVE [Next]_routerVars
  OBVIOUS
<1>1. ASSUME NEW j \in Jobs, RequestArrives(j) PROVE Next
  <2>1. asked[j] \in Requests /\ Receive(j, asked[j])
    BY <1>1 DEF RequestArrives, PageInv
  <2> QED
    BY <2>1 DEF Next
<1>2. ASSUME NEW j \in Jobs, NEW r \in Requests, SendPrompt(j, r) PROVE UNCHANGED routerVars
  BY <1>2 DEF SendPrompt
<1>3. ASSUME NEW j \in Jobs, ReplyShown(j) \/ FetchFails(j) PROVE UNCHANGED routerVars
  BY <1>3 DEF ReplyShown, FetchFails
<1>4. ASSUME NEW j \in Jobs, Handle(j) PROVE Next
  BY <1>4 DEF Next
<1> QED
  BY <1>1, <1>2, <1>3, <1>4 DEF PageNext, Next, vars

\* The page's messages.
LEMMA ChatMessages ==
  ASSUME NEW j \in Jobs, NEW k \in Jobs
  PROVE  /\ Loading(j) \in ChatMessage /\ Message("user", j) \in ChatMessage
         /\ Message("answer", j) \in ChatMessage /\ Message("error", j) \in ChatMessage
         /\ Message("user", j) # Loading(k) /\ Message("answer", j) # Loading(k)
         /\ Message("error", j) # Loading(k)
         /\ j # k => Loading(j) # Loading(k)
<1>1. /\ Loading(j) \in ChatMessage /\ Message("user", j) \in ChatMessage
      /\ Message("answer", j) \in ChatMessage /\ Message("error", j) \in ChatMessage
  BY DEF Loading, Message, ChatMessage
<1>2. /\ Message("user", j) # Loading(k) /\ Message("answer", j) # Loading(k)
      /\ Message("error", j) # Loading(k)
  BY MessagesDiffer DEF Loading
<1>3. j # k => Loading(j) # Loading(k)
  BY MessagesDiffer DEF Loading
<1> QED
  BY <1>1, <1>2, <1>3

\* What comes back to the page ends one prompt: its loading message goes, the others stay.
LEMMA PromptEnds ==
  ASSUME PageInv, NEW j \in Jobs, j \in pending, pending' = pending \ {j}, disabled' = FALSE,
         chat' \in {WithoutLoading(j), Append(WithoutLoading(j), Message("answer", j)), WithError(j)},
         UNCHANGED <<asked, routerVars>>
  PROVE  PageInv'
<1> DEFINE at == LoadingAt(j)
<1>0. chat \in Seq(ChatMessage) /\ OneOf(chat, Loading(j))
  BY DEF PageInv
<1>1. PICK i \in DOMAIN chat : \A k \in DOMAIN chat : chat[k] = Loading(j) <=> k = i
  BY <1>0 DEF OneOf
<1>2. at = i
  BY <1>1 DEF LoadingAt
<1>3. at \in DOMAIN chat /\ chat[at] = Loading(j) /\ \A k \in DOMAIN chat : chat[k] = Loading(j) <=> k = at
  BY <1>1, <1>2
<1> DEFINE rest == RemoveAt(chat, at)
<1> DEFINE answered == Append(rest, Message("answer", j))
<1> DEFINE failing == ReplaceAt(chat, at, Message("error", j))
<1>4. chat' = rest \/ chat' = answered \/ chat' = failing
  BY DEF WithoutLoading, WithError
<1>5. rest \in Seq(ChatMessage)
  BY <1>0, <1>3, Removed
<1>6. answered \in Seq(ChatMessage)
  BY <1>5, ChatMessages, Appended
<1>7. failing \in Seq(ChatMessage)
  BY <1>0, <1>3, ChatMessages, OtherReplaced
<1>8. NoneOf(rest, Loading(j)) /\ NoneOf(answered, Loading(j)) /\ NoneOf(failing, Loading(j))
  <2>1. NoneOf(rest, Loading(j))
    BY <1>0, <1>3, OtherRemoved
  <2>2. NoneOf(answered, Loading(j))
    BY <2>1, <1>5, ChatMessages, OtherAppended
  <2>3. NoneOf(failing, Loading(j))
    BY <1>0, <1>3, ChatMessages, OtherReplaced
  <2> QED
    BY <2>1, <2>2, <2>3
<1>9. ASSUME NEW k \in Jobs, k # j
      PROVE  /\ OneOf(chat, Loading(k)) =>
                  OneOf(rest, Loading(k)) /\ OneOf(answered, Loading(k)) /\ OneOf(failing, Loading(k))
             /\ NoneOf(chat, Loading(k)) =>
                  NoneOf(rest, Loading(k)) /\ NoneOf(answered, Loading(k)) /\ NoneOf(failing, Loading(k))
  <2>0. chat[at] # Loading(k)
    BY <1>3, <1>9, ChatMessages
  <2>1. /\ OneOf(chat, Loading(k)) => OneOf(rest, Loading(k))
        /\ NoneOf(chat, Loading(k)) => NoneOf(rest, Loading(k))
    BY <2>0, <1>0, <1>3, OtherRemoved
  <2>2. /\ OneOf(rest, Loading(k)) => OneOf(answered, Loading(k))
        /\ NoneOf(rest, Loading(k)) => NoneOf(answered, Loading(k))
    BY <1>5, ChatMessages, OtherAppended
  <2>3. /\ OneOf(chat, Loading(k)) => OneOf(failing, Loading(k))
        /\ NoneOf(chat, Loading(k)) => NoneOf(failing, Loading(k))
    BY <2>0, <1>0, <1>3, ChatMessages, OtherReplaced
  <2> QED
    BY <2>1, <2>2, <2>3
<1> HIDE DEF rest, answered, failing
<1>10. chat' \in Seq(ChatMessage) /\ NoneOf(chat', Loading(j))
  BY <1>4, <1>5, <1>6, <1>7, <1>8
<1>11. \A k \in Jobs : k # j =>
         /\ OneOf(chat, Loading(k)) => OneOf(chat', Loading(k))
         /\ NoneOf(chat, Loading(k)) => NoneOf(chat', Loading(k))
  BY <1>4, <1>9
<1>12. ASSUME NEW k \in Jobs
       PROVE  /\ k \in pending' => asked'[k] # NoRequest /\ OneOf(chat', Loading(k))
              /\ k \notin pending' => NoneOf(chat', Loading(k))
              /\ phase'[k] # "idle" => request'[k] = asked'[k] /\ asked'[k] # NoRequest
  BY <1>10, <1>11 DEF PageInv, routerVars
<1> QED
  BY <1>10, <1>12 DEF PageInv, ChatMessage, OneOf, NoneOf, Loading, Message

\* Every step of the page keeps PageInv.
LEMMA PageStep == RouterInv /\ PageInv /\ [PageNext]_vars => PageInv'
<1> SUFFICES ASSUME RouterInv, PageInv, [PageNext]_vars PROVE PageInv'
  OBVIOUS
<1>0. RouterTypeOK
  BY DEF RouterInv
<1>1. ASSUME NEW j \in Jobs, NEW r \in Requests, SendPrompt(j, r) PROVE PageInv'
  <2> DEFINE user == Message("user", j)
  <2> DEFINE one == Append(chat, user)
  <2> DEFINE two == Append(one, Loading(j))
  <2>1. chat \in Seq(ChatMessage) /\ user \in ChatMessage /\ Loading(j) \in ChatMessage
    BY ChatMessages DEF PageInv
  <2>2. one \in Seq(ChatMessage) /\ two \in Seq(ChatMessage)
    BY <2>1
  <2>3. chat' = two
    BY <1>1, <2>1 DEF SendPrompt
  <2>4. /\ j \notin pending /\ NoneOf(chat, Loading(j)) /\ phase[j] = "idle"
        /\ asked' = [asked EXCEPT ![j] = r] /\ pending' = pending \cup {j}
        /\ UNCHANGED routerVars /\ r # NoRequest /\ asked \in [Jobs -> Requests \cup {NoRequest}]
    BY <1>1, ForcedTargets DEF SendPrompt, PageInv
  <2>5. OneOf(two, Loading(j))
    <3>1. NoneOf(one, Loading(j))
      BY <2>1, <2>4, ChatMessages, OtherAppended
    <3> QED
      BY <3>1, <2>1, <2>2, NewAppended
  <2>6. ASSUME NEW k \in Jobs, k # j
        PROVE  /\ OneOf(chat, Loading(k)) => OneOf(two, Loading(k))
               /\ NoneOf(chat, Loading(k)) => NoneOf(two, Loading(k))
    <3>1. /\ OneOf(chat, Loading(k)) => OneOf(one, Loading(k))
          /\ NoneOf(chat, Loading(k)) => NoneOf(one, Loading(k))
      BY <2>1, ChatMessages, OtherAppended
    <3>2. /\ OneOf(one, Loading(k)) => OneOf(two, Loading(k))
          /\ NoneOf(one, Loading(k)) => NoneOf(two, Loading(k))
      BY <2>1, <2>2, <2>6, ChatMessages, OtherAppended
    <3> QED
      BY <3>1, <3>2
  <2> HIDE DEF one, two, user
  <2>7. ASSUME NEW k \in Jobs
        PROVE  /\ k \in pending' => asked'[k] # NoRequest /\ OneOf(chat', Loading(k))
               /\ k \notin pending' => NoneOf(chat', Loading(k))
               /\ phase'[k] # "idle" => request'[k] = asked'[k] /\ asked'[k] # NoRequest
    BY <2>3, <2>4, <2>5, <2>6 DEF PageInv, routerVars
  <2>8. asked' \in [Jobs -> Requests \cup {NoRequest}] /\ pending' \subseteq Jobs /\ pending' # {}
    BY <2>4 DEF PageInv
  <2> QED
    BY <2>2, <2>3, <2>7, <2>8 DEF PageInv, ChatMessage, OneOf, NoneOf, Loading, Message
<1>2. ASSUME NEW j \in Jobs, RequestArrives(j) PROVE PageInv'
  <2>1. /\ UNCHANGED pageVars /\ asked[j] # NoRequest /\ phase[j] = "idle"
        /\ request' = [request EXCEPT ![j] = asked[j]]
        /\ \A k \in Jobs : k # j => phase'[k] = phase[k]
    BY <1>2, <1>0 DEF RequestArrives, Receive, DecideAnd, RouterTypeOK
  <2>2. ASSUME NEW k \in Jobs, phase'[k] # "idle" PROVE request'[k] = asked[k] /\ asked[k] # NoRequest
    BY <2>1, <2>2, <1>0 DEF PageInv, RouterTypeOK
  <2> QED
    BY <2>1, <2>2 DEF PageInv, pageVars, OneOf, NoneOf, Loading, Message, ChatMessage
<1>3. ASSUME NEW j \in Jobs, Handle(j), UNCHANGED pageVars PROVE PageInv'
  <2>1. phase[j] # "idle" /\ request' = request /\ \A k \in Jobs : k # j => phase'[k] = phase[k]
    BY <1>3, <1>0
    DEF Handle, CheckEdge, CheckServer, Post, Answer, Fail, DecideAnd, RouterTypeOK
  <2> QED
    BY <1>3, <2>1 DEF PageInv, pageVars, OneOf, NoneOf, Loading, Message, ChatMessage
<1>4. ASSUME NEW j \in Jobs, ReplyShown(j) \/ FetchFails(j) PROVE PageInv'
  <2>1. /\ j \in pending /\ pending' = pending \ {j} /\ disabled' = FALSE
        /\ chat' \in {WithoutLoading(j), Append(WithoutLoading(j), Message("answer", j)), WithError(j)}
        /\ UNCHANGED <<asked, routerVars>>
    BY <1>4 DEF ReplyShown, FetchFails
  <2> QED
    BY <2>1, PromptEnds
<1>5. CASE EndpointChanges /\ UNCHANGED pageVars
  BY <1>5 DEF EndpointChanges, jobVars, PageInv, pageVars, OneOf, NoneOf, Loading, Message, ChatMessage
<1>6. CASE UNCHANGED vars
  BY <1>6 DEF vars, pageVars, routerVars, PageInv, OneOf, NoneOf, Loading, Message, ChatMessage
<1> QED
  BY <1>1, <1>2, <1>3, <1>4, <1>5, <1>6 DEF PageNext

\* RouterInv and PageInv hold in every reachable state of the page and its router.
LEMMA PageInvariant == PageSpec => [](RouterInv /\ PageInv)
<1>1. PageInit => RouterInv /\ PageInv
  <2> SUFFICES ASSUME PageInit PROVE PageInv
    BY RouterStart DEF PageInit
  <2>1. /\ chat = <<>> /\ pending = {} /\ disabled = FALSE
        /\ asked \in [Jobs -> Requests \cup {NoRequest}] /\ \A j \in Jobs : phase[j] = "idle"
    BY DEF PageInit, Init
  <2>2. chat \in Seq(ChatMessage) /\ \A m : NoneOf(chat, m)
    BY <2>1 DEF NoneOf
  <2> QED
    BY <2>1, <2>2 DEF PageInv
<1> QED
  BY <1>1, RouterStep, PageStep, PageRoutes, PTL DEF PageSpec

\* Every prompt under way has exactly one loading message and no other prompt has any,
\* in whatever order any number of them end (sendPrompt of web/index.html).
THEOREM OneLoadingEach == PageSpec => []LoadingMeansPending
<1>1. PageInv => LoadingMeansPending
  <2> SUFFICES ASSUME PageInv, NEW j \in Jobs
               PROVE  Cardinality({i \in DOMAIN chat : chat[i] = Loading(j)})
                        = IF j \in pending THEN 1 ELSE 0
    BY DEF LoadingMeansPending
  <2>1. CASE j \in pending
    <3>1. PICK i \in DOMAIN chat : \A k \in DOMAIN chat : chat[k] = Loading(j) <=> k = i
      BY <2>1 DEF PageInv, OneOf
    <3>2. {k \in DOMAIN chat : chat[k] = Loading(j)} = {i}
      BY <3>1
    <3> QED
      BY <2>1, <3>2, FS_Singleton
  <2>2. CASE j \notin pending
    <3>1. {k \in DOMAIN chat : chat[k] = Loading(j)} = {}
      BY <2>2 DEF PageInv, NoneOf
    <3> QED
      BY <2>2, <3>1, FS_EmptySet
  <2> QED
    BY <2>1, <2>2
<1> QED
  BY <1>1, PageInvariant, PTL

\* The button is enabled again whenever nothing is under way, whatever came back.
THEOREM ButtonBack == PageSpec => []ButtonComesBack
<1>1. PageInv => ButtonComesBack
  BY DEF PageInv, ButtonComesBack
<1> QED
  BY <1>1, PageInvariant, PTL

\* A prompt with the Private box ticked never reaches the server from the page, if the
\* page asks in the adaptive mode as its sendPrompt does.
THEOREM PrivateChat ==
  ASSUME \A r \in Requests : r.mode = "routeedge"
  PROVE  PageSpec => []PrivateChatStaysOnEdge
<1>1. RouterInv /\ PageInv => PrivateChatStaysOnEdge
  <2> SUFFICES ASSUME RouterInv, PageInv, NEW j \in Jobs, asked[j] # NoRequest, asked[j].private,
                      "server" \in received[j]
               PROVE  FALSE
    BY DEF PrivateChatStaysOnEdge
  <2>1. JobInv(j) /\ RouterTypeOK
    BY DEF RouterInv
  <2>2. phase[j] \in {"wait", "done"} /\ target[j] = "server" /\ request[j] \in Requests
    BY <2>1 DEF JobInv, RouterTypeOK
  <2>3. request[j] = asked[j]
    BY <2>2 DEF PageInv
  <2>4. Forced(request[j]) = "edge"
    BY <2>2, <2>3, ForcedTargets
  <2> QED
    BY <2>1, <2>2, <2>4 DEF JobInv, NoTarget
<1> QED
  BY <1>1, PageInvariant, PTL

=============================================================================
