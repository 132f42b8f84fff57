------------------------------ MODULE Serving ------------------------------
(***************************************************************************)
(* Generation during a run of verl/experimental/fully_async_policy: agent  *)
(* loops whose turns are interrupted and resumed (FullyAsyncLLMServer-     *)
(* Client), the load balancer, vLLM servers that pause, abort, load        *)
(* weights and sleep, and the trainer, which synchronises weights and      *)
(* borrows its own GPUs as hybrid servers to validate.  A remote call to   *)
(* several servers (asyncio.gather) is one action per server, in any       *)
(* order; the trainer goes on when all have answered.                      *)
(***************************************************************************)
EXTENDS LoadBalancer

CONSTANTS
  PartialRollout,  (* async_training.partial_rollout                         *)
  EnginePauses,    (* vLLM >= 0.12: abort_all_requests pauses the engine     *)
  ResponseLength,  (* response_length, in tokens                             *)
  DynamicMaxTokens,(* enable_dynamic_max_tokens                              *)
  Slack,           (* prompt_length minus the length of the prompt           *)
  MaxTurns,        (* bound of the model: turns of each conversation         *)
  MaxVersion,      (* bound of the model: weight synchronisations            *)
  ValidateAt       (* the versions the trainer validates on its own GPUs     *)

ASSUME ServingAssumption ==
  /\ {PartialRollout, EnginePauses, DynamicMaxTokens} \subseteq BOOLEAN
  /\ ResponseLength \in Nat \ {0}
  /\ MaxTurns \in [Request -> Nat \ {0}]
  /\ {Slack, MaxVersion} \subseteq Nat
  /\ ValidateAt \subseteq IF NumHybrid = 0 THEN {} ELSE 1 .. MaxVersion

NoVersion == -1           (* Python's None                                   *)
Released == -2            (* the weights of a sleeping server                *)
Version == 0 .. MaxVersion

VARIABLES
  turn,      (* what the agent loop and its client know of each conversation *)
  paused,    (* servers whose engine admits no request                       *)
  weights,   (* what each engine computes with                               *)
  label,     (* self.global_steps of each server                             *)
  version,   (* current_param_version of the trainer                         *)
  script,    (* the trainer's remote calls yet to be made, the current first *)
  todo       (* the servers that have not yet answered the current one       *)

engines == <<paused, weights, label>>
training == <<version, script, todo>>
vars == <<lbVars, turn, engines, training>>

(* A conversation: pc is where its generate call is, no counts its turns;   *)
(* got and lo are what generate keeps over interruptions, the number of     *)
(* tokens and min_global_steps of final_output, forgotten when it returns;  *)
(* stop is the stop_reason it returned last; first and last are what the    *)
(* agent loop keeps of the versions of its turns; fresh and now are the     *)
(* tokens of the engine call under way and the weights that made them, used *)
(* all weights; stray is history: a server fell asleep with its request.     *)
NoTurn == [pc |-> "idle", no |-> 0, got |-> 0, fresh |-> 0,
           lo |-> NoVersion, stop |-> "none",
           first |-> NoVersion, last |-> NoVersion, now |-> {}, used |-> {},
           stray |-> FALSE]

(* The state after the first synchronisation: hybrid servers sleep. *)
Init ==
  /\ LBInit
  /\ turn = [r \in Request |-> NoTurn]
  /\ paused = {}
  /\ weights = [s \in Server |-> IF s \in Standalone THEN 0 ELSE Released]
  /\ label = [s \in Server |-> IF s \in Standalone THEN 0 ELSE NoVersion]
  /\ version = 0
  /\ script = <<>>
  /\ todo = {}

-----------------------------------------------------------------------------
(* Client and server.                                                       *)

Running(s) == {r \in Request : turn[r].pc = "running" /\ ticket[r] = s}

(* The agent loop calls generate for a next turn, or the client, after its  *)
(* second of rest, for the remainder of this one.                           *)
CallServer(r) ==
  /\ \/ turn[r].pc = "idle" /\ turn[r].no < MaxTurns[r]
     \/ turn[r].pc = "resting"
  /\ \E s \in Server : AcquireServer(r, s)
  /\ turn' = [turn EXCEPT ![r] =
                [turn[r] EXCEPT !.pc = "sent",
                                !.no = turn[r].no + (IF turn[r].pc = "idle" THEN 1 ELSE 0)]]
  /\ UNCHANGED <<engines, training>>

(* The request reaches the engine, which makes it wait while paused. *)
EnterEngine(r) ==
  /\ turn[r].pc = "sent"
  /\ ticket[r] \notin paused
  /\ turn' = [turn EXCEPT ![r].pc = "running"]
  /\ UNCHANGED <<lbVars, engines, training>>

(* fault: what the request has already is not counted *)
BudgetFaulty(t) ==
  IF DynamicMaxTokens THEN Slack + ResponseLength ELSE ResponseLength

(* max_tokens as the server computes it, a request giving none: what is     *)
(* left of prompt_length + response_length, at most response_length unless  *)
(* in the dynamic mode.                                                     *)
Budget(t) ==
  LET left == Slack + ResponseLength - t.got
  IN  IF DynamicMaxTokens \/ left < ResponseLength
      THEN left ELSE ResponseLength

WithToken(t, s) == [t EXCEPT !.fresh = @ + 1, !.now = @ \cup {weights[s]}]

GenerateToken(r) ==
  /\ turn[r].pc = "running"
  /\ turn[r].fresh + 1 < Budget(turn[r])
  /\ turn' = [turn EXCEPT ![r] = WithToken(@, ticket[r])]
  /\ UNCHANGED <<lbVars, engines, training>>

(* Does the client return the turn, or go on with it?  (rollouter:142) *)
EndsTurnFaulty(stop) == TRUE           (* fault: an abort ends the turn *)
EndsTurn(stop) == stop # "aborted" \/ ~ PartialRollout

(* fault: max_global_steps, too, is only set once *)
MergedFaulty(t, stop, l, lost) ==
  LET v == IF lost THEN NoVersion ELSE l
      lo == IF t.lo = NoVersion THEN v ELSE t.lo
      answer == [t EXCEPT !.fresh = 0, !.now = {},
                          !.used = IF lost THEN @ ELSE @ \cup t.now]
  IN  IF EndsTurn(stop)
      THEN [answer EXCEPT !.pc = "idle", !.stop = stop,
              !.got = 0, !.lo = NoVersion,
              !.first = IF t.no = 1 THEN lo ELSE @,
              !.last = IF t.no = 1 \/ lo > 0 THEN lo ELSE @]
      ELSE [answer EXCEPT !.pc = "resting", !.lo = lo,
              !.got = IF lost THEN @ ELSE @ + t.fresh]

(* The client merges an answer of the server, labelled l, or without tokens *)
(* and label if they are lost; when the turn ends, the agent loop keeps the *)
(* minimum of its first turn and the maximum of every later one that has    *)
(* one (that is neither None nor 0: tool_agent_loop.py:246).                *)
Merged(t, stop, l, lost) ==
  LET v == IF lost THEN NoVersion ELSE l
      lo == IF t.lo = NoVersion THEN v ELSE t.lo
      answer == [t EXCEPT !.fresh = 0, !.now = {},
                          !.used = IF lost THEN @ ELSE @ \cup t.now]
  IN  IF EndsTurn(stop)
      THEN [answer EXCEPT !.pc = "idle", !.stop = stop,
              !.got = 0, !.lo = NoVersion,
              !.first = IF t.no = 1 THEN lo ELSE @,
              !.last = IF t.no = 1 \/ v > 0 THEN v ELSE @]
      ELSE [answer EXCEPT !.pc = "resting", !.lo = lo,
              !.got = IF lost THEN @ ELSE @ + t.fresh]

(* The engine makes the last token of the turn and answers. *)
FinishTurn(r) ==
  /\ turn[r].pc = "running"
  /\ turn' = [turn EXCEPT ![r] =
                Merged(WithToken(@, ticket[r]), "completed",
                       label[ticket[r]], FALSE)]
  /\ UNCHANGED <<lbVars, engines, training>>

(* The release sent when generate returned reaches the load balancer: a     *)
(* worker's messages arrive in order, so before its next acquire.           *)
Release(r) ==
  /\ turn[r].pc \in {"idle", "resting"}
  /\ ReleaseServer(r)
  /\ UNCHANGED <<turn, engines, training>>
-----------------------------------------------------------------------------
(* The trainer: each call it makes, and the servers it addresses.           *)

Call(op, on) == [op |-> op, on |-> on]

(* CheckpointEngineManager.update_weights on the standalone replicas. *)
SynchronisationFaulty ==        (* fault: resumed before the transfer *)
  << Call("abort", Standalone), Call("drain", Standalone),
     Call("resume", Standalone), Call("transfer", Standalone),
     Call("label", Standalone) >>
Synchronisation ==
  << Call("abort", Standalone), Call("drain", Standalone),
     Call("transfer", Standalone), Call("label", Standalone),
     Call("resume", Standalone) >>

(* fault: the removal from the load balancer is forgotten *)
TrainerSideValidateFaulty ==
  << Call("transfer", Hybrid), Call("label", Hybrid),
     Call("abort", Standalone), Call("abort", Hybrid), Call("add", {}),
     Call("resume", Standalone), Call("resume", Hybrid),
     Call("validate", {}),
     Call("abort", Standalone), Call("abort", Hybrid),
     Call("drain", Hybrid), Call("sleep", Hybrid),
     Call("resume", Standalone), Call("resume", Hybrid) >>

(* _trainer_side_validate: load and add the hybrid servers, validate,       *)
(* remove them and put them to sleep.                                       *)
TrainerSideValidate ==
  << Call("transfer", Hybrid), Call("label", Hybrid),
     Call("abort", Standalone), Call("abort", Hybrid), Call("add", {}),
     Call("resume", Standalone), Call("resume", Hybrid),
     Call("validate", {}),
     Call("abort", Standalone), Call("abort", Hybrid), Call("remove", {}),
     Call("drain", Hybrid), Call("sleep", Hybrid),
     Call("resume", Standalone), Call("resume", Hybrid) >>

(* A training step ends with a new version. *)
StartSync ==
  /\ script = <<>>
  /\ version < MaxVersion
  /\ version' = version + 1
  /\ script' = Synchronisation \o IF version' \in ValidateAt
                                 THEN TrainerSideValidate ELSE <<>>
  /\ todo' = Head(script').on
  /\ UNCHANGED <<lbVars, turn, engines>>

Calling(op) == script # <<>> /\ Head(script).op = op

(* The servers that remain answer the current call, or the next is made. *)
Answered(servers) ==
  /\ UNCHANGED version
  /\ IF todo = servers
     THEN /\ script' = Tail(script)
          /\ todo' = IF Len(script) > 1 THEN script[2].on ELSE {}
     ELSE /\ todo' = todo \ servers
          /\ UNCHANGED script

(* abort_all_requests: the answers to the requests it aborts may be empty,  *)
(* without tokens and global_steps.                                         *)
AbortAllRequests(s) ==
  /\ Calling("abort") /\ s \in todo
  /\ \E lost \in SUBSET Running(s) :
       turn' = [r \in Request |->
                  IF r \in Running(s)
                  THEN Merged(turn[r], "aborted", label[s], r \in lost)
                  ELSE turn[r]]
  /\ paused' = IF EnginePauses THEN paused \cup {s} ELSE paused
  /\ Answered({s})
  /\ UNCHANGED <<lbVars, weights, label>>

(* wait_for_requests_to_drain: the engine runs nothing (a request it makes  *)
(* wait is not one it runs).                                                *)
Drain(s) ==
  /\ Calling("drain") /\ s \in todo
  /\ Running(s) = {}
  /\ Answered({s})
  /\ UNCHANGED <<lbVars, turn, engines>>

Transfer(s) ==
  /\ Calling("transfer") /\ s \in todo
  /\ weights' = [weights EXCEPT ![s] = version]
  /\ Answered({s})
  /\ UNCHANGED <<lbVars, turn, paused, label>>

SetGlobalSteps(s) ==
  /\ Calling("label") /\ s \in todo
  /\ label' = [label EXCEPT ![s] = version]
  /\ Answered({s})
  /\ UNCHANGED <<lbVars, turn, paused, weights>>

(* fault: the server does not resume *)
ResumeGenerationFaulty(s) ==
  /\ Calling("resume") /\ s \in todo
  /\ Answered({s})
  /\ UNCHANGED <<lbVars, turn, engines>>

ResumeGeneration(s) ==
  /\ Calling("resume") /\ s \in todo
  /\ paused' = paused \ {s}
  /\ Answered({s})
  /\ UNCHANGED <<lbVars, turn, weights, label>>

(* The requests it has not answered stay with it. *)
Sleep(s) ==
  /\ Calling("sleep") /\ s \in todo
  /\ weights' = [weights EXCEPT ![s] = Released]
  /\ turn' = [r \in Request |->
                IF turn[r].pc \in {"sent", "running"} /\ ticket[r] = s
                THEN [turn[r] EXCEPT !.stray = TRUE] ELSE turn[r]]
  /\ Answered({s})
  /\ UNCHANGED <<lbVars, paused, label>>

AddReplicas ==
  /\ Calling("add")
  /\ AddServers
  /\ Answered({})
  /\ UNCHANGED <<turn, engines>>

RemoveReplicas ==
  /\ Calling("remove")
  /\ RemoveServers
  /\ Answered({})
  /\ UNCHANGED <<turn, engines>>

DoValidate ==
  /\ Calling("validate")
  /\ Answered({})
  /\ UNCHANGED <<lbVars, turn, engines>>

Terminated ==
  /\ script = <<>> /\ version = MaxVersion
  /\ \A r \in Request : /\ turn[r].pc = "idle" /\ turn[r].no = MaxTurns[r]
                        /\ ticket[r] = NoServer
  /\ UNCHANGED vars

-----------------------------------------------------------------------------
Engine(r) == EnterEngine(r) \/ GenerateToken(r) \/ FinishTurn(r)
Replica(s) ==
  \/ AbortAllRequests(s) \/ Drain(s) \/ Transfer(s) \/ SetGlobalSteps(s)
  \/ ResumeGeneration(s) \/ Sleep(s)
Validation == AddReplicas \/ RemoveReplicas \/ DoValidate

Next ==
  \/ \E r \in Request : CallServer(r) \/ Engine(r) \/ Release(r)
  \/ \E s \in Server : Replica(s)
  \/ StartSync
  \/ Validation
  \/ Terminated

Spec == Init /\ [][Next]_vars

(* A request has been sent to a server whose weights are released. *)
OnSleepingServer(r) ==
  turn[r].pc \in {"sent", "running"} /\ weights[ticket[r]] = Released

(* Clients come back after their rest, messages arrive, engines go on, a    *)
(* training step ends.  No agent loop is obliged to begin a turn, and       *)
(* nothing is expected of an engine without weights.                        *)
Fairness ==
  /\ \A r \in Request : /\ WF_vars(turn[r].pc = "resting" /\ CallServer(r))
                        /\ WF_vars(~ OnSleepingServer(r) /\ Engine(r))
                        /\ WF_vars(Release(r))
  /\ \A s \in Server : WF_vars(Replica(s))
  /\ WF_vars(StartSync)
  /\ WF_vars(Validation)

FairSpec == Spec /\ Fairness

-----------------------------------------------------------------------------
ServingTypeOK ==
  /\ LBTypeOK
  /\ turn \in [Request ->
       [pc : {"idle", "sent", "running", "resting"}, no : Nat,
        got : 0 .. ResponseLength + Slack, fresh : 0 .. ResponseLength + Slack,
        lo : Version \cup {NoVersion},
        stop : {"none", "completed", "aborted"},
        first : Version \cup {NoVersion}, last : Version \cup {NoVersion},
        now : SUBSET (Version \cup {Released}),
        used : SUBSET (Version \cup {Released}), stray : BOOLEAN]]
  /\ paused \in SUBSET Server
  /\ weights \in [Server -> Version \cup {Released}]
  /\ label \in [Server -> Version \cup {NoVersion}]
  /\ version \in Version
  /\ todo \in SUBSET Server

HasAnswer(r) == turn[r].pc = "idle" /\ turn[r].no > 0

(* The versions a sample reports are those that made it: every token of a   *)
(* conversation, whatever turns, interruptions, empty answers and servers   *)
(* it went through, was made by weights between its min_global_steps and    *)
(* its max_global_steps (fully_async_rollouter.py:126-150,                  *)
(* tool_agent_loop.py:240-247); staleness is measured with them.  Of a      *)
(* request that waits on a hybrid server while that sleeps (see SafeSleep)  *)
(* it need not hold: the next validation loads weights before their label.  *)
VersionsBracketed ==
  \A r \in Request : HasAnswer(r) /\ ~ turn[r].stray =>
    \A v \in turn[r].used \cap Version :
      turn[r].first \in 0 .. v /\ v <= turn[r].last

(* Between the drain and the end of a synchronisation the engines of the    *)
(* standalone servers are idle, as vllm_async_server.py:1069-1070 wants it: *)
(* "Drain all in-flight requests so that vLLM worker threads go idle        *)
(* before we touch engine.release_kv_cache()".                              *)
IdleDuringTransfer ==
  Calling("transfer") \/ Calling("label")
    => \A s \in Standalone : Head(script).on = Standalone => Running(s) = {}

(* The replicas are where the trainer believes them: between two calls of   *)
(* the trainer every server of the pool is open and has the newest weights, *)
(* and the hybrid servers are out of the pool and asleep, their memory the  *)
(* trainer's; while it validates, all servers are in the pool, open, with   *)
(* the newest weights; a sleeping server is never routed to                 *)
(* (fully_async_trainer.py:556-583).                                        *)
ServersAsExpected ==
  /\ script = <<>> \/ Calling("validate") =>
       \A s \in pool : s \notin paused /\ weights[s] = version
                       /\ label[s] = version
  /\ script = <<>> => \A s \in Hybrid : s \notin pool /\ weights[s] = Released
  /\ Calling("validate") => pool = Server
  /\ \A s \in pool : weights[s] # Released

(* vllm_async_server.py:1023, of sleep: "Drain DP engines for safe sleep."  *)
(* No request runs on a server whose weights have been released.            *)
SafeSleep == \A s \in Server : weights[s] = Released => Running(s) = {}

(* Every turn is answered, whatever the synchronisations and validations    *)
(* that interrupt it (clients resume after an abort, paused engines are     *)
(* resumed, a removed server is replaced), unless it was sent to a server   *)
(* that has been put to sleep.                                              *)
TurnsAnswered ==
  \A r \in Request :
    turn[r].pc # "idle" ~> turn[r].pc = "idle" \/ OnSleepingServer(r)

(* "making rollout interruption invisible to the AgentLoop"                 *)
(* (fully_async_rollouter.py:52-53): clients, balancer, servers and trainer *)
(* together implement plain generation.                                     *)
Promise == INSTANCE Generation WITH
  state <- [r \in Request |-> IF turn[r].pc = "idle" THEN turn[r].stop
                              ELSE "asked"],
  first <- [r \in Request |-> turn[r].first],
  last <- [r \in Request |-> turn[r].last],
  newest <- version,
  held <- {r \in Request : turn[r].stray}
ImplementsGeneration == Promise!GenSpec
=============================================================================
