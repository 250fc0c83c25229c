------------------------------- MODULE Dispatch -------------------------------
(***************************************************************************)
(* The router's POST /route (src/router/router.py): which executor an      *)
(* utterance goes to, and that it is answered or not.  Each request is a   *)
(* coroutine of its own, and goes on when its client has given up.         *)
(*                                                                         *)
(*   "none"      not posted              "llm"       in ask_llm            *)
(*   "posted"    not dispatched yet      "search"    ask_open_brain: in    *)
(*   "device"    in run_device_action                its search            *)
(*   "timer"     in handle_timer         "synth"     ... in its synthesis  *)
(*   "answered"  the response is there                                     *)
(*                                                                         *)
(* External: the device, Open Brain and the Claude API answer, fail or     *)
(* hang.  What handle_timer writes, step by step beside the scheduler, is  *)
(* TimerRequests; here it is one of the coroutines an answer waits for.    *)
(* The branch for an action type nobody handles is left out: the router    *)
(* does not start with one in intents.yaml (validate_intents).             *)
(***************************************************************************)
EXTENDS SttServer

VARIABLES
  request,   \* the request of each turn
  brainUrl   \* OPEN_BRAIN_URL is set

\* Of the speech of a response it matters here only whether it is blank: the
\* text block of a model may be, no other answer is.
Request ==
  [at : {"none", "posted", "device", "timer", "search", "synth", "llm", "answered"},
   speech : {"none", "words", "blank"}]

NoRequest == [at |-> "none", speech |-> "none"]

DispatchTypeOK == request \in [Turn -> Request] /\ brainUrl \in BOOLEAN

DispatchInit == request = [k \in Turn |-> NoRequest] /\ brainUrl \in BOOLEAN

Post(k) == request' = [request EXCEPT ![k].at = "posted"]

Answer(k, speech) ==
  request' = [request EXCEPT ![k].at = "answered", ![k].speech = speech]

-----------------------------------------------------------------------------
(* _route *)

\* The first intent that matches decides; without one, or with a question for
\* notes that are not configured, the model answers.
Route(k) ==
  /\ request[k].at = "posted"
  /\ \/ \E executor \in {"device", "timer", "llm"} :
          request' = [request EXCEPT ![k].at = executor]
     \/ Answer(k, "words")     \* a knowledge query without a topic
     \/ request' = [request EXCEPT ![k].at = IF brainUrl THEN "search" ELSE "llm"]

\* except Exception: ERROR_SPEECH, whatever was under way.
RouteFails(k) ==
  /\ request[k].at \in {"device", "timer", "search", "synth", "llm"}
  /\ Answer(k, "words")

-----------------------------------------------------------------------------
(* The executors. *)

\* A 2xx response is taken for the action done (raise_for_status).
DeviceAnswers(k) ==
  /\ request[k].at = "device"
  /\ Answer(k, "words")

\* handle_timer returns: a confirmation, a clarification or a list.
TimerHandled(k) ==
  /\ request[k].at = "timer"
  /\ Answer(k, "words")

\* The search fails (httpx.HTTPError), or no thought is similar enough: both
\* are said without asking the model.
SearchEnds(k) ==
  /\ request[k].at = "search"
  /\ Answer(k, "words")

SearchFinds(k) ==
  /\ request[k].at = "search"
  /\ request' = [request EXCEPT ![k].at = "synth"]

\* spoken_text of the response
ModelAnswers(k) ==
  /\ request[k].at \in {"synth", "llm"}
  /\ \E speech \in {"words", "blank"} : Answer(k, speech)

RouteStep(k) ==
  \/ Route(k) \/ RouteFails(k)
  \/ DeviceAnswers(k) \/ TimerHandled(k)
  \/ SearchEnds(k) \/ SearchFinds(k) \/ ModelAnswers(k)

=============================================================================
