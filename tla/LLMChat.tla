------------------------------- MODULE LLMChat --------------------------------
(***************************************************************************)
(* One call of the model, LocalLLMProvider.chat of app/llm/provider.py:    *)
(* styles tried in order, each with bounded retries, the 9router style     *)
(* with another route for every retry, and the automatic choice of its     *)
(* first route (certified once and cached) of app/llm/ninerouter.py.       *)
(***************************************************************************)
EXTENDS Naturals, Sequences, FiniteSets, Selection

CONSTANTS Styles,      \* the configured style and YODAW_LLM_FALLBACKS, in order
          Routes,      \* the gateway's inventory, in the order of certification
          Fallbacks,   \* YODAW_LLM_FALLBACK_MODELS
          Retries      \* YODAW_PROVIDER_MAX_RETRIES

Distinct(s) == s \in Seq({s[i] : i \in DOMAIN s}) /\ \A i, j \in DOMAIN s : s[i] = s[j] => i = j

ASSUME ChatAssumption == /\ Retries \in Nat /\ Routes # <<>> /\ Styles # <<>>
                         /\ Distinct(Styles) /\ Distinct(Routes) /\ Distinct(Fallbacks)

VARIABLES hop,      \* the style in turn
          attempt,  \* attempts made with it
          probing,  \* the route that certification is at, 0 when it does not run
          default,  \* _model_cache: the route that "auto" means, or <<>>
          down,     \* the routes that fail now
          log,      \* the attempt log
          answer    \* "none", "text" or "LLMError"

chatVars == <<hop, attempt, probing, default, down, log, answer>>

RouteSet == {Routes[i] : i \in DOMAIN Routes}

ChatInit == /\ hop = 1 /\ attempt = 0 /\ probing = 0 /\ default = <<>>
            /\ down \in SUBSET RouteSet /\ log = <<>> /\ answer = "none"

Style == Styles[hop]

\* The routes of one 9router call: the default, then the others of the fallback list.
Chain == default \o SelectAt(Fallbacks, {i \in DOMAIN Fallbacks : <<Fallbacks[i]>> # default})

\* Attempt n uses the n-th route, and the last one from then on.
RouteOf(chain, n) == IF n <= Len(chain) THEN chain[n] ELSE chain[Len(chain)]

-----------------------------------------------------------------------------
(* resolve_model: a real chat with one route after another                 *)

Resolve ==
  /\ answer = "none" /\ Style = "9router" /\ default = <<>> /\ probing = 0
  /\ probing' = 1
  /\ UNCHANGED <<hop, attempt, default, down, log, answer>>

\* The first that answers is the default; if none does, the first of the inventory
\* is.  Either is kept for the life of the process.
Certify ==
  /\ probing # 0
  /\ IF Routes[probing] \in down /\ probing < Len(Routes)
     THEN probing' = probing + 1 /\ UNCHANGED default
     ELSE /\ probing' = 0
          /\ default' = <<IF Routes[probing] \in down THEN Routes[1] ELSE Routes[probing]>>
  /\ UNCHANGED <<hop, attempt, down, log, answer>>

-----------------------------------------------------------------------------
(* chat and _chat_with_retry                                               *)

\* This style has failed for good: the next one, or the error of the last.
NextStyle == IF hop < Len(Styles) THEN hop' = hop + 1 /\ attempt' = 0 /\ UNCHANGED answer
             ELSE answer' = "LLMError" /\ UNCHANGED <<hop, attempt>>

\* The gateway has no inventory to choose from.
Unresolved == /\ probing = 1 /\ probing' = 0 /\ NextStyle
              /\ UNCHANGED <<default, down, log>>

\* What the attempt ends with: a text; a fault that _is_retryable; any other fault,
\* a malformed answer among them.
Ends(route) ==
  IF route \in down THEN {"transient", "fatal"} ELSE {"text", "transient", "fatal"}

AttemptOn(route) ==
  /\ answer = "none" /\ probing = 0 /\ (Style = "9router" => default # <<>>)
  /\ \E end \in Ends(route) :
       /\ log' = Append(log, [style |-> Style, route |-> route, end |-> end])
       /\ CASE end = "text" -> answer' = "text" /\ UNCHANGED <<hop, attempt>>
            [] end = "transient" /\ attempt < Retries ->
                 attempt' = attempt + 1 /\ UNCHANGED <<hop, answer>>
            [] OTHER -> NextStyle
  /\ UNCHANGED <<probing, default, down>>

\* Mutant: the retry goes on with the route that has failed.
AttemptSameRoute == AttemptOn(IF Style = "9router" THEN RouteOf(Chain, 1) ELSE Style)

Attempt == AttemptOn(IF Style = "9router" THEN RouteOf(Chain, attempt + 1) ELSE Style)

RoutesChange == /\ answer = "none" /\ down' \in SUBSET RouteSet
                /\ UNCHANGED <<hop, attempt, probing, default, log, answer>>

ChatNext == Resolve \/ Certify \/ Unresolved \/ Attempt \/ RoutesChange

ChatSpec == ChatInit /\ [][ChatNext]_chatVars

-----------------------------------------------------------------------------
(* Properties                                                              *)

\* Attempts and the log stay within styles and retries (provider_retry_config).
ChatTypeOK == /\ hop \in DOMAIN Styles /\ attempt \in 0..Retries
              /\ probing \in 0..Len(Routes) /\ Len(default) <= 1 /\ down \subseteq RouteSet
              /\ Len(log) <= Len(Styles) * (Retries + 1)
              /\ answer \in {"none", "text", "LLMError"}

TriesOf(s) == SelectAt(log, {i \in DOMAIN log : log[i].style = s})

\* A route that has failed is left for the next one of the chain, and comes again
\* only as the last of it ("instead of hammering one dead route", provider.py:
\* 560-566); a fault that is not transient ends its style at once, one that is
\* does so only when the retries are used up.
FailsOver ==
  \A s \in {Styles[i] : i \in DOMAIN Styles} :
    LET tries == TriesOf(s) IN
      /\ \A i \in 1..Len(tries) - 1 :
           /\ tries[i].end = "transient"
           /\ s = "9router" /\ tries[i].route = tries[i + 1].route => i >= Len(Chain)
      /\ tries # <<>> /\ (answer = "LLMError" \/ s # Style) =>
           tries[Len(tries)].end = "fatal" \/ Len(tries) = Retries + 1

=============================================================================
