-------------------------------- MODULE LLM --------------------------------
(***************************************************************************)
(* One model call (engine/llm.py): chat_completion with its retries,       *)
(* chat_completion_checked and chat_completion_with_tools, over either     *)
(* protocol.  The endpoint is external: it may answer, answer nothing,     *)
(* refuse the extra parameters, limit the rate, fail or refuse for good.   *)
(* The client each attempt uses is the matter of Registry.                 *)
(***************************************************************************)
EXTENDS Naturals, FiniteSets

CONSTANTS
  Budget  \* {"rate", "fault"} -> Nat: retries by error, "fault" for 5xx, timeouts, lost connections, no text

VARIABLES
  kind,     \* "chat", "checked", "tools"
  protocol, \* "openai", "anthropic"
  stage,    \* "idle", "asked", "waiting", "answered", "failed"
  wants,    \* the call asks for thinking or has an extra_body
  extra,    \* the request carries thinking or extra_body parameters
  tries,    \* attempt: retries so far
  again,    \* the second request after an answer without text
  text,     \* the answer has text
  sends     \* history: requests sent

vars == <<kind, protocol, stage, wants, extra, tries, again, text, sends>>

Init ==
  /\ kind = "chat" /\ protocol = "openai" /\ stage = "idle" /\ wants = FALSE /\ extra = FALSE
  /\ tries = 0 /\ again = FALSE /\ text = FALSE /\ sends = 0

Call(k, p, x) ==
  /\ stage \in {"idle", "answered", "failed"}
  /\ kind' = k /\ protocol' = p /\ stage' = "asked" /\ wants' = x /\ extra' = x
  /\ tries' = 0 /\ again' = FALSE /\ text' = FALSE /\ sends' = 1

Fails == stage' = "failed" /\ UNCHANGED <<kind, protocol, wants, extra, tries, again, text, sends>>

Answers(filled) ==
  /\ stage' = "answered" /\ text' = filled
  /\ UNCHANGED <<kind, protocol, wants, extra, tries, again, sends>>

Resend(x, second) ==
  /\ extra' = x /\ again' = second /\ sends' = sends + 1
  /\ UNCHANGED <<kind, protocol, wants, stage, tries, text>>

\* _is_transient_llm_error: these may pass, the others will not.
Transient == {"rate", "fault", "empty"}
BudgetOf(o) == Budget[IF o = "rate" THEN "rate" ELSE "fault"]

BacksOff == stage' = "waiting" /\ UNCHANGED <<kind, protocol, wants, extra, tries, again, text, sends>>

\* Mutant: one retry more than the budget.
RetryOnceMore(o) == IF o \in Transient /\ tries <= BudgetOf(o) THEN BacksOff ELSE Fails

\* _openai_chat_with_retry and _claude_chat_with_retry: one count of retries,
\* compared with the budget of the error at hand.
Retry(o) == IF o \in Transient /\ tries < BudgetOf(o) THEN BacksOff ELSE Fails

\* The end of the back-off.  An attempt has the parameters of the call, also when
\* the one before it had to leave them out.
Wake ==
  /\ stage = "waiting"
  /\ stage' = "asked" /\ tries' = tries + 1 /\ sends' = sends + 1
  /\ extra' = wants /\ again' = FALSE
  /\ UNCHANGED <<kind, protocol, wants, text>>

At(k, p) == stage = "asked" /\ kind = k /\ protocol = p

\* What becomes of a request.  400 leaves a chat to be repeated without the extra
\* parameters.
Rejected == IF extra THEN Resend(FALSE, FALSE) ELSE Fails

\* Mutant: what the endpoint sends counts as it is.
OpenAIChatTaken(o) ==
  /\ At("chat", "openai")
  /\ CASE o \in {"text", "empty"} -> Answers(o = "text")
       [] o = "rejected"          -> Rejected
       [] OTHER                   -> Retry(o)

OpenAIChat(o) ==
  /\ At("chat", "openai")
  /\ CASE o = "text"     -> Answers(TRUE)
       [] o = "rejected" -> Rejected
       [] OTHER          -> Retry(o)

\* An answer without text is asked for once more, but not when it was streamed.
ClaudeChat(o, streamed) ==
  /\ At("chat", "anthropic")
  /\ CASE o = "text"     -> Answers(TRUE)
       [] o = "rejected" -> Rejected
       [] o = "empty" /\ ~again /\ ~streamed -> Resend(extra, TRUE)
       [] OTHER          -> Retry(o)

OpenAIChecked(o) ==
  At("checked", "openai") /\ IF o \in {"text", "empty"} THEN Answers(o = "text") ELSE Fails

ClaudeChecked(o) ==
  /\ At("checked", "anthropic")
  /\ CASE o = "text"             -> Answers(TRUE)
       [] o = "empty" /\ ~again  -> Resend(extra, TRUE)
       [] OTHER                  -> Fails

\* With tools an answer may do without text.
OpenAITools(o) ==
  At("tools", "openai") /\ IF o \in {"text", "empty"} THEN Answers(o = "text") ELSE Fails
ClaudeTools(o) ==
  At("tools", "anthropic") /\ IF o \in {"text", "empty"} THEN Answers(o = "text") ELSE Fails

Outcomes == {"text", "empty", "rejected", "rate", "fault", "refused"}

Next ==
  \/ \E k \in {"chat", "checked", "tools"}, p \in {"openai", "anthropic"}, x \in BOOLEAN : Call(k, p, x)
  \/ \E o \in Outcomes :
       \/ OpenAIChat(o) \/ OpenAIChecked(o) \/ ClaudeChecked(o) \/ OpenAITools(o) \/ ClaudeTools(o)
       \/ \E streamed \in BOOLEAN : ClaudeChat(o, streamed)
  \/ Wake

Spec == Init /\ [][Next]_vars

----------------------------------------------------------------------------
MostRetries  == IF Budget["rate"] > Budget["fault"] THEN Budget["rate"] ELSE Budget["fault"]
PerAttempt   == IF protocol = "openai" THEN 2 ELSE 4

\* Whatever errors follow one another, a call ends after as many attempts as the
\* largest budget allows and not after the sum of the budgets, and an attempt is
\* at most doubled by leaving parameters out and doubled by an empty answer.
SendsAreBounded ==
  /\ tries <= MostRetries
  /\ sends <= PerAttempt * (1 + tries)

\* What chat_completion returns is never empty, however often the endpoint
\* answers without text: it is tried again or the call fails.
ChatsHaveText == stage = "answered" /\ kind = "chat" => text

============================================================================
