------------------------------ MODULE Pipeline ------------------------------
(***************************************************************************)
(* What becomes of one news item in app/ai/pipeline.py, as a function of   *)
(* the quality the channel asks for and of what the model answers at each  *)
(* stage.                                                                  *)
(*                                                                         *)
(* busy    no route is free or no key is set: the call raises              *)
(* error   the model cannot be reached                                     *)
(* retry   an answer is missing or malformed: nothing is decided           *)
(* bad     rejected: an advertisement, not news, unsafe, wrong facts       *)
(* repeat  the model recognises a story the channel has                    *)
(* ready   a text                                                          *)
(***************************************************************************)
Qualities == {"fast", "balanced", "super"}
Confirmations == {"ad", "not_ad", "uncertain", "none", "busy"}
Drafts == {"good", "risky", "short", "error", "busy"}
Checks == {"ok", "wrong", "none", "busy"}

\* The answers of the model, one for each call process may make.
Answers == [screen : {"safe", "risky"}, adWords : BOOLEAN, confirm : Confirmations,
            triage : {"news", "repeat", "ad", "offtopic", "malformed", "busy"},
            reconfirm : Confirmations, draft : Drafts, check : Checks,
            redraft : Drafts, recheck : Checks]

Confirmed(a) == IF a.adWords THEN a.confirm ELSE "unasked"

\* The last opinion on whether the item is an advertisement: triage may raise
\* the question, or raise it again when the first answer was no answer.
Opinion(q, a) ==
  IF q # "fast" /\ a.triage = "ad" /\ Confirmed(a) \in {"unasked", "none"}
  THEN a.reconfirm ELSE Confirmed(a)

Sure(q, a) == Opinion(q, a) \in {"unasked", "not_ad"}

ByOpinion(opinion) ==
  CASE opinion = "busy" -> "busy" [] opinion = "ad" -> "bad" [] OTHER -> "go"

Triage(q, a) ==
  CASE q = "fast" -> "go"
    [] a.triage = "malformed" -> "retry"
    [] a.triage = "offtopic" -> "bad"
    [] a.triage \in {"busy", "repeat"} -> a.triage
    [] a.triage = "ad" -> ByOpinion(Opinion(q, a))
    [] a.triage = "news" -> "go"

ByDraft(draft) ==
  CASE draft \in {"busy", "error"} -> draft
    [] draft = "risky" -> "bad" [] draft = "short" -> "retry" [] draft = "good" -> "go"

\* Slip: a check of the facts that did not come back lets the text pass.
FactsUnanswered(check, wrong) ==
  CASE check \in {"ok", "none"} -> "ready" [] check = "busy" -> "busy" [] OTHER -> wrong

Facts(check, wrong) ==
  CASE check = "ok" -> "ready" [] check = "none" -> "retry"
    [] check = "busy" -> "busy" [] check = "wrong" -> wrong

\* Only "super" has its facts checked, and a draft that fails is written anew once.
Checked(q, a) ==
  IF q # "super" THEN "ready"
  ELSE Facts(a.check, IF ByDraft(a.redraft) = "go" THEN Facts(a.recheck, "bad")
                                                   ELSE ByDraft(a.redraft))

\* The first stage that does not let the item go on decides.
Then(stage, rest) == IF stage = "go" THEN rest ELSE stage

Process(q, a) ==
  LET screened == IF a.screen = "risky" THEN "bad" ELSE "go"
      verdict == Then(screened, Then(ByOpinion(Confirmed(a)),
                   Then(Triage(q, a), Then(ByDraft(a.draft), Checked(q, a)))))
      facts == IF a.check = "wrong" THEN a.recheck ELSE a.check
  IN [verdict |-> verdict,
      sure |-> verdict = "ready" => Sure(q, a),
      checked |-> verdict = "ready" /\ q = "super" /\ facts = "ok"]

\* What an item can come to; every combination of answers is one the model may give.
Outcomes == [q \in Qualities |-> {Process(q, a) : a \in Answers}]
Verdicts == {"busy", "error", "retry", "bad", "repeat", "ready"}
=============================================================================
