----------------------------- MODULE DemoRules -----------------------------
(***************************************************************************)
(* The rules the demo registers (demo/src/rules.ts) and the events its      *)
(* webhooks become (demo/src/server.ts).  A webhook comes with what decides *)
(* about it: facts of its payload, how the service is configured, and what  *)
(* GitHub and the classifier answer when they are asked about it.           *)
(***************************************************************************)
EXTENDS Registration, TLC

-----------------------------------------------------------------------------
(* The names of the events by the kind of the webhook and its action; a     *)
(* push has no action.                                                      *)
SupportedEventNames ==
  [pull_request |-> [opened |-> "pull_request.opened", closed |-> "pull_request.closed",
                     synchronize |-> "pull_request.synchronize", reopened |-> "pull_request.reopened",
                     ready_for_review |-> "pull_request.ready_for_review"],
   pull_request_review |-> [submitted |-> "pull_request_review.submitted"],
   issues |-> [opened |-> "issues.opened", closed |-> "issues.closed",
               reopened |-> "issues.reopened", edited |-> "issues.edited"],
   issue_comment |-> [created |-> "issue_comment.created", edited |-> "issue_comment.edited"],
   workflow_run |-> [completed |-> "workflow_run.completed", requested |-> "workflow_run.requested"],
   check_run |-> [completed |-> "check_run.completed"],
   release |-> [published |-> "release.published", edited |-> "release.edited"]]
BareEventNames == {"push"}

(* toEngineEventName: the event with its action if that is supported, else  *)
(* the bare event.                                                          *)
EngineEventName(event, action) ==
  IF event \in DOMAIN SupportedEventNames /\ action \in DOMAIN SupportedEventNames[event]
  THEN SupportedEventNames[event][action]
  ELSE IF event \in BareEventNames THEN event ELSE "unsupported"

-----------------------------------------------------------------------------
(* Pull requests. *)

(* The files of the payload, else those GitHub lists; only without a token  *)
(* do the names of the branch and the title count.                          *)
TouchesInfra(pr) ==
  \/ pr.files = "infra"
  \/ pr.token /\ pr.github = "infra"
  \/ ~pr.token /\ pr.looksInfra

-----------------------------------------------------------------------------
(* Comments. *)

Verdict(label, confidence) == [label |-> label, confidence |-> confidence]

(* Variant: an error of the classifier is as good as a label. *)
TrustsAnyAnswer(comment) ==
  IF ~comment.url THEN Verdict(IF comment.marked THEN "hostile" ELSE "ok", 95)
  ELSE CASE comment.classifier = "sure"   -> Verdict("hostile", 90)
         [] comment.classifier = "unsure" -> Verdict("hostile", 50)
         [] OTHER                         -> Verdict("hostile", 100)

(* classifyComment: without a classifier the text decides; an error status  *)
(* and a body without a label are an "ok" without confidence.               *)
ClassifyComment(comment) ==
  IF ~comment.url THEN Verdict(IF comment.marked THEN "hostile" ELSE "ok", 95)
  ELSE CASE comment.classifier = "sure"   -> Verdict("hostile", 90)
         [] comment.classifier = "unsure" -> Verdict("hostile", 50)
         [] OTHER                         -> Verdict("ok", 0)

(* is_hostile_comment, for one minConfidence in percent: an integration     *)
(* that cannot be reached throws.                                           *)
IsHostileComment(comment, minConfidence) ==
  IF comment.url /\ comment.classifier = "unreachable" THEN "throws"
  ELSE LET result == ClassifyComment(comment)
       IN  IF result.label = "hostile" /\ result.confidence >= minConfidence THEN "true" ELSE "false"

-----------------------------------------------------------------------------
(* The webhooks, and the events of the engine they become: what the         *)
(* functions in the conditions say of them and how the predicate judges.    *)

PullRequests ==
  [event : {"pull_request"}, action : {"opened", "closed"}, toMain : BOOLEAN, coreTeam : BOOLEAN,
   files : {"infra", "none"}, looksInfra : BOOLEAN, token : BOOLEAN, github : {"infra", "docs", "fails"}]
Comments ==
  [event : {"issue_comment"}, action : {"created", "deleted"}, command : BOOLEAN, onPullRequest : BOOLEAN,
   marked : BOOLEAN, url : BOOLEAN, classifier : {"sure", "unsure", "ok", "error", "unreachable"}]
Runs ==
  [event : {"workflow_run"}, action : {"completed"}, failed : BOOLEAN, named : BOOLEAN, triggered : BOOLEAN]
Releases == [event : {"release"}, action : {"published"}, versioned : BOOLEAN, breaking : BOOLEAN]
Closings == [event : {"issues"}, action : {"closed"}]
Webhooks == PullRequests \cup Comments \cup Runs \cup Releases \cup Closings

Truth(b) == IF b THEN "true" ELSE "false"
Facts(w) ==
  CASE w.event = "pull_request"  -> [toMain |-> w.toMain, outsider |-> ~w.coreTeam,
                                     touchesInfra |-> TouchesInfra(w)]
    [] w.event = "issue_comment" -> [command |-> w.command, onPullRequest |-> w.onPullRequest]
    [] w.event = "workflow_run"  -> [failedOnPr |-> w.failed /\ (w.named \/ w.triggered)]
    [] w.event = "release"       -> [breaking |-> w.versioned /\ w.breaking]
    [] w.event = "issues"        -> [always |-> TRUE]

DemoEvent(w) ==
  [name |-> EngineEventName(w.event, w.action), webhook |-> w, gives |-> NoArgs,
   says |-> [f \in DOMAIN Facts(w) |-> Truth(Facts(w)[f])],
   judges |-> [is_hostile_comment |-> [x \in {"80"} |->
                 IF w.event = "issue_comment" THEN IsHostileComment(w, 80) ELSE "throws"]]]

(* The handler evaluates only supported events. *)
DemoEvents == { e \in { DemoEvent(w) : w \in Webhooks } : e.name # "unsupported" }

(* What carries a webhook is an event the handler made of it. *)
ASSUME DemoAssumption ==
  \A s \in Scenes : \A event \in s.events : "webhook" \in DOMAIN event => event \in DemoEvents

-----------------------------------------------------------------------------
(* The batch of createDemoEngine. *)

Entity(name, kind) ==
  [name |-> name, kind |-> kind, implemented |-> TRUE, schema |-> NoArgs, pinned |-> NoArgs]
Recording(name) == Entity(name, "action")
Attached(name) == <<[name |-> name, args |-> NoArgs]>>
DemoRule(name, event, when, strategy, durations, action) ==
  [name |-> name, event |-> event, when |-> when, strategy |-> strategy, durations |-> durations,
   actions |-> Attached(action), schema |-> NoArgs, pinned |-> NoArgs]
Minutes(n) == [n |-> n, unit |-> "m"]

DemoPredicates ==
  <<[Entity("is_hostile_comment", "predicate") EXCEPT !.schema = [x \in {"x"} |-> {"80"}]]>>

DemoActions ==
  <<Recording("record_infra_pr"), Recording("record_demo_comment"),
    Recording("record_hostile_comment"), Recording("record_breaking_release"),
    Entity("record_flaky_ci", "aggregatedAction")
      @@ [event |-> "workflow_run.completed", transforms |-> TRUE],
    Entity("record_issue_closed_quiet", "scheduledAction")>>

InfraPr == AllOf(<<Fn("toMain"), Fn("outsider"), Fn("touchesInfra")>>)
HostileOnPr == AllOf(<<Fn("onPullRequest"), UseRef("is_hostile_comment", [x |-> "80"])>>)

DemoRuleList ==
  <<DemoRule("infra-pr-from-outsider", "pull_request.opened", InfraPr,
             "plain", {}, "record_infra_pr"),
    DemoRule("demo-comment-command", "issue_comment.created", Fn("command"),
             "plain", {}, "record_demo_comment"),
    DemoRule("flaky-ci-on-pr", "workflow_run.completed", Fn("failedOnPr"),
             "aggregate", {[n |-> 1, unit |-> "h"]}, "record_flaky_ci"),
    DemoRule("hostile-pr-comment", "issue_comment.created", HostileOnPr,
             "plain", {}, "record_hostile_comment"),
    DemoRule("breaking-release", "release.published", Fn("breaking"),
             "plain", {}, "record_breaking_release"),
    DemoRule("issue-closed-quiet", "issues.closed", Fn("always"),
             "schedule", {Minutes(5), Minutes(10)}, "record_issue_closed_quiet")>>

DemoBatch == [predicates |-> DemoPredicates, actions |-> DemoActions, rules |-> DemoRuleList]

-----------------------------------------------------------------------------
Decided(rule) == \E i \in DOMAIN evaluation.held : evaluation.held[i] = rule
DemoOver(kind) ==
  /\ evaluation.pc = "over" /\ evaluation.registry.batch = DemoBatch
  /\ "webhook" \in DOMAIN evaluation.event /\ evaluation.event.webhook.event = kind

(* A pull request is reported when it is opened against main by someone     *)
(* outside the core team and its files lie under infra/.  With a token that *)
(* is what GitHub lists: neither the name of the branch nor the title can   *)
(* replace it, also when GitHub does not answer.                            *)
InfraByItsFiles ==
  DemoOver("pull_request") =>
    LET pr == evaluation.event.webhook
    IN  pr.token => (Decided("infra-pr-from-outsider") <=>
                       /\ pr.action = "opened" /\ pr.toMain /\ ~pr.coreTeam
                       /\ pr.files = "infra" \/ pr.github = "infra")

(* A comment is reported as hostile only when the classifier said so with   *)
(* confidence, and never on an error; the classifier, which costs money, is *)
(* asked only about comments on pull requests, and by one condition.  (Its  *)
(* adapter may send the question again: rules.ts:202 retries.)              *)
HostileOnlyIfSure ==
  DemoOver("issue_comment") =>
    LET comment == evaluation.event.webhook
    IN  /\ Decided("hostile-pr-comment") =>
             /\ comment.onPullRequest
             /\ IF comment.url THEN comment.classifier = "sure" ELSE comment.marked
        /\ Len(evaluation.walk.calls) = IF comment.onPullRequest THEN 1 ELSE 0

(* The demo reports on evidence: an API that fails neither makes a rule     *)
(* fire on a guess nor passes for an answer, and is asked only when needed. *)
ReportsOnEvidence == InfraByItsFiles /\ HostileOnlyIfSure
=============================================================================
