------------------------------- MODULE CoachPlan -------------------------------
(***************************************************************************)
(* The coach (services/coach, POST /v1/scores/{id}/coach): from the facts  *)
(* of a stored score to a plan of exercises.  A primary provider, a hosted *)
(* model behind a gateway, may choose the corrections to work on and the   *)
(* exercises; its draft is not trusted, and the rules answer whenever it   *)
(* fails.  The service keeps nothing; a restart may configure another      *)
(* provider or policy and loses the requests in flight.                    *)
(*                                                                         *)
(* An alias c1, c2, ... is its number; 0 is no alias.  A score stands for  *)
(* its canonical digest and holds its own produced_at, which is also that  *)
(* of the plan.  A draft that is missing or not JSON is the empty one,     *)
(* which CoachPlanDraft refuses as well; percentages are integers.         *)
(***************************************************************************)
EXTENDS Integers, FiniteSets, SequencesExt

CONSTANTS Requests, Scores, Locales,
          Deployments,  \* [policy, primary]: what the service may be configured with
          Approved,     \* the policies whose fingerprint is approved
          ProviderNames,\* the names a provider may have
          Replies,      \* what a call of the gateway may come to
          MaxReplyBytes,
          MaxAnswers    \* bound on the plans asked for

Exercises == {"loop", "slow", "reference_tone", "text"}
CorrectionTypes == {"sharp", "flat", "octave_error", "early", "late", "short", "long",
                    "missed", "unstable"}
Rules == "rules.v1"
NoFact == [unit |-> "none", value |-> 0]

\* policy.CoachPolicy.__post_init__, and the priority of every type in the approved ones
ValidPolicy(policy) ==
  /\ policy.max_actions \in 1..8 /\ policy.loop_repetitions \in 1..8
  /\ policy.slow_speed \in 50..100 /\ policy.reference_tone_duration_ms \in 100..5000
  /\ policy.reference_tone_min_hz \in 55..1100 /\ policy.reference_tone_max_hz \in 55..1100
  /\ policy.reference_tone_min_hz < policy.reference_tone_max_hz
  /\ policy.correction_priority \in Seq(CorrectionTypes)
  /\ IsInjective(policy.correction_priority)
  /\ Range(policy.correction_priority) = CorrectionTypes

ASSUME CoachPolicyAssumption ==
  /\ Rules \in ProviderNames /\ MaxReplyBytes \in Nat /\ MaxAnswers \in Nat
  /\ \A d \in Deployments : ValidPolicy(d.policy)

\* the contract of a score and its corrections, each with the identifier that
\* the scoring core derives from its region and type
ASSUME ScoreAssumption == \A s \in Scores :
  /\ s.reason # "none" => s.corrections = {}
  /\ IsFiniteSet(s.corrections)
  /\ \A c \in s.corrections :
       /\ c.type \in CorrectionTypes /\ c.id \in Nat
       /\ c.start \in Nat /\ c.end \in Nat /\ c.start < c.end
       /\ c.severity \in 0..100 /\ c.confidence \in 0..100 /\ c.reference_confidence \in 0..100
       /\ c.reference.value \in Int
  /\ \A c, d \in s.corrections : c.id = d.id => c = d

\* a draft is a sequence of actions of any kind
ASSUME ReplyAssumption == \A reply \in Replies : \A i \in DOMAIN reply.parts :
  LET draft == reply.parts[i].draft IN draft \in Seq(Range(draft))
-----------------------------------------------------------------------------
(* The facts of a score, in the order in which they matter.                *)

Position(type, policy) ==
  CHOOSE i \in DOMAIN policy.correction_priority : policy.correction_priority[i] = type

\* Faulty variant of Key: the confidences are compared before the severity.
KeyByConfidence(c, policy) ==
  <<-(c.confidence * c.reference_confidence), -c.severity,
    Position(c.type, policy), c.start, c.id>>

Key(c, policy) ==
  <<-c.severity, -(c.confidence * c.reference_confidence),
    Position(c.type, policy), c.start, c.id>>

Precedes(s, t) ==
  \E i \in DOMAIN s : s[i] < t[i] /\ \A j \in 1..(i - 1) : s[j] = t[j]

Ahead(c, score, policy) ==
  {d \in score.corrections : Precedes(Key(d, policy), Key(c, policy))}

\* the first max_actions in the order of their keys
Prioritized(score, policy) ==
  LET count == Cardinality(score.corrections) IN
  [i \in 1..(IF count < policy.max_actions THEN count ELSE policy.max_actions) |->
     CHOOSE c \in score.corrections : Cardinality(Ahead(c, score, policy)) = i - 1]

\* corrections_by_alias; an abstained score has no corrections
Facts(score, policy) == IF score.reason = "none" THEN Prioritized(score, policy) ELSE << >>
-----------------------------------------------------------------------------
(* Drafts: sequences of [type, alias, extra], extra being unknown fields.  *)

TextOnly == <<[type |-> "text", alias |-> 0, extra |-> FALSE]>>

ToneFact(fact, policy) ==
  /\ fact.unit = "hertz"
  /\ policy.reference_tone_min_hz <= fact.value /\ fact.value <= policy.reference_tone_max_hz

\* Faulty variant of Exercise: a missed phrase gets its tone whatever its pitch is.
ExerciseUnbounded(c, policy) ==
  IF c.type = "missed" /\ c.reference.unit = "hertz" THEN "reference_tone"
  ELSE IF c.type \in {"short", "long"} THEN "loop" ELSE "slow"

Exercise(c, policy) ==
  IF c.type = "missed" /\ ToneFact(c.reference, policy) THEN "reference_tone"
  ELSE IF c.type \in {"short", "long"} THEN "loop" ELSE "slow"

RulesDraft(facts, policy) ==
  IF facts = << >> THEN TextOnly
  ELSE [i \in DOMAIN facts |->
          [type |-> Exercise(facts[i], policy), alias |-> i, extra |-> FALSE]]

\* The gateway: an answer in full, with one text and no refusal.
Delivered(reply) ==
  /\ reply.http \in 200..299   \* no status at all when the call failed or timed out
  /\ reply.bytes <= MaxReplyBytes
  /\ reply.status = "completed"

Parsed(reply) ==
  LET texts == {i \in DOMAIN reply.parts : reply.parts[i].kind = "output_text"}
  IN  IF Delivered(reply) /\ Cardinality(texts) = 1
         /\ \A i \in DOMAIN reply.parts : reply.parts[i].kind # "refusal"
      THEN reply.parts[CHOOSE i \in texts : TRUE].draft ELSE << >>

WellFormed(draft) ==
  /\ Len(draft) \in 1..8
  /\ \A i \in DOMAIN draft :
       /\ draft[i].type \in Exercises /\ ~draft[i].extra
       /\ draft[i].alias = 0 => draft[i].type = "text"
  /\ \A i, j \in DOMAIN draft : i # j =>
       /\ <<draft[i].type, draft[i].alias>> # <<draft[j].type, draft[j].alias>>
       /\ draft[i].alias = draft[j].alias => draft[i].alias = 0

ValidPlan(draft, facts, policy) ==
  /\ Len(draft) <= policy.max_actions
  /\ IF facts = << >> THEN draft = TextOnly
     ELSE \A i \in DOMAIN draft :
            /\ draft[i].alias \in DOMAIN facts
            /\ draft[i].type = "reference_tone" =>
                 ToneFact(facts[draft[i].alias].reference, policy)
-----------------------------------------------------------------------------
(* Plans.                                                                  *)

Arguments(type, c, policy) ==
  CASE type = "loop" -> <<c.start, c.end, policy.loop_repetitions>>
    [] type = "slow" -> <<c.start, c.end, policy.slow_speed>>
    [] type = "reference_tone" -> <<c.reference.value, policy.reference_tone_duration_ms>>
    [] OTHER -> << >>

\* the facts the sentences of a message render
Message(score, sources, type, locale) ==
  [reason |-> score.reason, about |-> sources, instruction |-> type, locale |-> locale]

\* Faulty variant of ActionId: who chose the action is not part of its identity.
ActionIdAnonymous(score, policy, provider, locale, type, sources, arguments, ordinal) ==
  [score |-> score, policy |-> policy, provider |-> Rules, locale |-> locale,
   type |-> type, sources |-> {c.id : c \in sources}, arguments |-> arguments,
   ordinal |-> ordinal]

ActionId(score, policy, provider, locale, type, sources, arguments, ordinal) ==
  [score |-> score, policy |-> policy, provider |-> provider, locale |-> locale,
   type |-> type, sources |-> {c.id : c \in sources}, arguments |-> arguments,
   ordinal |-> ordinal]

Action(i, draft, facts, provider, score, policy, locale) ==
  LET type == draft[i].type
      sources == IF draft[i].alias = 0 THEN {} ELSE {facts[draft[i].alias]}
      arguments == IF sources = {} THEN << >>
                   ELSE Arguments(type, facts[draft[i].alias], policy)
  IN  [action_id |-> ActionId(score, policy, provider, locale, type, sources, arguments, i),
       score |-> score, sources |-> sources, type |-> type, arguments |-> arguments,
       message |-> Message(score, sources, type, locale), locale |-> locale,
       provider |-> provider, coach_version |-> policy.coach_version]

\* the contract of coach-action.v1
ValidAction(action) ==
  /\ action.type = "loop" => action.arguments[1] < action.arguments[2]
                             /\ action.arguments[3] \in 1..8
  /\ action.type = "slow" => action.arguments[1] < action.arguments[2]
                             /\ action.arguments[3] \in 50..100
  /\ action.type = "reference_tone" => action.arguments[1] \in 55..1100
                                       /\ action.arguments[2] \in 100..5000

\* Faulty variant of RunProvider: the valid entries of a draft are kept, the others dropped.
RunProviderPartly(provider, draft, score, policy, locale) ==
  LET facts == Facts(score, policy)
      kept == SelectSeq(draft, LAMBDA entry : ValidPlan(<<entry>>, facts, policy))
      actions == [i \in DOMAIN kept |->
                    Action(i, kept, facts, provider, score, policy, locale)]
  IN  IF /\ provider \in ProviderNames /\ WellFormed(kept)
         /\ \A i \in DOMAIN actions : ValidAction(actions[i])
      THEN actions ELSE << >>

\* the actions of a draft; none when the draft, or what it comes to, is refused
RunProvider(provider, draft, score, policy, locale) ==
  LET facts == Facts(score, policy)
      actions == [i \in DOMAIN draft |->
                    Action(i, draft, facts, provider, score, policy, locale)]
  IN  IF /\ provider \in ProviderNames
         /\ WellFormed(draft) /\ ValidPlan(draft, facts, policy)
         /\ \A i \in DOMAIN actions : ValidAction(actions[i])
      THEN actions ELSE << >>

RulesPlan(score, policy, locale) ==
  RunProvider(Rules, RulesDraft(Facts(score, policy), policy), score, policy, locale)
-----------------------------------------------------------------------------
(* The service.                                                            *)

VARIABLES deployment,  \* what the service is configured with
          request,     \* per request: where it stands
          answers      \* the answers given, with the draft each was made from

vars == <<deployment, request, answers>>

Idle == [pc |-> "idle"]

Init ==
  /\ deployment \in Deployments
  /\ request = [r \in Requests |-> Idle]
  /\ answers = {}

Policy == deployment.policy
InFlight == {r \in Requests : request[r].pc # "idle"}

\* actions = << >> is CoachServiceError: 503, coach_unavailable
Answer(score, locale, provider, draft, fallback, actions) ==
  answers' = answers \cup
    {[score |-> score, locale |-> locale, policy |-> Policy, provider |-> provider,
      primary |-> deployment.primary, draft |-> draft, used_fallback |-> fallback,
      actions |-> actions]}

\* a request for a stored score: the primary provider is asked about corrections only
Coach(r, score, locale) ==
  /\ request[r].pc = "idle"
  /\ Cardinality(answers) + Cardinality(InFlight) < MaxAnswers
  /\ IF Policy \notin Approved
     THEN /\ Answer(score, locale, Rules, << >>, FALSE, << >>)
          /\ UNCHANGED request
     ELSE IF deployment.primary # "none" /\ Facts(score, Policy) # << >>
     THEN /\ request' = [request EXCEPT ![r] = [pc |-> "asking", score |-> score,
                                                locale |-> locale]]
          /\ UNCHANGED answers
     ELSE /\ Answer(score, locale, Rules, << >>, FALSE, RulesPlan(score, Policy, locale))
          /\ UNCHANGED request
  /\ UNCHANGED deployment

ProviderReplies(r, reply) ==
  /\ request[r].pc = "asking"
  /\ LET score == request[r].score
         locale == request[r].locale
         draft == Parsed(reply)
         actions == RunProvider(deployment.primary, draft, score, Policy, locale)
     IN  IF actions # << >>
         THEN Answer(score, locale, deployment.primary, draft, FALSE, actions)
         ELSE Answer(score, locale, Rules, draft, TRUE, RulesPlan(score, Policy, locale))
  /\ request' = [request EXCEPT ![r] = Idle]
  /\ UNCHANGED deployment

Restart ==
  /\ deployment' \in Deployments
  /\ request' = [r \in Requests |-> Idle]
  /\ UNCHANGED answers

Next ==
  \/ \E r \in Requests, score \in Scores, locale \in Locales : Coach(r, score, locale)
  \/ \E r \in Requests, reply \in Replies : ProviderReplies(r, reply)
  \/ Restart

Spec == Init /\ [][Next]_vars
-----------------------------------------------------------------------------
(* Properties.                                                             *)

\* the corrections of a score that matter more than c
Outranking(c, score) ==
  {d \in score.corrections :
     \/ d.severity > c.severity
     \/ /\ d.severity = c.severity
        /\ d.confidence * d.reference_confidence > c.confidence * c.reference_confidence}

Elements(a) == {a.actions[i] : i \in DOMAIN a.actions}

\* Whoever chose the exercises, a plan stays within what the score
\* established: it works on corrections of its score that fewer than
\* max_actions others outrank, on none of them twice; what it loops or slows
\* down is the range of its correction, the tone it plays is the reference
\* pitch of the correction in the safe range; and it says nothing of a
\* correction exactly when there is none.
PlansAreGrounded == \A a \in answers :
  /\ \A action \in Elements(a) :
       /\ (action.sources = {}) <=> (a.score.corrections = {})
       /\ \A c \in action.sources :
            /\ c \in a.score.corrections
            /\ Cardinality(Outranking(c, a.score)) < a.policy.max_actions
            /\ action.type \in {"loop", "slow"} =>
                 action.arguments[1] = c.start /\ action.arguments[2] = c.end
            /\ action.type = "reference_tone" =>
                 /\ c.reference.unit = "hertz" /\ action.arguments[1] = c.reference.value
                 /\ action.arguments[1] \in 55..1100
  /\ \A x, y \in Elements(a) : x.sources \cap y.sources # {} => x = y

\* Under an approved policy the coach never answers 503: whatever the score's
\* corrections are and whatever the provider did, the rules find a plan that
\* passes every check the provider's draft is held to.
CoachIsAvailable == \A a \in answers : a.policy \in Approved => a.actions # << >>

\* A response of the provider counts as a whole or not at all: a plan that
\* is the provider's has one action for every entry of its draft, in order,
\* and any other plan is the one the rules make of the score, the same as
\* without a provider, whatever valid entries the draft had.
DraftCountsAsAWhole == \A a \in answers : a.actions # << >> =>
  LET asked == a.primary # "none" /\ a.score.corrections # {} IN
  /\ a.used_fallback => asked
  /\ IF asked /\ ~a.used_fallback
     THEN /\ a.provider = a.primary /\ Len(a.actions) = Len(a.draft)
          /\ \A i \in DOMAIN a.actions : a.actions[i].type = a.draft[i].type
     ELSE a.provider = Rules /\ a.actions = RulesPlan(a.score, a.policy, a.locale)

\* Two actions with one identifier are one action, among all answers of the
\* service: of retries, in the other locale, by the rules in place of the
\* provider, and before and after a restart with another provider or policy.
ActionIdentityIsContent == \A a, b \in answers :
  \A x \in Elements(a), y \in Elements(b) : x.action_id = y.action_id => x = y
==================================================================================
