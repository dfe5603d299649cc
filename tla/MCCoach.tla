-------------------------------- MODULE MCCoach --------------------------------
(* A small instance of CoachPlan: five scores, three policies, three        *)
(* providers and replies of every kind the gateway and the service tell     *)
(* apart.                                                                   *)
EXTENDS CoachPlan

MCPolicy == [coach_version |-> "coach.v1", max_actions |-> 2, slow_speed |-> 75,
             loop_repetitions |-> 3, reference_tone_duration_ms |-> 800,
             reference_tone_min_hz |-> 55, reference_tone_max_hz |-> 1100,
             correction_priority |-> <<"octave_error", "missed", "sharp", "flat", "early",
                                       "late", "short", "long", "unstable">>]
MCNextPolicy == [MCPolicy EXCEPT !.coach_version = "coach.v2", !.max_actions = 1,
                                 !.loop_repetitions = 4, !.reference_tone_max_hz = 400]
MCUnapproved == [MCPolicy EXCEPT !.slow_speed = 50]
MCApproved == {MCPolicy, MCNextPolicy}
MCNames == {Rules, "llm.responses.v1"}
MCDeployments ==
  {[policy |-> MCPolicy, primary |-> p] : p \in {"none", "llm.responses.v1", "LLM"}}
  \cup {[policy |-> MCNextPolicy, primary |-> "llm.responses.v1"],
        [policy |-> MCUnapproved, primary |-> "none"]}

Hertz(value) == [unit |-> "hertz", value |-> value]
Found(id, type, severity, confidence, reference) ==
  [id |-> id, type |-> type, start |-> 100 * id, end |-> 100 * id + 50,
   severity |-> severity, confidence |-> confidence, reference_confidence |-> 90,
   reference |-> reference]
Stored(reason, corrections) == [reason |-> reason, corrections |-> corrections]

MCScores ==
  {Stored("none", {Found(1, "flat", 40, 95, NoFact), Found(2, "late", 90, 80, NoFact),
                   Found(3, "missed", 90, 80, Hertz(440)), Found(4, "unstable", 40, 96, NoFact)}),
   Stored("none", {Found(1, "missed", 90, 80, Hertz(1500)), Found(2, "short", 50, 80, NoFact)}),
   Stored("none", {Found(5, "missed", 90, 80, Hertz(392))}),
   Stored("none", {}),
   Stored("input.accompaniment_leakage", {})}

Entry(type, alias) == [type |-> type, alias |-> alias, extra |-> FALSE]
Text(draft) == [kind |-> "output_text", draft |-> draft]
Reply(parts) == [http |-> 200, bytes |-> 1, status |-> "completed", parts |-> parts]
MCDrafts ==
  {<<Entry("slow", 1)>>, <<Entry("loop", 2), Entry("slow", 1)>>,
   <<Entry("reference_tone", 1)>>, <<Entry("text", 1)>>, TextOnly,
   <<Entry("slow", 1), Entry("loop", 9)>>, <<Entry("transpose", 1)>>,
   <<[Entry("slow", 1) EXCEPT !.extra = TRUE]>>,
   <<Entry("slow", 1), Entry("loop", 1)>>, << >>}
Plan == <<Entry("slow", 1)>>
MCReplies ==
  {Reply(<<Text(d)>>) : d \in MCDrafts}
  \cup {[Reply(<<Text(Plan)>>) EXCEPT !.http = 0], [Reply(<<Text(Plan)>>) EXCEPT !.http = 500],
        [Reply(<<Text(Plan)>>) EXCEPT !.bytes = 3],
        [Reply(<<Text(Plan)>>) EXCEPT !.status = "incomplete"],
        Reply(<<Text(Plan), Text(Plan)>>), Reply(<< >>),
        Reply(<<Text(Plan), [kind |-> "refusal", draft |-> << >>]>>)}
==================================================================================
