\* Two requests of browsers, or a verification, and a stranger.
SPECIFICATION Spec
CONSTANTS
  Callers = {q1, q2, v}
  Requests = {q1, q2}
  Verifier = v
  Agent = agent
  Others = {stranger}
CHECK_DEADLOCK FALSE
INVARIANTS
  AuditsNameTheCaller
  ImageIsAudited
  AnswersNameRecords
  NothingUnasked
  VerifiedIsSound
PROPERTY
  EveryRequestEnds
