SPECIFICATION FairSpec
CONSTANTS
  Routes = {"billing", "technical"}
  Strangers = {"sales"}
  MaxHandoffs = 3
  MaxSteps = 4
  Names = {"pm", "engineer", "designer"}
  MaxParticipants = 3
  MaxRounds = 5
  MaxIterations = 5
  MaxCalls = 2
  None = None
INVARIANTS FollowsDecisions OutputsArePassedOn SpeaksOncePerCycle CallsAreAnswered
PROPERTIES ImplementsConversation
