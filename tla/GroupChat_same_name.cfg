SPECIFICATION FairSpec
CONSTANTS
  Names = {"pm", "engineer", "designer"}
  MaxParticipants = 3
  MaxRounds = 5
INVARIANTS SpeaksOncePerCycle
