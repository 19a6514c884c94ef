\* Condition trees over one event and two rules, batches with every issue, and the rules of the demo.
SPECIFICATION Spec
CONSTANTS
  MaxDepth = 3
  MaxRegistrations = 2
  Scenes <- AllScenes
INVARIANTS DecidesAsMeant EachQuestionOnce NothingAttachedIsDropped ReportsOnEvidence
PROPERTIES OnlySoundBatchesGoLive
CHECK_DEADLOCK FALSE
